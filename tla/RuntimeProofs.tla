---------------------------- MODULE RuntimeProofs ----------------------------
(***************************************************************************)
(* Proofs about what carries a run outside the store: the registries of    *)
(* direct runs (DirectRuns), the pool of OpenCode servers (OpenCodeTasks), *)
(* the table of MCP connections (McpSessions) and the child process with   *)
(* its reader (AgentProcess).  The components share no variable; each has  *)
(* an inductive invariant of its own.                                      *)
(***************************************************************************)
EXTENDS DirectRuns, OpenCodeTasks, McpSessions, AgentProcess,
        FiniteSetTheorems, TLAPS

(* A subset of a finite set is finite and not larger.                      *)
LEMMA SubsetsAreSmaller ==
  ASSUME NEW S, NEW T, IsFiniteSet(T), S \subseteq T
  PROVE  /\ IsFiniteSet(S)
         /\ Cardinality(S) \in Nat /\ Cardinality(T) \in Nat
         /\ Cardinality(S) <= Cardinality(T)
BY FS_Subset, FS_CardinalityType

(* One element more is at most one more in number.                         *)
LEMMA OneMore ==
  ASSUME NEW S, NEW T, NEW x, IsFiniteSet(S), T \subseteq S \cup {x}
  PROVE  /\ IsFiniteSet(T)
         /\ Cardinality(T) \in Nat /\ Cardinality(S) \in Nat
         /\ Cardinality(T) <= Cardinality(S) + 1
<1>1. /\ IsFiniteSet(S \cup {x})
      /\ Cardinality(S \cup {x}) = IF x \in S THEN Cardinality(S) ELSE Cardinality(S) + 1
  BY FS_AddElement
<1>2. Cardinality(S) \in Nat
  BY FS_CardinalityType
<1>3. IsFiniteSet(T) /\ Cardinality(T) \in Nat /\ Cardinality(T) <= Cardinality(S \cup {x})
  BY <1>1, SubsetsAreSmaller
<1> QED
  BY <1>1, <1>2, <1>3

-----------------------------------------------------------------------------
(* Direct runs *)

InFlight == {r \in EditIds : call[r] \in {"working", "refused"}}
EditsWorking == {r \in EditIds : EditWorking(r)}

DirectTypes ==
  /\ airun \in [DirectIds -> [status : {"absent", "queued", "running", "cancelling"} \cup EndedRun,
                              token : BOOLEAN]]
  /\ entry \in [AgentIds -> [state : {"none", "reserved", "started"},
                             folder : Folders \cup {NoFolder}]]
  /\ call \in [DirectIds -> {"none", "reserved", "started", "claiming", "entering", "refused",
                             "working", "worked", "answered", "closing", "ended"}]
  /\ verdict \in [DirectIds -> EndedRun \cup {"none"}]

(* Where an agent run is in its two registries: its entry is started while *)
(* its call works and gone when the call closes, and without a call and an *)
(* entry its status is final.                                              *)
Agreed(r) ==
  /\ AgentWorking(r) => entry[r].state = "started"
  /\ airun[r].status = "absent" => call[r] = "none" /\ entry[r] = NoEntry
  /\ call[r] \in {"none", "reserved", "ended"} =>
       \/ entry[r].state = "reserved"
       \/ entry[r] = NoEntry /\ airun[r].status \notin {"queued", "running"}
  /\ call[r] \in {"none", "reserved", "started"} => airun[r].status # "running"
  /\ call[r] \in {"worked", "closing"} => verdict[r] \in EndedRun
  /\ call[r] = "closing" => entry[r] = NoEntry

EntriesApart ==
  \A r, q \in Entries : r # q => entry[r].folder # entry[q].folder \/ entry[r].folder = NoFolder

EntriesLimited == IsFiniteSet(Entries) /\ Cardinality(Entries) <= AgentLimit

EditsCounted ==
  /\ \A r \in DirectIds \ AgentIds : call[r] \in {"entering", "refused"} => r \in EditIds
  /\ IsFiniteSet(InFlight) /\ chatting = Cardinality(InFlight)
  /\ IsFiniteSet(EditsWorking) /\ Cardinality(EditsWorking) <= PromptLimit

(* An edit or chat that closes has a verdict.                              *)
PromptsJudged == \A r \in DirectIds \ AgentIds : call[r] = "closing" => verdict[r] \in EndedRun

(* RegistriesAgree looks at runs whose calls work; the registries promise  *)
(* it of every entry, and the counter of edits counts refused ones too.    *)
DirectInv ==
  /\ DirectTypes
  /\ \A r \in AgentIds : Agreed(r)
  /\ EntriesApart
  /\ EntriesLimited
  /\ EditsCounted
  /\ PromptsJudged

LEMMA DirectInitially == DirectInit => DirectInv
<1> SUFFICES ASSUME DirectInit PROVE DirectInv
  OBVIOUS
<1>1. DirectTypes
  BY DirectAssumption DEF DirectInit, DirectTypes, NoEntry, DirectIds, EndedRun
<1>2. \A r \in AgentIds : Agreed(r)
  BY DEF DirectInit, Agreed, AgentWorking, DirectIds, NoEntry
<1>3. Entries = {} /\ InFlight = {} /\ EditsWorking = {}
  BY DEF DirectInit, Entries, InFlight, EditsWorking, EditWorking, DirectIds
<1>4. IsFiniteSet({}) /\ Cardinality({}) = 0
  BY FS_EmptySet
<1>5. \A r \in DirectIds : call[r] = "none"
  BY DEF DirectInit
<1> QED
  BY <1>1, <1>2, <1>3, <1>4, <1>5, DirectAssumption
     DEF DirectInv, EntriesApart, EntriesLimited, EditsCounted, PromptsJudged, DirectInit

(* An entry that is removed leaves the others apart and fewer.             *)
LEMMA EntryRemoved ==
  ASSUME DirectInv, NEW r \in AgentIds, RemoveRun(r)
  PROVE  EntriesApart' /\ EntriesLimited'
<1>1. /\ \A q \in AgentIds : q # r => entry'[q] = entry[q]
      /\ entry'[r] = NoEntry
  BY DEF RemoveRun, DirectInv, DirectTypes
<1>2. Entries' \subseteq Entries /\ r \notin Entries'
  BY <1>1 DEF Entries
<1>3. IsFiniteSet(Entries') /\ Cardinality(Entries') <= AgentLimit
  BY <1>2, SubsetsAreSmaller, DirectAssumption DEF DirectInv, EntriesLimited
<1>4. EntriesApart'
  BY <1>1, <1>2 DEF DirectInv, EntriesApart, Entries
<1> QED
  BY <1>3, <1>4 DEF EntriesLimited

(* An entry that is started keeps its folder and its place.                *)
LEMMA EntryStarted ==
  ASSUME DirectInv, NEW r \in AgentIds, entry[r].state = "reserved",
         entry' = [entry EXCEPT ![r].state = "started"]
  PROVE  EntriesApart' /\ EntriesLimited'
<1>1. /\ \A q \in AgentIds : entry'[q].folder = entry[q].folder
      /\ \A q \in AgentIds : q # r => entry'[q] = entry[q]
      /\ entry'[r] # NoEntry /\ entry[r] # NoEntry
  BY DEF DirectInv, DirectTypes, NoEntry
<1>2. Entries' = Entries
  BY <1>1 DEF Entries
<1> QED
  BY <1>1, <1>2 DEF DirectInv, EntriesApart, EntriesLimited, Entries

LEMMA EntryReserved ==
  ASSUME DirectInv, NEW r \in AgentIds, NEW f \in Folders \cup {NoFolder}, Reservable(f),
         entry' = [entry EXCEPT ![r] = [state |-> "reserved", folder |-> f]]
  PROVE  EntriesApart' /\ EntriesLimited'
<1>1. /\ \A q \in AgentIds : q # r => entry'[q] = entry[q]
      /\ entry'[r].folder = f
  BY DEF DirectInv, DirectTypes
<1>2. Entries' \subseteq Entries \cup {r}
  BY <1>1 DEF Entries
<1>3. IsFiniteSet(Entries') /\ Cardinality(Entries') <= AgentLimit
  <2>1. IsFiniteSet(Entries) /\ Cardinality(Entries) < AgentLimit
    BY DEF DirectInv, EntriesLimited, Reservable
  <2>2. /\ IsFiniteSet(Entries') /\ Cardinality(Entries) \in Nat /\ Cardinality(Entries') \in Nat
        /\ Cardinality(Entries') <= Cardinality(Entries) + 1
    BY <1>2, <2>1, OneMore
  <2> QED
    BY <2>1, <2>2, DirectAssumption
<1>4. EntriesApart'
  BY <1>1, <1>2 DEF DirectInv, EntriesApart, Entries, Reservable
<1> QED
  BY <1>3, <1>4 DEF EntriesLimited

(* What no edit or chat does leaves the counter of edits right.            *)
LEMMA EditsUntouched ==
  ASSUME DirectInv, \A q \in DirectIds \ AgentIds : call'[q] = call[q], chatting' = chatting
  PROVE  EditsCounted'
<1>1. EditIds \subseteq DirectIds \ AgentIds
  BY DirectAssumption DEF DirectIds
<1>2. InFlight' = InFlight /\ EditsWorking' = EditsWorking
  BY <1>1 DEF InFlight, EditsWorking, EditWorking
<1> QED
  BY <1>2 DEF DirectInv, EditsCounted

(* An agent run that nothing touches stays agreed.                         *)
LEMMA OthersAgreed ==
  ASSUME DirectInv, NEW q \in AgentIds, airun'[q].status = airun[q].status, entry'[q] = entry[q],
         call'[q] = call[q], verdict'[q] = verdict[q]
  PROVE  Agreed(q)'
BY DEF DirectInv, Agreed, AgentWorking

LEMMA AgentsStep ==
  ASSUME DirectInv, AgentRunNext
  PROVE  DirectInv'
<1>0. AgentIds \subseteq DirectIds
  BY DEF DirectIds
<1>1. PICK r \in AgentIds :
        \/ \E f \in Folders \cup {NoFolder} : ReserveRun(r, f)
        \/ ReleaseRun(r) \/ CancelTask(r) \/ CancelFound(r)
        \/ ExecuteTask(r) \/ StartEntry(r) \/ StartAgent(r) \/ ClaimForRun(r)
        \/ WorkAgent(r) \/ FinishAgent(r) \/ CloseRun(r)
  BY DEF AgentRunNext
<1> USE <1>0
<1> DEFINE Typed == DirectTypes'
           Others == /\ \A q \in DirectIds : q # r => /\ airun'[q] = airun[q] /\ call'[q] = call[q]
                                                      /\ verdict'[q] = verdict[q]
                     /\ \A q \in AgentIds : q # r => entry'[q] = entry[q]
                     /\ chatting' = chatting
           Apart == EntriesApart' /\ EntriesLimited'
<1>2. ASSUME entry' = entry PROVE Apart
  BY <1>2 DEF DirectInv, EntriesApart, EntriesLimited, Entries
<1>3. ASSUME NEW f \in Folders \cup {NoFolder}, ReserveRun(r, f)
      PROVE Typed /\ Others /\ Agreed(r)' /\ Apart
  <2>1. Typed
    <3>1. airun' \in [DirectIds -> [status : {"absent", "queued", "running", "cancelling"} \cup EndedRun,
                                     token : BOOLEAN]]
      <4>1. PICK s \in {"queued", "failed"} : airun' = [airun EXCEPT ![r].status = s]
        BY <1>3 DEF ReserveRun, Status
      <4> QED
        BY <4>1 DEF DirectInv, DirectTypes, EndedRun
    <3>2. entry' \in [AgentIds -> [state : {"none", "reserved", "started"},
                                    folder : Folders \cup {NoFolder}]]
      BY <1>3 DEF ReserveRun, DirectInv, DirectTypes
    <3> QED
      BY <1>3, <3>1, <3>2 DEF ReserveRun, DirectInv, DirectTypes
  <2>4. Others
    BY <1>3 DEF ReserveRun, Status, DirectInv, DirectTypes
  <2>2. Agreed(r)'
    BY <1>3 DEF ReserveRun, Status, DirectInv, DirectTypes, Agreed, AgentWorking, NoEntry
  <2>3. Apart
    BY <1>2, <1>3, EntryReserved DEF ReserveRun
  <2> QED
    BY <2>1, <2>2, <2>3, <2>4
<1>4. ASSUME ReleaseRun(r) PROVE Typed /\ Others /\ Agreed(r)' /\ Apart
  <2>1. Typed /\ Others
    BY <1>4, DirectAssumption
       DEF ReleaseRun, EndRun, RemoveRun, DirectInv, DirectTypes, EndedRun, NoEntry
  <2>2. Agreed(r)'
    BY <1>4 DEF ReleaseRun, EndRun, RemoveRun, DirectInv, DirectTypes, Agreed, AgentWorking,
                NoEntry, EndedRun
  <2>3. Apart
    BY <1>4, EntryRemoved DEF ReleaseRun
  <2> QED
    BY <2>1, <2>2, <2>3
<1>5. ASSUME CancelTask(r) PROVE Typed /\ Others /\ Agreed(r)' /\ Apart
  BY <1>2, <1>5 DEF CancelTask, DirectInv, DirectTypes, Agreed, AgentWorking
<1>6. ASSUME CancelFound(r) PROVE Typed /\ Others /\ Agreed(r)' /\ Apart
  <2>1. Typed /\ Others
    BY <1>6 DEF CancelFound, CancelRun, DirectInv, DirectTypes, EndedRun
  <2>2. Agreed(r)'
    BY <1>6 DEF CancelFound, CancelRun, DirectInv, DirectTypes, Agreed, AgentWorking, EndedRun
  <2> QED
    BY <1>2, <1>6, <2>1, <2>2 DEF CancelFound
<1>7. ASSUME ExecuteTask(r) PROVE Typed /\ Others /\ Agreed(r)' /\ Apart
  <2>1. PICK there \in {"reserved", "ended"} : call' = [call EXCEPT ![r] = there]
    BY <1>7 DEF ExecuteTask, Move
  <2>2. Typed /\ Others
    BY <1>7, <2>1 DEF ExecuteTask, DirectInv, DirectTypes
  <2>3. Agreed(r)'
    <3>1. Agreed(r) /\ call[r] = "none" /\ entry[r].state = "reserved"
      BY <1>7 DEF ExecuteTask, At, DirectInv
    <3>2. call'[r] = there /\ UNCHANGED <<entry, airun>>
      BY <1>7, <2>1 DEF ExecuteTask, DirectInv, DirectTypes
    <3> QED
      BY <3>1, <3>2 DEF Agreed, AgentWorking, NoEntry
  <2> QED
    BY <1>2, <1>7, <2>2, <2>3 DEF ExecuteTask
<1>8. ASSUME StartEntry(r) PROVE Typed /\ Others /\ Agreed(r)' /\ Apart
  <2>0. PICK there \in {"started", "ended"} : call' = [call EXCEPT ![r] = there]
    BY <1>8 DEF StartEntry, Move
  <2>1. Typed /\ Others
    <3>1. entry' = entry \/ entry' = [entry EXCEPT ![r].state = "started"]
      BY <1>8 DEF StartEntry
    <3>2. /\ entry' \in [AgentIds -> [state : {"none", "reserved", "started"},
                                       folder : Folders \cup {NoFolder}]]
          /\ \A q \in AgentIds : q # r => entry'[q] = entry[q]
      BY <3>1 DEF DirectInv, DirectTypes
    <3> QED
      BY <1>8, <2>0, <3>2 DEF StartEntry, DirectInv, DirectTypes
  <2>2. Agreed(r)'
    BY <1>8 DEF StartEntry, At, Move, DirectInv, DirectTypes, Agreed, AgentWorking, NoEntry
  <2>3. Apart
    BY <1>2, <1>8, EntryStarted DEF StartEntry
  <2> QED
    BY <2>1, <2>2, <2>3
<1>9. ASSUME StartAgent(r) PROVE Typed /\ Others /\ Agreed(r)' /\ Apart
  <2>1. Typed /\ Others
    <3>1. CASE airun[r].status = "queued"
      <4>1. /\ airun' = [airun EXCEPT ![r].status = "running"]
            /\ call' = [call EXCEPT ![r] = "claiming"]
            /\ UNCHANGED <<entry, verdict, chatting>>
        BY <1>9, <3>1 DEF StartAgent, Move, Status
      <4> QED
        BY <4>1 DEF DirectInv, DirectTypes
    <3>2. CASE airun[r].status # "queued"
      BY <1>9, <3>2, DirectAssumption
         DEF StartAgent, Move, RemoveRun, DirectInv, DirectTypes, NoEntry
    <3> QED
      BY <3>1, <3>2
  <2>2. Agreed(r)'
    BY <1>9 DEF StartAgent, At, Move, Status, RemoveRun, DirectInv, DirectTypes, Agreed,
                AgentWorking, NoEntry
  <2>3. Apart
    BY <1>2, <1>9, EntryRemoved DEF StartAgent
  <2> QED
    BY <2>1, <2>2, <2>3
<1>10. ASSUME ClaimForRun(r) PROVE Typed /\ Others /\ Agreed(r)' /\ Apart
  <2>1. Typed /\ Others
    <3>1. CASE Move(r, "working") /\ UNCHANGED <<entry, verdict>>
      BY <1>10, <3>1 DEF ClaimForRun, Move, DirectInv, DirectTypes
    <3>2. CASE /\ RemoveRun(r)
               /\ Move(r, "closing")
               /\ verdict' = [verdict EXCEPT ![r] = "failed"]
      BY <1>10, <3>2, DirectAssumption
         DEF ClaimForRun, Move, RemoveRun, DirectInv, DirectTypes, NoEntry, EndedRun
    <3> QED
      BY <1>10, <3>1, <3>2 DEF ClaimForRun
  <2>2. Agreed(r)'
    BY <1>10 DEF ClaimForRun, At, Move, RemoveRun, DirectInv, DirectTypes, Agreed,
                 AgentWorking, NoEntry, EndedRun
  <2>3. Apart
    BY <1>2, <1>10, EntryRemoved DEF ClaimForRun
  <2> QED
    BY <2>1, <2>2, <2>3
<1>11. ASSUME WorkAgent(r) PROVE Typed /\ Others /\ Agreed(r)' /\ Apart
  <2>1. Typed /\ Others /\ Agreed(r)'
    BY <1>11 DEF WorkAgent, At, Move, DirectInv, DirectTypes, Agreed, AgentWorking, EndedRun
  <2> QED
    BY <1>2, <1>11, <2>1 DEF WorkAgent
<1>12. ASSUME FinishAgent(r) PROVE Typed /\ Others /\ Agreed(r)' /\ Apart
  <2>1. Typed /\ Others
    BY <1>12, DirectAssumption
       DEF FinishAgent, At, Move, RemoveRun, DirectInv, DirectTypes, NoEntry, EndedRun
  <2>2. Agreed(r)'
    BY <1>12 DEF FinishAgent, At, Move, RemoveRun, DirectInv, DirectTypes, Agreed,
                 AgentWorking, NoEntry, EndedRun
  <2>3. Apart
    BY <1>12, EntryRemoved DEF FinishAgent
  <2> QED
    BY <2>1, <2>2, <2>3
<1>13. ASSUME CloseRun(r) PROVE Typed /\ Others /\ Agreed(r)' /\ Apart
  <2>1. Typed /\ Others
    BY <1>13 DEF CloseRun, At, Move, EndRun, DirectInv, DirectTypes, EndedRun, Agreed
  <2>2. Agreed(r)'
    BY <1>13 DEF CloseRun, At, Move, EndRun, DirectInv, DirectTypes, EndedRun, Agreed,
                 AgentWorking
  <2> QED
    BY <1>2, <1>13, <2>1, <2>2 DEF CloseRun
<1>14. Typed /\ Others /\ Agreed(r)' /\ Apart
  BY <1>1, <1>3, <1>4, <1>5, <1>6, <1>7, <1>8, <1>9, <1>10, <1>11, <1>12, <1>13
<1>15. \A q \in AgentIds : Agreed(q)'
  BY <1>14, OthersAgreed
<1>16. EditsCounted'
  BY <1>14, EditsUntouched
<1>17. PromptsJudged'
  BY <1>14 DEF DirectInv, PromptsJudged
<1> QED
  BY <1>14, <1>15, <1>16, <1>17 DEF DirectInv

(* What the calls of edits and chats do to the counter.                    *)
LEMMA PromptsStep ==
  ASSUME DirectInv, PromptRunNext
  PROVE  DirectInv'
<1>1. PICK r \in EditIds \cup ChatIds :
        \/ BeginRun(r) \/ CancelAiRun(r)
        \/ StartPrompt(r) \/ EnterEdit(r) \/ RefuseEdit(r)
        \/ WorkPrompt(r) \/ AnswerPrompt(r) \/ CloseRun(r)
  BY DEF PromptRunNext
<1>2. /\ r \in DirectIds /\ r \notin AgentIds
      /\ AgentIds \subseteq DirectIds /\ EditIds \subseteq DirectIds
      /\ EditIds \cap AgentIds = {}
  BY DirectAssumption DEF DirectIds
<1>3. /\ DirectTypes /\ IsFiniteSet(InFlight) /\ chatting = Cardinality(InFlight)
      /\ IsFiniteSet(EditsWorking) /\ Cardinality(EditsWorking) <= PromptLimit
      /\ call[r] \in {"entering", "refused"} => r \in EditIds
      /\ Cardinality(InFlight) \in Nat /\ Cardinality(EditsWorking) \in Nat
      /\ call[r] = "closing" => verdict[r] \in EndedRun
  BY <1>2, FS_CardinalityType DEF DirectInv, EditsCounted, PromptsJudged
<1> DEFINE Others == /\ \A q \in DirectIds : q # r => /\ airun'[q] = airun[q] /\ call'[q] = call[q]
                                                      /\ verdict'[q] = verdict[q]
                     /\ entry' = entry
           Uncounted == /\ chatting' = chatting
                        /\ r \in EditIds => /\ call[r] \notin {"working", "refused"}
                                            /\ call'[r] \notin {"working", "refused"}
                        /\ call'[r] \in {"entering", "refused"} => r \in EditIds
           Judged == call'[r] = "closing" => verdict'[r] \in EndedRun
<1>4. ASSUME Others, Uncounted PROVE EditsCounted'
  <2>1. InFlight' = InFlight /\ EditsWorking' = EditsWorking
    BY <1>2, <1>4 DEF InFlight, EditsWorking, EditWorking
  <2> QED
    BY <1>2, <1>4, <2>1 DEF DirectInv, EditsCounted
<1>5. ASSUME BeginRun(r) PROVE DirectTypes' /\ Others /\ EditsCounted' /\ Judged
  <2>1. DirectTypes' /\ Others
    BY <1>2, <1>3, <1>5 DEF BeginRun, Status, DirectTypes
  <2>2. InFlight' = InFlight /\ EditsWorking' = EditsWorking
    BY <1>5 DEF BeginRun, InFlight, EditsWorking, EditWorking
  <2> QED
    BY <1>3, <1>5, <2>1, <2>2 DEF BeginRun, DirectInv, EditsCounted
<1>6. ASSUME CancelAiRun(r) PROVE DirectTypes' /\ Others /\ EditsCounted' /\ Judged
  <2>1. DirectTypes' /\ Others
    BY <1>2, <1>3, <1>6 DEF CancelAiRun, CancelRun, DirectTypes, EndedRun
  <2>2. InFlight' = InFlight /\ EditsWorking' = EditsWorking
    BY <1>6 DEF CancelAiRun, InFlight, EditsWorking, EditWorking
  <2> QED
    BY <1>3, <1>6, <2>1, <2>2 DEF CancelAiRun, DirectInv, EditsCounted
<1>7. ASSUME StartPrompt(r) PROVE DirectTypes' /\ Others /\ EditsCounted' /\ Judged
  <2>1. CASE airun[r].status = "queued"
    <3>1. /\ airun' = [airun EXCEPT ![r].status = "running"]
          /\ call' = [call EXCEPT ![r] = IF r \in EditIds THEN "entering" ELSE "working"]
          /\ call[r] = "none"
          /\ UNCHANGED <<entry, verdict, chatting>>
      BY <1>7, <2>1 DEF StartPrompt, Status, Move, At
    <3>2. DirectTypes' /\ Others
      BY <1>2, <1>3, <3>1 DEF DirectTypes
    <3>3. Uncounted /\ Judged
      BY <1>2, <1>3, <3>1 DEF DirectTypes
    <3> QED
      BY <1>4, <3>2, <3>3
  <2>2. CASE airun[r].status # "queued"
    <3>1. /\ call' = [call EXCEPT ![r] = "ended"]
          /\ call[r] = "none"
          /\ UNCHANGED <<airun, entry, verdict, chatting>>
      BY <1>7, <2>2 DEF StartPrompt, Move, At
    <3>2. DirectTypes' /\ Others /\ Uncounted /\ Judged
      BY <1>2, <1>3, <3>1 DEF DirectTypes
    <3> QED
      BY <1>4, <3>2
  <2> QED
    BY <2>1, <2>2
<1>8. ASSUME EnterEdit(r) PROVE DirectTypes' /\ Others /\ EditsCounted' /\ Judged
  <2> DEFINE there == IF chatting < PromptLimit THEN "working" ELSE "refused"
  <2>1. /\ call[r] = "entering" /\ r \in EditIds
        /\ chatting' = chatting + 1
        /\ call' = [call EXCEPT ![r] = there]
        /\ UNCHANGED <<airun, entry, verdict>>
    BY <1>3, <1>8 DEF EnterEdit, At, Move
  <2>2. DirectTypes' /\ Others /\ call'[r] = there /\ Judged
    BY <1>2, <1>3, <2>1 DEF DirectTypes
  <2>3. InFlight' = InFlight \cup {r} /\ r \notin InFlight
    BY <1>2, <2>1, <2>2 DEF InFlight
  <2>4. IsFiniteSet(InFlight') /\ chatting' = Cardinality(InFlight')
    BY <1>3, <2>1, <2>3, FS_AddElement
  <2>5. IsFiniteSet(EditsWorking') /\ Cardinality(EditsWorking') <= PromptLimit
    <3>1. CASE chatting < PromptLimit
      <4>1. EditsWorking \subseteq InFlight
        BY DEF EditsWorking, InFlight, EditWorking
      <4>2. Cardinality(EditsWorking) <= Cardinality(InFlight)
        BY <1>3, <4>1, SubsetsAreSmaller
      <4>3. EditsWorking' \subseteq EditsWorking \cup {r}
        BY <1>2, <2>2 DEF EditsWorking, EditWorking
      <4>4. /\ IsFiniteSet(EditsWorking') /\ Cardinality(EditsWorking') \in Nat
            /\ Cardinality(EditsWorking') <= Cardinality(EditsWorking) + 1
        BY <1>3, <4>3, OneMore
      <4> QED
        BY <1>3, <3>1, <4>2, <4>4, DirectAssumption
    <3>2. CASE ~(chatting < PromptLimit)
      <4>1. EditsWorking' = EditsWorking
        BY <1>2, <2>1, <2>2, <3>2 DEF EditsWorking, EditWorking
      <4> QED
        BY <1>3, <4>1
    <3> QED
      BY <3>1, <3>2
  <2>6. \A q \in DirectIds \ AgentIds : call'[q] \in {"entering", "refused"} => q \in EditIds
    BY <2>1, <2>2 DEF DirectInv, EditsCounted
  <2> QED
    BY <2>2, <2>4, <2>5, <2>6 DEF EditsCounted
<1>9. ASSUME call[r] \in {"refused", "working"}, call'[r] \in {"answered", "closing"}, Others,
             chatting' = IF r \in EditIds THEN chatting - 1 ELSE chatting
      PROVE  EditsCounted'
  <2>1. CASE r \in EditIds
    <3>1. InFlight' = InFlight \ {r} /\ r \in InFlight /\ EditsWorking' \subseteq EditsWorking
      BY <1>2, <1>9, <2>1 DEF InFlight, EditsWorking, EditWorking
    <3>2. IsFiniteSet(InFlight') /\ chatting' = Cardinality(InFlight')
      BY <1>3, <1>9, <2>1, <3>1, FS_RemoveElement
    <3>3. /\ IsFiniteSet(EditsWorking') /\ Cardinality(EditsWorking') \in Nat
          /\ Cardinality(EditsWorking') <= Cardinality(EditsWorking)
      BY <1>3, <3>1, SubsetsAreSmaller
    <3>4. Cardinality(EditsWorking') <= PromptLimit
      BY <1>3, <3>3, DirectAssumption
    <3> QED
      BY <1>9, <3>2, <3>3, <3>4 DEF EditsCounted, DirectInv
  <2>2. CASE r \notin EditIds
    <3>1. InFlight' = InFlight /\ EditsWorking' = EditsWorking
      BY <1>2, <1>9, <2>2 DEF InFlight, EditsWorking, EditWorking
    <3> QED
      BY <1>9, <2>2, <3>1 DEF EditsCounted, DirectInv
  <2> QED
    BY <2>1, <2>2
<1>10. ASSUME RefuseEdit(r) PROVE DirectTypes' /\ Others /\ EditsCounted' /\ Judged
  <2>1. /\ call[r] = "refused" /\ r \in EditIds
        /\ chatting' = chatting - 1
        /\ call' = [call EXCEPT ![r] = "closing"]
        /\ verdict' = [verdict EXCEPT ![r] = "failed"]
        /\ UNCHANGED <<airun, entry>>
    BY <1>3, <1>10 DEF RefuseEdit, At, Move
  <2>2. DirectTypes' /\ Others /\ call'[r] = "closing" /\ Judged
    BY <1>2, <1>3, <2>1 DEF DirectTypes, EndedRun
  <2> QED
    BY <1>9, <2>1, <2>2
<1>11. ASSUME WorkPrompt(r) PROVE DirectTypes' /\ Others /\ EditsCounted' /\ Judged
  <2>1. PICK v \in {"completed", "failed", "cancelled"} :
          /\ verdict' = [verdict EXCEPT ![r] = v]
          /\ call' = [call EXCEPT ![r] = IF v = "completed" THEN "answered" ELSE "closing"]
    BY <1>11 DEF WorkPrompt, Move
  <2>2. /\ call[r] = "working"
        /\ chatting' = IF r \in EditIds THEN chatting - 1 ELSE chatting
        /\ UNCHANGED <<airun, entry>>
    BY <1>11 DEF WorkPrompt, At
  <2>3. DirectTypes' /\ Others /\ call'[r] \in {"answered", "closing"} /\ Judged
    BY <1>2, <1>3, <2>1, <2>2 DEF DirectTypes, EndedRun
  <2> QED
    BY <1>9, <2>2, <2>3
<1>12. ASSUME AnswerPrompt(r) PROVE DirectTypes' /\ Others /\ EditsCounted' /\ Judged
  <2>1. PICK v \in {"cancelled", "completed"} : verdict' = [verdict EXCEPT ![r] = v]
    BY <1>12 DEF AnswerPrompt
  <2>2. /\ call[r] = "answered" /\ call' = [call EXCEPT ![r] = "closing"]
        /\ UNCHANGED <<airun, entry, chatting>>
    BY <1>12 DEF AnswerPrompt, At, Move
  <2>3. DirectTypes' /\ Others /\ Uncounted /\ Judged
    BY <1>2, <1>3, <2>1, <2>2 DEF DirectTypes, EndedRun
  <2> QED
    BY <1>4, <2>3
<1>13. ASSUME CloseRun(r) PROVE DirectTypes' /\ Others /\ EditsCounted' /\ Judged
  <2>1. /\ call[r] = "closing" /\ call' = [call EXCEPT ![r] = "ended"]
        /\ verdict' = [verdict EXCEPT ![r] = "none"]
        /\ EndRun(r, verdict[r])
        /\ UNCHANGED <<entry, chatting>>
    BY <1>13 DEF CloseRun, At, Move
  <2>2. DirectTypes' /\ Others /\ Uncounted /\ Judged
    BY <1>2, <1>3, <2>1 DEF DirectTypes, EndRun, EndedRun
  <2> QED
    BY <1>4, <2>2
<1>14. DirectTypes' /\ Others /\ EditsCounted' /\ Judged
  BY <1>1, <1>5, <1>6, <1>7, <1>8, <1>10, <1>11, <1>12, <1>13
<1>15. \A q \in AgentIds : Agreed(q)'
  BY <1>2, <1>14, OthersAgreed
<1>16. EntriesApart' /\ EntriesLimited'
  BY <1>14 DEF DirectInv, EntriesApart, EntriesLimited, Entries
<1>17. PromptsJudged'
  BY <1>2, <1>14 DEF DirectInv, PromptsJudged
<1> QED
  BY <1>14, <1>15, <1>16, <1>17 DEF DirectInv

LEMMA RegistriesFollow == DirectInv => RegistriesAgree
<1> SUFFICES ASSUME DirectInv PROVE RegistriesAgree
  OBVIOUS
<1>1. \A r \in AgentIds : AgentWorking(r) => r \in Entries /\ entry[r].state = "started"
  BY DEF DirectInv, Agreed, Entries, NoEntry
<1>2. {r \in AgentIds : AgentWorking(r)} \subseteq Entries
  BY <1>1
<1>3. /\ Cardinality({r \in AgentIds : AgentWorking(r)}) \in Nat /\ Cardinality(Entries) \in Nat
      /\ Cardinality({r \in AgentIds : AgentWorking(r)}) <= Cardinality(Entries)
  BY <1>2, SubsetsAreSmaller DEF DirectInv, EntriesLimited
<1>4. Cardinality({r \in AgentIds : AgentWorking(r)}) <= AgentLimit
  BY <1>3, DirectAssumption DEF DirectInv, EntriesLimited
<1>5. Cardinality({r \in EditIds : EditWorking(r)}) <= PromptLimit
  BY DEF DirectInv, EditsCounted, EditsWorking
<1>6. \A r \in AgentIds : AgentWorking(r) =>
        /\ entry[r].state = "started"
        /\ \A q \in AgentIds \ {r} :
             AgentWorking(q) => entry[q].folder # entry[r].folder \/ entry[r].folder = NoFolder
  BY <1>1 DEF DirectInv, EntriesApart
<1>7. \A r \in AgentIds :
        entry[r] = NoEntry /\ call[r] \in {"none", "ended"} =>
          airun[r].status \notin {"queued", "running"}
  BY DEF DirectInv, Agreed, NoEntry
<1> QED
  BY <1>4, <1>5, <1>6, <1>7 DEF RegistriesAgree

(* The two registries agree whatever is reserved, released and cancelled   *)
(* between their locks, for any limits and any number of runs.             *)
THEOREM RegistriesStayAgreed == DirectSpec => []RegistriesAgree
<1>1. DirectInv /\ [AgentRunNext \/ PromptRunNext]_directVars => DirectInv'
  <2>1. ASSUME DirectInv, UNCHANGED directVars PROVE DirectInv'
    BY <2>1 DEF directVars, DirectInv, DirectTypes, Agreed, AgentWorking, EntriesApart, Entries,
                EntriesLimited, EditsCounted, PromptsJudged, InFlight, EditsWorking,
                EditWorking
  <2> QED
    BY <2>1, AgentsStep, PromptsStep
<1> QED
  BY <1>1, DirectInitially, RegistriesFollow, PTL DEF DirectSpec

-----------------------------------------------------------------------------
(* OpenCode servers *)

UpServers == {i \in Calls : Up(i)}
StartingCalls == {c \in Calls : task[c].at = "starting"}

OpenCodeTypes ==
  /\ key \in [Calls -> ServerKeys]
  /\ task \in [Calls -> [at : {"lookup", "wait", "starting", "serve", "run",
                               "completed", "blocked", "failed"},
                         session : {"none", "expected", "new"}]]
  /\ server \in [Calls -> {"absent", "starting", "up", "dead"}]
  /\ uses \in [Calls -> SUBSET Calls]
  /\ pool \subseteq Calls
  /\ closed \in BOOLEAN

(* One server starts at a time, under the startup lock, and a run that has *)
(* not come to it has none.                                                *)
OneStarts ==
  /\ \A c, d \in StartingCalls : c = d
  /\ \A c \in Calls : server[c] = "starting" => c \in StartingCalls
  /\ \A c \in Calls : task[c].at \in {"lookup", "wait"} => server[c] = "absent"

(* While a server starts the pool has room for it and none of its key.     *)
RoomForStart ==
  /\ \A c \in StartingCalls : \A i \in UpServers : key[i] # key[c]
  /\ StartingCalls # {} => Cardinality(UpServers) < PoolLimit

PoolTellsAll ==
  /\ UpServers \subseteq pool
  /\ \A i, j \in UpServers : key[i] = key[j] => i = j
  /\ IsFiniteSet(UpServers) /\ Cardinality(UpServers) <= PoolLimit

OpenCodeInv ==
  /\ OpenCodeTypes
  /\ OneStarts
  /\ ~closed => PoolTellsAll /\ RoomForStart


(* A step after which fewer servers live, and none more starts.            *)
LEMMA FewerServers ==
  ASSUME OpenCodeInv, UNCHANGED key, UpServers' \subseteq UpServers,
         StartingCalls' \subseteq StartingCalls, ~closed => UpServers' \subseteq pool', ~closed
  PROVE  PoolTellsAll' /\ RoomForStart'
<1>1. /\ IsFiniteSet(UpServers') /\ Cardinality(UpServers') \in Nat /\ Cardinality(UpServers) \in Nat
      /\ Cardinality(UpServers') <= Cardinality(UpServers)
  BY SubsetsAreSmaller DEF OpenCodeInv, PoolTellsAll
<1>2. PoolTellsAll'
  BY <1>1, OpenCodeAssumption DEF OpenCodeInv, PoolTellsAll
<1>3. RoomForStart'
  BY <1>1, OpenCodeAssumption DEF OpenCodeInv, RoomForStart
<1> QED
  BY <1>2, <1>3

LEMMA OpenCodeInitially == OpenCodeInit => OpenCodeInv
<1> SUFFICES ASSUME OpenCodeInit PROVE OpenCodeInv
  OBVIOUS
<1>1. OpenCodeTypes /\ OneStarts
  BY DEF OpenCodeInit, OpenCodeTypes, OneStarts, StartingCalls
<1>2. UpServers = {} /\ StartingCalls = {}
  BY DEF OpenCodeInit, UpServers, Up, StartingCalls
<1>3. PoolTellsAll /\ RoomForStart
  BY <1>2, FS_EmptySet, OpenCodeAssumption DEF PoolTellsAll, RoomForStart
<1> QED
  BY <1>1, <1>3 DEF OpenCodeInv

(* While the application is open the servers that live are those of the    *)
(* pool that live, and looking at it forgets none of them.                 *)
LEMMA AliveAreUp ==
  ASSUME OpenCodeInv, ~closed
  PROVE  Alive = UpServers
BY DEF OpenCodeInv, OpenCodeTypes, PoolTellsAll, Alive, UpServers

(* Servers end only where neither the pool nor a run refers to them.       *)
LEMMA DroppedServers ==
  ASSUME OpenCodeInv, NEW kept, NEW using
  PROVE  /\ Dropped(kept, using) \in [Calls -> {"absent", "starting", "up", "dead"}]
         /\ \A i \in Calls :
              /\ Dropped(kept, using)[i] = "up" => Up(i)
              /\ Dropped(kept, using)[i] = "starting" => server[i] = "starting"
              /\ server[i] = "absent" => Dropped(kept, using)[i] = "absent"
BY DEF Dropped, Up, OpenCodeInv, OpenCodeTypes

LEMMA LaunchKeeps ==
  ASSUME OpenCodeInv, NEW c \in Calls, NEW kept, task[c].at = "wait", StartingCalls = {},
         Launch(c, kept), kept \subseteq UpServers, ~closed => IsFiniteSet(kept),
         ~closed => Cardinality(kept) < PoolLimit,
         ~closed => \A i \in UpServers \ kept : Users(i) = {},
         ~closed => \A i \in UpServers : key[i] # key[c],
         UNCHANGED <<key, closed>>
  PROVE  OpenCodeInv'
<1>1. /\ server' = [Dropped(kept, uses) EXCEPT ![c] = "starting"]
      /\ pool' = kept /\ task' = [task EXCEPT ![c].at = "starting"] /\ uses' = uses
      /\ \A i \in Calls : i # c => server'[i] = Dropped(kept, uses)[i]
      /\ server'[c] = "starting" /\ server[c] = "absent"
  BY DroppedServers DEF Launch, GoTo, OpenCodeInv, OneStarts
<1>2. OpenCodeTypes'
  <2>1. kept \subseteq Calls
    BY DEF UpServers
  <2>2. server' \in [Calls -> {"absent", "starting", "up", "dead"}]
    BY <1>1, DroppedServers
  <2>3. task' \in [Calls -> [at : {"lookup", "wait", "starting", "serve", "run",
                                   "completed", "blocked", "failed"},
                             session : {"none", "expected", "new"}]]
    BY <1>1 DEF OpenCodeInv, OpenCodeTypes
  <2> QED
    BY <1>1, <2>1, <2>2, <2>3 DEF OpenCodeInv, OpenCodeTypes
<1>3. StartingCalls' = {c}
  BY <1>1 DEF StartingCalls, OpenCodeInv, OpenCodeTypes
<1>4. OneStarts'
  <2>1. \A d \in Calls : server'[d] = "starting" => d = c
    BY <1>1, DroppedServers DEF OpenCodeInv, OneStarts
  <2>2. \A d \in Calls : task'[d].at \in {"lookup", "wait"} => d # c /\ task[d] = task'[d]
    BY <1>1 DEF OpenCodeInv, OpenCodeTypes
  <2>3. \A d \in Calls : task'[d].at \in {"lookup", "wait"} => server'[d] = "absent"
    BY <1>1, <2>2, DroppedServers DEF OpenCodeInv, OneStarts
  <2> QED
    BY <1>3, <2>1, <2>3 DEF OneStarts
<1>5. ASSUME ~closed PROVE PoolTellsAll' /\ RoomForStart'
  <2>1. UpServers' = kept
    <3>1. \A i \in Calls : i # c => (server'[i] = "up" <=> Up(i) /\ i \in kept)
      BY <1>1, <1>5 DEF Dropped, Up, Users, UpServers
    <3>2. ~Up(c) /\ server'[c] # "up"
      BY <1>1 DEF Up
    <3> QED
      BY <3>1, <3>2 DEF UpServers, Up
  <2>2. PoolTellsAll'
    BY <1>1, <1>5, <2>1, FS_CardinalityType, OpenCodeAssumption
       DEF PoolTellsAll, OpenCodeInv
  <2>3. RoomForStart'
    BY <1>3, <1>5, <2>1 DEF RoomForStart
  <2> QED
    BY <2>2, <2>3
<1> QED
  BY <1>2, <1>4, <1>5 DEF OpenCodeInv

(* A run that goes on without a start.                                     *)
LEMMA MovedOn ==
  ASSUME OpenCodeInv, NEW c \in Calls, task[c].at \in {"lookup", "wait"},
         NEW there \in {"serve", "wait"}, GoTo(c, there),
         there = "wait" => task[c].at = "lookup",
         pool' = Alive, uses' \in [Calls -> SUBSET Calls], UNCHANGED <<key, server, closed>>
  PROVE  OpenCodeInv'
<1>1. \A d \in Calls : d # c => task'[d] = task[d]
  BY DEF GoTo, OpenCodeInv, OpenCodeTypes
<1>2. task'[c].at = there
  BY DEF GoTo, OpenCodeInv, OpenCodeTypes
<1>3. OpenCodeTypes'
  <2>1. task' \in [Calls -> [at : {"lookup", "wait", "starting", "serve", "run",
                                   "completed", "blocked", "failed"},
                             session : {"none", "expected", "new"}]]
    BY DEF GoTo, OpenCodeInv, OpenCodeTypes
  <2> QED
    BY <2>1 DEF OpenCodeInv, OpenCodeTypes, Alive
<1>4. StartingCalls' = StartingCalls /\ UpServers' = UpServers
  BY <1>1, <1>2 DEF StartingCalls, UpServers, Up
<1>5. OneStarts'
  BY <1>1, <1>2, <1>4 DEF OpenCodeInv, OneStarts
<1>6. ~closed => PoolTellsAll' /\ RoomForStart'
  BY <1>4, AliveAreUp, FewerServers
<1> QED
  BY <1>3, <1>5, <1>6 DEF OpenCodeInv

LEMMA LookupsKeep ==
  ASSUME OpenCodeInv, NEW c \in Calls, Lookup(c) \/ LookAgain(c), UNCHANGED key
  PROVE  OpenCodeInv'
<1>1. Hit(c) \subseteq Calls
  BY DEF Hit, Alive, OpenCodeInv, OpenCodeTypes
<1>2. [uses EXCEPT ![c] = Hit(c)] \in [Calls -> SUBSET Calls] /\ uses \in [Calls -> SUBSET Calls]
  BY <1>1 DEF OpenCodeInv, OpenCodeTypes
<1>3. CASE Lookup(c)
  <2>1. /\ task[c].at = "lookup" /\ pool' = Alive /\ UNCHANGED <<server, closed>>
        /\ uses' \in [Calls -> SUBSET Calls]
        /\ GoTo(c, "serve") \/ GoTo(c, "wait")
    BY <1>2, <1>3 DEF Lookup
  <2> QED
    BY <2>1, MovedOn
<1>4. CASE LookAgain(c)
  <2>1. /\ task[c].at = "wait" /\ StartingCalls = {} /\ UNCHANGED closed
        /\ IF Hit(c) # {} THEN Reuse(c) ELSE MakeRoom(c)
    BY <1>4 DEF LookAgain, Starting, StartingCalls
  <2>2. CASE Hit(c) # {}
    <3>1. pool' = Alive /\ GoTo(c, "serve") /\ UNCHANGED server /\ uses' \in [Calls -> SUBSET Calls]
      BY <1>2, <2>1, <2>2 DEF Reuse
    <3> QED
      BY <2>1, <3>1, MovedOn
  <2>3. CASE Hit(c) = {}
    <3>1. ~closed => \A i \in UpServers : key[i] # key[c]
      BY <2>3, AliveAreUp DEF Hit
    <3>2. Alive \subseteq UpServers
      BY DEF Alive, UpServers, OpenCodeInv, OpenCodeTypes
    <3>3. ~closed => /\ Alive = UpServers /\ IsFiniteSet(Alive)
                     /\ Cardinality(Alive) \in Nat /\ Cardinality(Alive) <= PoolLimit
      BY AliveAreUp, FS_CardinalityType DEF OpenCodeInv, PoolTellsAll
    <3>4. CASE Cardinality(Alive) < PoolLimit /\ Launch(c, Alive)
      BY <2>1, <3>1, <3>2, <3>3, <3>4, LaunchKeeps
    <3>5. CASE /\ Cardinality(Alive) >= PoolLimit
               /\ \E idle \in Alive : Users(idle) = {} /\ Launch(c, Alive \ {idle})
      <4>1. PICK idle \in Alive : Users(idle) = {} /\ Launch(c, Alive \ {idle})
        BY <3>5
      <4>2. ~closed => /\ IsFiniteSet(Alive \ {idle})
                       /\ Cardinality(Alive \ {idle}) = Cardinality(Alive) - 1
        BY <3>3, FS_RemoveElement
      <4>3. ~closed => Cardinality(Alive \ {idle}) < PoolLimit
        BY <3>3, <4>2, OpenCodeAssumption
      <4>4. ~closed => \A i \in UpServers \ (Alive \ {idle}) : Users(i) = {}
        BY <3>3, <4>1
      <4>5. Alive \ {idle} \subseteq UpServers
        BY <3>2
      <4> QED
        BY <2>1, <3>1, <4>1, <4>2, <4>3, <4>4, <4>5, LaunchKeeps
    <3>6. CASE pool' = Alive /\ GoTo(c, "serve") /\ UNCHANGED <<server, uses>>
      BY <1>2, <2>1, <3>6, MovedOn
    <3> QED
      BY <2>1, <2>3, <3>4, <3>5, <3>6 DEF MakeRoom
  <2> QED
    BY <2>2, <2>3
<1> QED
  BY <1>3, <1>4

(* A run that has been served moves on; what lives, lives less.            *)
LEMMA ServedMoves ==
  ASSUME OpenCodeInv, NEW c \in Calls, task[c].at \in {"serve", "run"},
         NEW t \in [at : {"run", "completed", "blocked", "failed"},
                    session : {"none", "expected", "new"}],
         task' = [task EXCEPT ![c] = t],
         uses' \in [Calls -> SUBSET Calls], UNCHANGED <<key, pool, closed>>,
         server' = server \/ server' = Dropped(pool, uses')
  PROVE  OpenCodeInv'
<1>1. /\ \A d \in Calls : d # c => task'[d] = task[d]
      /\ task'[c] = t
  BY DEF OpenCodeInv, OpenCodeTypes
<1>2. /\ server' \in [Calls -> {"absent", "starting", "up", "dead"}]
      /\ \A i \in Calls : /\ server'[i] = "up" => Up(i)
                          /\ server'[i] = "starting" => server[i] = "starting"
                          /\ server[i] = "absent" => server'[i] = "absent"
  BY DroppedServers DEF OpenCodeInv, OpenCodeTypes, Up
<1>3. OpenCodeTypes'
  BY <1>2 DEF OpenCodeInv, OpenCodeTypes
<1>4. StartingCalls' = StartingCalls /\ UpServers' \subseteq UpServers
  BY <1>1, <1>2 DEF StartingCalls, UpServers, Up
<1>5. OneStarts'
  BY <1>1, <1>2, <1>4 DEF OpenCodeInv, OneStarts
<1>6. ~closed => PoolTellsAll' /\ RoomForStart'
  BY <1>4, FewerServers DEF OpenCodeInv, PoolTellsAll
<1> QED
  BY <1>3, <1>5, <1>6 DEF OpenCodeInv

LEMMA ServerReadyKeeps ==
  ASSUME OpenCodeInv, NEW c \in Calls, ServerReady(c), UNCHANGED key
  PROVE  OpenCodeInv'
<1>1. /\ c \in StartingCalls /\ UNCHANGED closed
      /\ task' = [task EXCEPT ![c].at = "serve"]
  BY DEF ServerReady, StartingCalls, GoTo
<1>2. /\ \A d \in Calls : d # c => task'[d] = task[d]
      /\ task'[c].at = "serve"
  BY <1>1 DEF OpenCodeInv, OpenCodeTypes
<1>3. StartingCalls' = {}
  BY <1>1, <1>2 DEF StartingCalls, OpenCodeInv, OneStarts
<1>4. task' \in [Calls -> [at : {"lookup", "wait", "starting", "serve", "run",
                                 "completed", "blocked", "failed"},
                           session : {"none", "expected", "new"}]]
  BY <1>1 DEF OpenCodeInv, OpenCodeTypes
<1>5. PICK s \in {"up", "dead"} : server' = [server EXCEPT ![c] = s]
  BY DEF ServerReady
<1>6. /\ server' \in [Calls -> {"absent", "starting", "up", "dead"}]
      /\ \A d \in Calls : d # c => server'[d] = server[d]
      /\ server'[c] = s
  BY <1>5 DEF OpenCodeInv, OpenCodeTypes
<1>7. OneStarts'
  <2>1. \A d \in Calls : server'[d] # "starting"
    BY <1>1, <1>6 DEF OpenCodeInv, OneStarts, StartingCalls
  <2>2. \A d \in Calls : task'[d].at \in {"lookup", "wait"} => server'[d] = "absent"
    BY <1>2, <1>6 DEF OpenCodeInv, OneStarts
  <2> QED
    BY <1>3, <2>1, <2>2 DEF OneStarts
<1>8. CASE /\ server' = [server EXCEPT ![c] = "up"]
           /\ pool' = pool \cup {c}
           /\ uses' = [uses EXCEPT ![c] = {c}]
  <2>1. OpenCodeTypes'
    BY <1>1, <1>4, <1>6, <1>8 DEF OpenCodeInv, OpenCodeTypes
  <2>2. server'[c] = "up"
    BY <1>8 DEF OpenCodeInv, OpenCodeTypes
  <2>3. UpServers' = UpServers \cup {c}
    BY <1>6, <2>2 DEF UpServers, Up
  <2>4. ASSUME ~closed PROVE PoolTellsAll' /\ RoomForStart'
    <3>1. /\ IsFiniteSet(UpServers) /\ Cardinality(UpServers) < PoolLimit
          /\ Cardinality(UpServers) \in Nat
          /\ UpServers \subseteq pool
          /\ \A i, j \in UpServers : key[i] = key[j] => i = j
          /\ \A i \in UpServers : key[i] # key[c]
      BY <1>1, <2>4, FS_CardinalityType DEF OpenCodeInv, PoolTellsAll, RoomForStart
    <3>2. /\ IsFiniteSet(UpServers') /\ Cardinality(UpServers') \in Nat
          /\ Cardinality(UpServers') <= Cardinality(UpServers) + 1
      BY <2>3, <3>1, OneMore
    <3>3. Cardinality(UpServers') <= PoolLimit
      BY <3>1, <3>2, OpenCodeAssumption
    <3>4. PoolTellsAll'
      BY <1>8, <2>3, <3>1, <3>2, <3>3 DEF PoolTellsAll
    <3> QED
      BY <1>3, <3>4 DEF RoomForStart
  <2> QED
    BY <1>1, <1>7, <2>1, <2>4 DEF OpenCodeInv
<1>9. CASE server' = [server EXCEPT ![c] = "dead"] /\ UNCHANGED <<pool, uses>>
  <2>1. OpenCodeTypes'
    BY <1>1, <1>4, <1>6, <1>9 DEF OpenCodeInv, OpenCodeTypes
  <2>2. server'[c] = "dead"
    BY <1>9 DEF OpenCodeInv, OpenCodeTypes
  <2>3. UpServers' \subseteq UpServers
    BY <1>6, <2>2 DEF UpServers, Up
  <2>4. ~closed => PoolTellsAll' /\ RoomForStart'
    BY <1>3, <1>9, <2>3, FewerServers DEF OpenCodeInv, PoolTellsAll
  <2> QED
    BY <1>1, <1>7, <2>1, <2>4 DEF OpenCodeInv
<1> QED
  BY <1>8, <1>9 DEF ServerReady

LEMMA ServerEnds ==
  ASSUME OpenCodeInv, NEW i \in Calls, ServerDies(i), UNCHANGED key
  PROVE  OpenCodeInv'
<1>1. /\ server' = [server EXCEPT ![i] = "dead"]
      /\ server[i] # "absent"
      /\ UNCHANGED <<task, uses, pool, closed>>
  BY DEF ServerDies
<1>2. /\ server' \in [Calls -> {"absent", "starting", "up", "dead"}]
      /\ \A d \in Calls : d # i => server'[d] = server[d]
      /\ server'[i] = "dead"
  BY <1>1 DEF OpenCodeInv, OpenCodeTypes
<1>3. OpenCodeTypes' /\ OneStarts'
  BY <1>1, <1>2 DEF OpenCodeInv, OpenCodeTypes, OneStarts, StartingCalls
<1>4. StartingCalls' = StartingCalls /\ UpServers' \subseteq UpServers
  BY <1>1, <1>2 DEF StartingCalls, UpServers, Up
<1>5. ~closed => PoolTellsAll' /\ RoomForStart'
  BY <1>1, <1>4, FewerServers DEF OpenCodeInv, PoolTellsAll
<1> QED
  BY <1>1, <1>3, <1>5 DEF OpenCodeInv

LEMMA ClosingKeeps ==
  ASSUME OpenCodeInv, CloseAll, UNCHANGED key
  PROVE  OpenCodeInv'
<1>1. /\ closed' /\ pool' = {} /\ server' = Dropped({}, uses) /\ UNCHANGED <<task, uses>>
      /\ closed' \in BOOLEAN
  BY DEF CloseAll
<1>2. /\ server' \in [Calls -> {"absent", "starting", "up", "dead"}]
      /\ \A i \in Calls : /\ server'[i] = "starting" => server[i] = "starting"
                          /\ server[i] = "absent" => server'[i] = "absent"
  BY <1>1, DroppedServers
<1> QED
  BY <1>1, <1>2 DEF OpenCodeInv, OpenCodeTypes, OneStarts, StartingCalls

LEMMA OpenCodeStep ==
  ASSUME OpenCodeInv, OpenCodeNext
  PROVE  OpenCodeInv'
<1>1. UNCHANGED key
  BY DEF OpenCodeNext
<1>2. ASSUME NEW c \in Calls, BeginRunning(c) PROVE OpenCodeInv'
  <2>1. PICK s \in {"expected", "new"} :
          task' = [task EXCEPT ![c] = [at |-> "run", session |-> s]]
    BY <1>2 DEF BeginRunning
  <2>2. task[c].at = "serve" /\ UNCHANGED <<server, uses, pool, closed>>
    BY <1>2 DEF BeginRunning
  <2>3. uses' \in [Calls -> SUBSET Calls]
    BY <2>2 DEF OpenCodeInv, OpenCodeTypes
  <2> QED
    BY <1>1, <2>1, <2>2, <2>3, ServedMoves
<1>3. ASSUME NEW c \in Calls, NEW there \in {"completed", "blocked", "failed"},
             task[c].at = "run", Finish(c, there)
      PROVE  OpenCodeInv'
  <2>1. /\ task' = [task EXCEPT ![c] = [at |-> there, session |-> "none"]]
        /\ server' = Dropped(pool, uses') /\ UNCHANGED <<pool, closed>>
        /\ uses' = [uses EXCEPT ![c] = {}]
    BY <1>3 DEF Finish
  <2>2. uses' \in [Calls -> SUBSET Calls]
    BY <2>1 DEF OpenCodeInv, OpenCodeTypes
  <2> QED
    BY <1>1, <1>3, <2>1, <2>2, ServedMoves
<1>4. ASSUME NEW c \in Calls, OtherSession(c) \/ EndRunning(c) PROVE OpenCodeInv'
  <2>1. \A v \in Verdicts : v \in {"completed", "blocked", "failed"}
    BY DEF Verdicts
  <2>2. task[c].at = "run" /\ \E v \in {"completed", "blocked", "failed"} : Finish(c, v)
    BY <1>4, <2>1 DEF OtherSession, EndRunning
  <2> QED
    BY <1>3, <2>2
<1> QED
  BY <1>1, <1>2, <1>4, LookupsKeep, ServerReadyKeeps, ServerEnds, ClosingKeeps DEF OpenCodeNext

LEMMA SharingFollows == OpenCodeInv => ServersShared
BY DEF OpenCodeInv, PoolTellsAll, ServersShared, UpServers

(* Servers are shared and limited for any number of runs, keys and places  *)
(* in the pool.                                                            *)
THEOREM ServersAreShared == OpenCodeSpec => []ServersShared
<1>1. OpenCodeInv /\ [OpenCodeNext]_openCodeVars => OpenCodeInv'
  <2>1. ASSUME OpenCodeInv, UNCHANGED openCodeVars PROVE OpenCodeInv'
    BY <2>1 DEF openCodeVars, OpenCodeInv, OpenCodeTypes, OneStarts, PoolTellsAll, RoomForStart,
                UpServers, StartingCalls, Up
  <2> QED
    BY <2>1, OpenCodeStep
<1> QED
  BY <1>1, OpenCodeInitially, SharingFollows, PTL DEF OpenCodeSpec

-----------------------------------------------------------------------------
(* MCP connections *)

Started == {i \in McpCalls : connection[i] \in {"up", "failing"}}

CallRecords == [key : McpKeys, at : {"look", "lock", "start", "use", "valid", "invalid", "done"},
                lock : McpCalls \cup {NoCall}, via : McpCalls \cup {NoCall}]

(* What the table and the calls refer to was started by a call.            *)
McpInv ==
  /\ mcp \in [McpCalls -> CallRecords]
  /\ connection \in [McpCalls -> {"none", "up", "failing"}]
  /\ sessions \in [McpKeys -> McpCalls \cup {NoCall}]
  /\ initializations \in [McpKeys -> McpCalls \cup {NoCall}]
  /\ \A c \in McpCalls : mcp[c].at \in {"use", "valid", "invalid"} => mcp[c].via \in Started
  /\ \A k \in McpKeys : sessions[k] \in Started \cup {NoCall}

LEMMA McpInitially == McpInit => McpInv
BY DEF McpInit, McpInv, CallRecords

(* What is taken out of a table of calls.                                  *)
LEMMA WithoutKeys ==
  ASSUME NEW table \in [McpKeys -> McpCalls \cup {NoCall}], NEW out
  PROVE  /\ Without(table, out) \in [McpKeys -> McpCalls \cup {NoCall}]
         /\ \A k \in McpKeys :
              Without(table, out)[k] = IF k \in out THEN NoCall ELSE table[k]
BY DEF Without

(* A step of one call: the connection it uses lives, and the table holds   *)
(* what it held or connections that live.                                  *)
LEMMA CallStep ==
  ASSUME McpInv, NEW c \in McpCalls, NEW r \in CallRecords,
         mcp' = [mcp EXCEPT ![c] = r],
         r.at \in {"use", "valid", "invalid"} => r.via \in Started',
         sessions' \in [McpKeys -> McpCalls \cup {NoCall}],
         initializations' \in [McpKeys -> McpCalls \cup {NoCall}],
         connection' \in [McpCalls -> {"none", "up", "failing"}],
         Started \subseteq Started',
         \A k \in McpKeys : sessions'[k] \in {NoCall, sessions[k]} \cup Started'
  PROVE  McpInv'
<1>1. /\ mcp' \in [McpCalls -> CallRecords]
      /\ \A d \in McpCalls : d # c => mcp'[d] = mcp[d]
      /\ mcp'[c] = r
  BY DEF McpInv
<1>2. ASSUME NEW d \in McpCalls, mcp'[d].at \in {"use", "valid", "invalid"}
      PROVE  mcp'[d].via \in Started'
  <2>1. CASE d = c
    BY <1>1, <1>2, <2>1
  <2>2. CASE d # c
    BY <1>1, <1>2, <2>2 DEF McpInv
  <2> QED
    BY <2>1, <2>2
<1>3. \A k \in McpKeys : sessions'[k] \in Started' \cup {NoCall}
  BY DEF McpInv
<1> QED
  BY <1>1, <1>2, <1>3 DEF McpInv

LEMMA LookUpKeeps ==
  ASSUME McpInv, NEW c \in McpCalls, LookUp(c)
  PROVE  McpInv'
<1> DEFINE k == mcp[c].key
           Kinds == McpCalls \cup {NoCall}
<1>1. /\ mcp[c] \in CallRecords /\ sessions \in [McpKeys -> Kinds]
      /\ initializations \in [McpKeys -> Kinds]
  BY DEF McpInv
<1>2. PICK expired \in SUBSET IdleEntries : 
        /\ sessions' = Without(sessions, expired)
        /\ IF sessions'[k] # NoCall
           THEN UseConnection(c, sessions'[k]) /\ UNCHANGED initializations
           ELSE LET lock == IF initializations[k] = NoCall THEN c ELSE initializations[k] IN
                /\ initializations' = [initializations EXCEPT ![k] = lock]
                /\ mcp' = [mcp EXCEPT ![c].at = "lock", ![c].lock = lock]
  BY DEF LookUp
<1>3. /\ sessions' \in [McpKeys -> Kinds] /\ UNCHANGED connection /\ Started' = Started
      /\ connection' \in [McpCalls -> {"none", "up", "failing"}]
      /\ \A i \in McpKeys : sessions'[i] \in {NoCall, sessions[i]}
      /\ \A i \in McpKeys : sessions'[i] \in Started' \cup {NoCall}
  BY <1>1, <1>2, WithoutKeys DEF LookUp, McpInv, Started
<1>4. k \in McpKeys
  BY <1>1 DEF CallRecords
<1>5. CASE sessions'[k] # NoCall
  <2> DEFINE r == [mcp[c] EXCEPT !.at = "use", !.via = sessions'[k]]
  <2>1. mcp' = [mcp EXCEPT ![c] = r] /\ UNCHANGED initializations
    BY <1>2, <1>5 DEF UseConnection, McpInv
  <2>2. r \in CallRecords /\ r.via \in Started'
    BY <1>1, <1>3, <1>4, <1>5 DEF CallRecords
  <2> HIDE DEF r
  <2> QED
    BY <1>1, <1>3, <2>1, <2>2, CallStep
<1>6. CASE sessions'[k] = NoCall
  <2> DEFINE lock == IF initializations[k] = NoCall THEN c ELSE initializations[k]
             r == [mcp[c] EXCEPT !.at = "lock", !.lock = lock]
  <2>1. /\ mcp' = [mcp EXCEPT ![c] = r]
        /\ initializations' = [initializations EXCEPT ![k] = lock]
    BY <1>2, <1>6 DEF McpInv
  <2>2. lock \in Kinds
    BY <1>1, <1>4
  <2> HIDE DEF lock
  <2>3. r \in CallRecords /\ r.at = "lock" /\ initializations' \in [McpKeys -> Kinds]
    BY <1>1, <2>1, <2>2 DEF CallRecords
  <2> HIDE DEF r
  <2> QED
    BY <1>3, <2>1, <2>3, CallStep
<1> QED
  BY <1>5, <1>6

LEMMA TakeLockKeeps ==
  ASSUME McpInv, NEW c \in McpCalls, TakeLock(c)
  PROVE  McpInv'
<1> DEFINE k == mcp[c].key
           Kinds == McpCalls \cup {NoCall}
<1>1. /\ mcp[c] \in CallRecords /\ initializations \in [McpKeys -> Kinds] /\ k \in McpKeys
      /\ sessions \in [McpKeys -> Kinds]
      /\ connection \in [McpCalls -> {"none", "up", "failing"}]
      /\ \A i \in McpKeys : sessions[i] \in Started \cup {NoCall}
  BY DEF McpInv, CallRecords
<1>2. /\ initializations' = [initializations EXCEPT ![k] = NoCall]
      /\ UNCHANGED <<connection, sessions>> /\ Started' = Started
      /\ IF sessions[k] # NoCall THEN UseConnection(c, sessions[k])
         ELSE mcp' = [mcp EXCEPT ![c].at = "start"]
  BY DEF TakeLock, Started
<1>3. initializations' \in [McpKeys -> Kinds]
  BY <1>1, <1>2
<1>4. CASE sessions[k] # NoCall
  <2> DEFINE r == [mcp[c] EXCEPT !.at = "use", !.via = sessions[k]]
  <2>1. mcp' = [mcp EXCEPT ![c] = r]
    BY <1>2, <1>4 DEF UseConnection, McpInv
  <2>2. r \in CallRecords /\ r.via \in Started
    BY <1>1, <1>4 DEF CallRecords
  <2> HIDE DEF r
  <2> QED
    BY <1>1, <1>2, <1>3, <2>1, <2>2, CallStep
<1>5. CASE sessions[k] = NoCall
  <2> DEFINE r == [mcp[c] EXCEPT !.at = "start"]
  <2>1. mcp' = [mcp EXCEPT ![c] = r]
    BY <1>2, <1>5 DEF McpInv
  <2>2. r \in CallRecords /\ r.at = "start"
    BY <1>1 DEF CallRecords
  <2> HIDE DEF r
  <2> QED
    BY <1>1, <1>2, <1>3, <2>1, <2>2, CallStep
<1> QED
  BY <1>4, <1>5

LEMMA KeepConnectionKeeps ==
  ASSUME McpInv, NEW c \in McpCalls, KeepConnection(c)
  PROVE  McpInv'
<1> DEFINE k == mcp[c].key
           Kinds == McpCalls \cup {NoCall}
<1>1. /\ mcp[c] \in CallRecords /\ initializations \in [McpKeys -> Kinds] /\ k \in McpKeys
      /\ sessions \in [McpKeys -> Kinds]
      /\ connection \in [McpCalls -> {"none", "up", "failing"}]
      /\ \A i \in McpKeys : sessions[i] \in Started \cup {NoCall}
  BY DEF McpInv, CallRecords
<1>2. PICK left \in AfterEviction :
        IF Cardinality({i \in McpKeys : left[i] # NoCall}) >= McpLimit
        THEN /\ mcp' = [mcp EXCEPT ![c].at = "done"]
             /\ sessions' = left
             /\ UNCHANGED connection
        ELSE /\ sessions' = [left EXCEPT ![mcp[c].key] = c]
             /\ connection' = [connection EXCEPT ![c] = "up"]
             /\ UseConnection(c, c)
  BY DEF KeepConnection
<1>3. PICK out \in SUBSET IdleEntries : left = Without(sessions, out)
  BY DEF AfterEviction
<1>4. /\ left \in [McpKeys -> Kinds] /\ UNCHANGED initializations
      /\ \A i \in McpKeys : left[i] \in {NoCall, sessions[i]}
  BY <1>1, <1>3, WithoutKeys DEF KeepConnection
<1>5. CASE Cardinality({i \in McpKeys : left[i] # NoCall}) >= McpLimit
  <2> DEFINE r == [mcp[c] EXCEPT !.at = "done"]
  <2>1. mcp' = [mcp EXCEPT ![c] = r] /\ sessions' = left /\ UNCHANGED connection
    BY <1>2, <1>5 DEF McpInv
  <2>2. r \in CallRecords /\ r.at = "done" /\ Started' = Started
    BY <1>1, <2>1 DEF CallRecords, Started
  <2> HIDE DEF r
  <2> QED
    BY <1>1, <1>4, <2>1, <2>2, CallStep
<1>6. CASE ~(Cardinality({i \in McpKeys : left[i] # NoCall}) >= McpLimit)
  <2> DEFINE r == [mcp[c] EXCEPT !.at = "use", !.via = c]
  <2>1. /\ mcp' = [mcp EXCEPT ![c] = r] /\ sessions' = [left EXCEPT ![k] = c]
        /\ connection' = [connection EXCEPT ![c] = "up"]
    BY <1>2, <1>6 DEF McpInv, UseConnection
  <2>2. r \in CallRecords /\ r.via = c
    BY <1>1 DEF CallRecords
  <2>3. /\ connection' \in [McpCalls -> {"none", "up", "failing"}]
        /\ c \in Started' /\ Started \subseteq Started'
    BY <1>1, <2>1 DEF Started
  <2>4. /\ sessions' \in [McpKeys -> Kinds]
        /\ \A i \in McpKeys : sessions'[i] \in {NoCall, sessions[i]} \cup Started'
    BY <1>4, <2>1, <2>3
  <2> HIDE DEF r
  <2> QED
    BY <1>1, <1>4, <2>1, <2>2, <2>3, <2>4, CallStep
<1> QED
  BY <1>5, <1>6

LEMMA SettleKeeps ==
  ASSUME McpInv, NEW c \in McpCalls, Settle(c)
  PROVE  McpInv'
<1> DEFINE r == [mcp[c] EXCEPT !.at = "done", !.via = NoCall]
           Kinds == McpCalls \cup {NoCall}
<1>1. /\ mcp' = [mcp EXCEPT ![c] = r] /\ UNCHANGED <<connection, initializations>>
      /\ Started' = Started
      /\ sessions' = sessions \/ sessions' = Without(sessions, {mcp[c].key})
  BY DEF Settle, Started, McpInv
<1>2. /\ sessions' \in [McpKeys -> Kinds] /\ \A i \in McpKeys : sessions'[i] \in {NoCall, sessions[i]}
      /\ initializations' \in [McpKeys -> Kinds]
      /\ connection' \in [McpCalls -> {"none", "up", "failing"}]
  BY <1>1, WithoutKeys DEF McpInv
<1>3. r \in CallRecords /\ r.at = "done"
  BY DEF McpInv, CallRecords
<1> HIDE DEF r
<1> QED
  BY <1>1, <1>2, <1>3, CallStep

LEMMA McpStep ==
  ASSUME McpInv, McpNext
  PROVE  McpInv'
<1> DEFINE Kinds == McpCalls \cup {NoCall}
<1>1. /\ mcp \in [McpCalls -> CallRecords] /\ sessions \in [McpKeys -> Kinds]
      /\ initializations \in [McpKeys -> Kinds]
      /\ connection \in [McpCalls -> {"none", "up", "failing"}]
      /\ UNCHANGED connection => Started' = Started
  BY DEF McpInv, Started
<1>2. ASSUME NEW c \in McpCalls, NEW at \in {"done", "valid", "invalid"},
             mcp' = [mcp EXCEPT ![c].at = at], at # "done" => mcp[c].at = "use",
             UNCHANGED <<connection, sessions, initializations>>
      PROVE  McpInv'
  <2> DEFINE r == [mcp[c] EXCEPT !.at = at]
  <2>1. mcp' = [mcp EXCEPT ![c] = r]
    BY <1>1, <1>2
  <2>2. r \in CallRecords /\ r.at = at /\ r.via = mcp[c].via
    BY <1>1 DEF CallRecords
  <2>3. at # "done" => r.via \in Started
    BY <1>2, <2>2 DEF McpInv
  <2> HIDE DEF r
  <2> QED
    BY <1>1, <1>2, <2>1, <2>2, <2>3, CallStep
<1>3. ASSUME NEW c \in McpCalls, StartFails(c) \/ Operate(c) PROVE McpInv'
  BY <1>2, <1>3 DEF StartFails, Operate
<1>4. ASSUME NEW i \in McpCalls, ConnectionFails(i) PROVE McpInv'
  <2>1. /\ connection' \in [McpCalls -> {"none", "up", "failing"}]
        /\ Started' = Started
    BY <1>1, <1>4 DEF ConnectionFails, Started
  <2> QED
    BY <1>4, <2>1 DEF ConnectionFails, McpInv
<1>5. ASSUME NEW keys, CloseSessions(keys) PROVE McpInv'
  <2>1. /\ sessions' \in [McpKeys -> Kinds] /\ initializations' \in [McpKeys -> Kinds]
        /\ \A k \in McpKeys : sessions'[k] \in {NoCall, sessions[k]}
        /\ Started' = Started
    BY <1>1, <1>5, WithoutKeys DEF CloseSessions
  <2> QED
    BY <1>5, <2>1 DEF CloseSessions, McpInv
<1> QED
  BY <1>3, <1>4, <1>5, LookUpKeeps, TakeLockKeeps, KeepConnectionKeeps, SettleKeeps DEF McpNext

(* What a step may take out of the table.                                  *)
LEMMA EntriesLeave ==
  ASSUME McpInv, McpNext, NEW k \in Kept
  PROVE  \/ sessions'[k] # NoCall
         \/ k \in IdleEntries
         \/ FoundFailed(sessions[k])
         \/ \E keys \in SUBSET McpKeys : k \in keys /\ CloseSessions(keys)
<1>1. /\ k \in McpKeys /\ sessions[k] # NoCall /\ sessions \in [McpKeys -> McpCalls \cup {NoCall}]
  BY DEF Kept, McpInv
<1>2. ASSUME NEW c \in McpCalls, LookUp(c) PROVE sessions'[k] # NoCall \/ k \in IdleEntries
  <2>1. PICK expired \in SUBSET IdleEntries : sessions' = Without(sessions, expired)
    BY <1>2 DEF LookUp
  <2> QED
    BY <1>1, <2>1, WithoutKeys
<1>3. ASSUME NEW c \in McpCalls, KeepConnection(c) PROVE sessions'[k] # NoCall \/ k \in IdleEntries
  <2>1. PICK left \in AfterEviction : sessions' = left \/ sessions' = [left EXCEPT ![mcp[c].key] = c]
    BY <1>3 DEF KeepConnection
  <2>2. PICK out \in SUBSET IdleEntries : left = Without(sessions, out)
    BY DEF AfterEviction
  <2>3. left \in [McpKeys -> McpCalls \cup {NoCall}] /\ (left[k] = NoCall => k \in IdleEntries)
    BY <1>1, <2>2, WithoutKeys
  <2>4. sessions'[k] \in {left[k], c}
    BY <1>1, <2>1, <2>3
  <2> QED
    BY <2>3, <2>4, McpAssumption
<1>4. ASSUME NEW c \in McpCalls, Settle(c) PROVE sessions'[k] # NoCall \/ FoundFailed(sessions[k])
  <2>1. /\ mcp[c].at \in {"valid", "invalid"} /\ mcp[c].via \in Started
    BY <1>4 DEF Settle, McpInv
  <2>2. PICK lives \in MayBeAlive(mcp[c].via) :
          sessions' = IF sessions[mcp[c].key] # mcp[c].via \/ (lives /\ mcp[c].at = "valid")
                      THEN sessions ELSE Without(sessions, {mcp[c].key})
    BY <1>4 DEF Settle
  <2>3. CASE sessions[mcp[c].key] # mcp[c].via \/ (lives /\ mcp[c].at = "valid")
    BY <1>1, <2>2, <2>3
  <2>4. CASE /\ sessions[mcp[c].key] = mcp[c].via /\ ~(lives /\ mcp[c].at = "valid")
             /\ k # mcp[c].key
    BY <1>1, <2>2, <2>4, WithoutKeys
  <2>5. CASE /\ sessions[mcp[c].key] = mcp[c].via /\ ~(lives /\ mcp[c].at = "valid")
             /\ k = mcp[c].key
    <3>1. mcp[c].at = "invalid" \/ connection[mcp[c].via] = "failing"
      BY <2>1, <2>5 DEF MayBeAlive, Started
    <3> QED
      BY <2>5, <3>1 DEF FoundFailed, CallersOf
  <2> QED
    BY <2>3, <2>4, <2>5
<1>5. ASSUME NEW keys \in {{i} : i \in McpKeys} \cup {McpKeys}, CloseSessions(keys)
      PROVE  sessions'[k] # NoCall \/ \E some \in SUBSET McpKeys : k \in some /\ CloseSessions(some)
  <2>1. keys \in SUBSET McpKeys
    OBVIOUS
  <2>2. k \notin keys => sessions'[k] = sessions[k]
    BY <1>1, <1>5, WithoutKeys DEF CloseSessions
  <2> QED
    BY <1>1, <1>5, <2>1, <2>2
<1>6. ASSUME NEW c \in McpCalls,
             TakeLock(c) \/ StartFails(c) \/ Operate(c) \/ ConnectionFails(c)
      PROVE  sessions'[k] # NoCall
  BY <1>1, <1>6 DEF TakeLock, StartFails, Operate, ConnectionFails
<1> QED
  BY <1>2, <1>3, <1>4, <1>5, <1>6 DEF McpNext

(* Connections are kept, for any number of calls, keys and places in the   *)
(* table: an entry is never taken from under the callers of a connection   *)
(* that works.                                                             *)
THEOREM ConnectionsStay == McpSpec => ConnectionsAreKept
<1>1. McpInv /\ [McpNext]_mcpVars => McpInv'
  <2>1. ASSUME McpInv, UNCHANGED mcpVars PROVE McpInv'
    BY <2>1 DEF mcpVars, McpInv, Started
  <2> QED
    BY <2>1, McpStep
<1>2. McpInv /\ [McpNext]_mcpVars =>
        [\A k \in Kept :
           \/ sessions'[k] # NoCall
           \/ k \in IdleEntries
           \/ FoundFailed(sessions[k])
           \/ \E keys \in SUBSET McpKeys : k \in keys /\ CloseSessions(keys)]_mcpVars
  BY EntriesLeave
<1> QED
  BY <1>1, <1>2, McpInitially, PTL DEF McpSpec, ConnectionsAreKept

-----------------------------------------------------------------------------
(* The child process and its reader *)

ProcessTypes ==
  /\ mode \in {"jsonl", "monitored"} /\ reader \in {"reading", "ended", "failed"}
  /\ place \in {"check", "drain", "poll", "wait", "exited"} \cup Stops
  /\ outcome \in {"none", "unreadable", "output"} \cup Stops
  /\ alive \subseteq {"child", "helper"} /\ group \subseteq {"child", "helper"}
  /\ piped \subseteq {"child", "helper"}
  /\ written \in Nat /\ truncated \in BOOLEAN
  /\ output \in Seq(Nat) /\ channel \in Seq(Nat) /\ delivered \in Seq(Nat)

(* Only a process that runs holds the output.  The group is killed when    *)
(* the call is stopped or, in the first function, when the child is seen   *)
(* to have exited.  Only the first function uses the channel.              *)
GroupEnds ==
  /\ piped \subseteq alive /\ "child" \in group
  /\ place = "exited" => "child" \notin alive /\ (mode = "jsonl" => alive \cap group = {})
  /\ place \in Stops \/ outcome \in Stops => alive \cap group = {}
  /\ outcome = "output" => place = "exited"
  /\ mode = "monitored" => channel = <<>>

(* The lines kept, sent and still in the pipe are those written, in order, *)
(* less those dropped over the limit, which are the last.                  *)
LinesInOrder ==
  /\ Len(delivered) <= OutputLimit /\ Len(output) <= written
  /\ \A i \in 1..Len(delivered) : delivered[i] = i
  /\ \A i \in 1..Len(channel) : channel[i] = Len(delivered) + i
  /\ \A i \in 1..Len(output) : output[i] = (written - Len(output)) + i
  /\ ~truncated => Len(delivered) + Len(channel) + Len(output) = written
  /\ truncated => /\ mode = "monitored" /\ Len(delivered) = OutputLimit
                  /\ OutputLimit + Len(output) < written
  /\ reader = "ended" => output = <<>> /\ piped = {}
  /\ outcome = "output" => reader = "ended" /\ channel = <<>>

(* A reader that failed keeps no order; no output is returned of it.       *)
ProcessInv ==
  /\ ProcessTypes
  /\ GroupEnds
  /\ reader # "failed" => LinesInOrder
  /\ outcome = "output" => reader = "ended"

LEMMA LineAppended ==
  ASSUME NEW s \in Seq(Nat), NEW e \in Nat
  PROVE  /\ Append(s, e) \in Seq(Nat) /\ Len(Append(s, e)) = Len(s) + 1 /\ Len(s) \in Nat
         /\ \A i \in 1..(Len(s) + 1) : Append(s, e)[i] = IF i <= Len(s) THEN s[i] ELSE e
OBVIOUS

LEMMA LineTaken ==
  ASSUME NEW s \in Seq(Nat), s # <<>>
  PROVE  /\ Tail(s) \in Seq(Nat) /\ Len(s) \in Nat /\ Len(s) > 0 /\ Len(Tail(s)) = Len(s) - 1
         /\ Head(s) = s[1] /\ Head(s) \in Nat
         /\ \A i \in 1..(Len(s) - 1) : Tail(s)[i] = s[i + 1]
OBVIOUS

LEMMA ProcessInitially == ProcessInit => ProcessInv
<1> SUFFICES ASSUME ProcessInit PROVE ProcessInv
  OBVIOUS
<1>0. ProcessTypes
  <2>1. mode \in {"jsonl", "monitored"}
    BY ProcessAssumption DEF ProcessInit
  <2>2. output \in Seq(Nat) /\ channel \in Seq(Nat) /\ delivered \in Seq(Nat) /\ written \in Nat
    BY DEF ProcessInit
  <2> QED
    BY <2>1, <2>2 DEF ProcessInit, ProcessTypes
<1>1. GroupEnds
  BY DEF ProcessInit, GroupEnds, Stops
<1>2. LinesInOrder
  <2>1. /\ output = <<>> /\ channel = <<>> /\ delivered = <<>> /\ written = 0 /\ ~truncated
        /\ reader = "reading" /\ outcome = "none"
    BY DEF ProcessInit
  <2>2. Len(output) = 0 /\ Len(channel) = 0 /\ Len(delivered) = 0 /\ OutputLimit \in Nat
    BY <2>1, ProcessAssumption
  <2> QED
    BY <2>1, <2>2 DEF LinesInOrder
<1> QED
  BY <1>0, <1>1, <1>2 DEF ProcessInit, ProcessInv

LEMMA WriteKeeps ==
  ASSUME ProcessInv, WriteLine
  PROVE  ProcessInv'
<1>1. /\ reader = "reading" /\ piped # {} /\ written \in Nat /\ written' = written + 1
      /\ UNCHANGED <<mode, alive, group, piped, reader, channel, delivered, truncated,
                     place, outcome>>
      /\ output' = Append(output, written + 1)
      /\ output \in Seq(Nat) /\ channel \in Seq(Nat) /\ delivered \in Seq(Nat)
      /\ LinesInOrder /\ OutputLimit \in Nat
  BY ProcessAssumption
     DEF WriteLine, SupervisorKeeps, groupVars, ProcessInv, ProcessTypes
<1>2. /\ output' \in Seq(Nat) /\ Len(output') = Len(output) + 1 /\ Len(output) \in Nat
      /\ \A i \in 1..(Len(output) + 1) :
           output'[i] = IF i <= Len(output) THEN output[i] ELSE written + 1
  BY <1>1, LineAppended
<1>3. ProcessTypes' /\ GroupEnds'
  BY <1>1, <1>2 DEF ProcessInv, ProcessTypes, GroupEnds
<1>4. \A i \in 1..Len(output') : output'[i] = (written' - Len(output')) + i
  <2>1. ASSUME NEW i \in 1..Len(output')
        PROVE  output'[i] = (written' - Len(output')) + i
    <3>1. CASE i <= Len(output)
      BY <1>1, <1>2, <3>1 DEF LinesInOrder
    <3>2. CASE i = Len(output) + 1
      BY <1>1, <1>2, <3>2
    <3> QED
      BY <1>2, <3>1, <3>2
  <2> QED
    BY <2>1
<1>5. /\ Len(delivered) \in Nat /\ Len(channel) \in Nat
      /\ Len(output') <= written'
      /\ ~truncated' => Len(delivered') + Len(channel') + Len(output') = written'
      /\ truncated' => /\ mode' = "monitored" /\ Len(delivered') = OutputLimit
                       /\ OutputLimit + Len(output') < written'
  <2>1. Len(delivered) \in Nat /\ Len(channel) \in Nat
    BY <1>1
  <2>2. /\ Len(output) <= written
        /\ ~truncated => Len(delivered) + Len(channel) + Len(output) = written
        /\ truncated => /\ mode = "monitored" /\ Len(delivered) = OutputLimit
                        /\ OutputLimit + Len(output) < written
    BY <1>1 DEF LinesInOrder
  <2>3. Len(output') = Len(output) + 1 /\ Len(output) \in Nat /\ written' = written + 1
    BY <1>1, <1>2
  <2>4. UNCHANGED <<mode, channel, delivered, truncated>> /\ written \in Nat /\ OutputLimit \in Nat
    BY <1>1
  <2>5. ~truncated => Len(delivered) + Len(channel) + Len(output') = written'
    BY <2>1, <2>2, <2>3, <2>4
  <2> QED
    BY <2>1, <2>2, <2>3, <2>4, <2>5
<1>6. LinesInOrder'
  BY <1>1, <1>4, <1>5 DEF LinesInOrder
<1> QED
  BY <1>1, <1>3, <1>6 DEF ProcessInv

LEMMA ReadLineKeeps ==
  ASSUME ProcessInv, ReadLine
  PROVE  ProcessInv'
<1> DEFINE line == Head(output)
<1>1. /\ reader = "reading" /\ output # <<>> /\ output' = Tail(output)
      /\ UNCHANGED <<mode, alive, group, piped, written, reader, place, outcome>>
      /\ output \in Seq(Nat) /\ channel \in Seq(Nat) /\ delivered \in Seq(Nat)
      /\ written \in Nat /\ truncated \in BOOLEAN /\ LinesInOrder
      /\ outcome # "output" /\ OutputLimit \in Nat
  BY ProcessAssumption
     DEF ReadLine, SupervisorKeeps, groupVars, ProcessInv, ProcessTypes
<1>2. /\ output' \in Seq(Nat) /\ Len(output) \in Nat /\ Len(output) > 0
      /\ Len(output') = Len(output) - 1
      /\ line = output[1] /\ line \in Nat
      /\ \A i \in 1..(Len(output) - 1) : output'[i] = output[i + 1]
  BY <1>1, LineTaken
<1>3. Len(delivered) \in Nat /\ Len(channel) \in Nat
  BY <1>1
<1>4. line = (written - Len(output)) + 1
  BY <1>1, <1>2 DEF LinesInOrder
<1>5. ~truncated => line = Len(delivered) + Len(channel) + 1
  BY <1>1, <1>2, <1>3, <1>4 DEF LinesInOrder
<1> HIDE DEF line
<1>6. /\ Len(output') <= written
      /\ \A i \in 1..Len(output') : output'[i] = (written - Len(output')) + i
  BY <1>1, <1>2 DEF LinesInOrder
<1>7. CASE mode = "jsonl" /\ channel' = Append(channel, line) /\ UNCHANGED <<delivered, truncated>>
  <2>1. /\ channel' \in Seq(Nat) /\ Len(channel') = Len(channel) + 1
        /\ \A i \in 1..(Len(channel) + 1) :
             channel'[i] = IF i <= Len(channel) THEN channel[i] ELSE line
    BY <1>1, <1>2, <1>7, LineAppended
  <2>2. ~truncated
    BY <1>1, <1>7 DEF LinesInOrder
  <2>3. ProcessTypes' /\ GroupEnds'
    BY <1>1, <1>2, <1>7, <2>1 DEF ProcessInv, ProcessTypes, GroupEnds
  <2>4. \A i \in 1..Len(channel') : channel'[i] = Len(delivered') + i
    <3>1. ASSUME NEW i \in 1..Len(channel') PROVE channel'[i] = Len(delivered') + i
      <4>1. CASE i <= Len(channel)
        BY <1>1, <1>3, <1>7, <2>1, <4>1 DEF LinesInOrder
      <4>2. CASE i = Len(channel) + 1
        BY <1>3, <1>5, <1>7, <2>1, <2>2, <4>2
      <4> QED
        BY <1>3, <2>1, <4>1, <4>2
    <3> QED
      BY <3>1
  <2>5. Len(delivered') + Len(channel') + Len(output') = written'
    BY <1>1, <1>2, <1>3, <1>7, <2>1, <2>2 DEF LinesInOrder
  <2>6. LinesInOrder'
    BY <1>1, <1>6, <1>7, <2>2, <2>4, <2>5 DEF LinesInOrder
  <2> QED
    BY <1>1, <2>3, <2>6 DEF ProcessInv
<1>8. CASE /\ mode = "monitored" /\ Len(delivered) < OutputLimit
           /\ delivered' = Append(delivered, line) /\ UNCHANGED <<channel, truncated>>
  <2>1. /\ delivered' \in Seq(Nat) /\ Len(delivered') = Len(delivered) + 1
        /\ \A i \in 1..(Len(delivered) + 1) :
             delivered'[i] = IF i <= Len(delivered) THEN delivered[i] ELSE line
    BY <1>1, <1>2, <1>8, LineAppended
  <2>2. ~truncated /\ channel = <<>> /\ Len(channel) = 0
    BY <1>1, <1>3, <1>8 DEF LinesInOrder, ProcessInv, GroupEnds
  <2>3. ProcessTypes' /\ GroupEnds'
    BY <1>1, <1>2, <1>8, <2>1 DEF ProcessInv, ProcessTypes, GroupEnds
  <2>4. \A i \in 1..Len(delivered') : delivered'[i] = i
    <3>1. ASSUME NEW i \in 1..Len(delivered') PROVE delivered'[i] = i
      <4>0. \A j \in 1..Len(delivered) : delivered[j] = j
        BY <1>1 DEF LinesInOrder
      <4>1. CASE i <= Len(delivered)
        BY <1>3, <2>1, <4>0, <4>1
      <4>2. CASE i = Len(delivered) + 1
        BY <1>3, <1>5, <2>1, <2>2, <4>2
      <4> QED
        BY <1>3, <2>1, <4>1, <4>2
    <3> QED
      BY <3>1
  <2>5. /\ Len(delivered') + Len(channel') + Len(output') = written'
        /\ Len(delivered') <= OutputLimit
    <3>1. Len(delivered) + Len(channel) + Len(output) = written
      BY <1>1, <2>2 DEF LinesInOrder
    <3>2. Len(channel') = 0 /\ written' = written /\ Len(delivered) < OutputLimit /\ OutputLimit \in Nat
      BY <1>1, <1>8, <2>2
    <3> QED
      BY <1>2, <1>3, <2>1, <2>2, <3>1, <3>2
  <2>6. LinesInOrder'
    BY <1>1, <1>6, <1>8, <2>2, <2>4, <2>5 DEF LinesInOrder
  <2> QED
    BY <1>1, <2>3, <2>6 DEF ProcessInv
<1>9. CASE /\ mode = "monitored" /\ Len(delivered) >= OutputLimit
           /\ truncated' = TRUE /\ UNCHANGED <<channel, delivered>>
  <2>1. channel = <<>> /\ Len(channel) = 0
    BY <1>3, <1>9 DEF ProcessInv, GroupEnds
  <2>2. ProcessTypes' /\ GroupEnds'
    BY <1>1, <1>2, <1>9 DEF ProcessInv, ProcessTypes, GroupEnds
  <2>3. Len(delivered) = OutputLimit /\ OutputLimit + Len(output') < written
    BY <1>1, <1>2, <1>3, <1>9, <2>1 DEF LinesInOrder
  <2>4. LinesInOrder'
    BY <1>1, <1>6, <1>9, <2>3 DEF LinesInOrder
  <2> QED
    BY <1>1, <2>2, <2>4 DEF ProcessInv
<1> QED
  BY <1>7, <1>8, <1>9 DEF ReadLine, line

LEMMA ReadFailsKeeps ==
  ASSUME ProcessInv, ReadFails
  PROVE  ProcessInv'
<1>1. /\ channel \in Seq(Nat) /\ reader' = "failed" /\ reader = "reading"
      /\ channel' = IF mode = "jsonl" THEN Append(channel, 0) ELSE channel
      /\ UNCHANGED <<mode, alive, group, piped, output, written, delivered, truncated,
                     place, outcome>>
  BY DEF ReadFails, SupervisorKeeps, groupVars, ProcessInv, ProcessTypes
<1>2. channel' \in Seq(Nat)
  BY <1>1, LineAppended
<1>3. ProcessTypes' /\ GroupEnds'
  BY <1>1, <1>2 DEF ProcessInv, ProcessTypes, GroupEnds
<1> QED
  BY <1>1, <1>3 DEF ProcessInv

(* A step that moves no line.                                              *)
LEMMA NoLineMoves ==
  ASSUME ProcessInv, UNCHANGED <<mode, output, written, channel, delivered, truncated>>,
         \/ reader' = reader
         \/ reader = "reading" /\ reader' = "ended" /\ output = <<>> /\ piped = {},
         outcome' \in {"none", "unreadable", "output"} \cup Stops,
         outcome' = "output" => outcome = "output" \/ (reader = "ended" /\ channel = <<>>),
         outcome = "output" => outcome' = "output",
         place' \in {"check", "drain", "poll", "wait", "exited"} \cup Stops,
         alive' \subseteq {"child", "helper"}, group' \subseteq {"child", "helper"},
         piped' \subseteq {"child", "helper"}, piped = {} => piped' = {}, GroupEnds'
  PROVE  ProcessInv'
<1>1. ProcessTypes'
  BY DEF ProcessInv, ProcessTypes
<1>2. ASSUME reader' # "failed" PROVE LinesInOrder'
  <2>1. LinesInOrder
    BY <1>2 DEF ProcessInv
  <2>2. reader' = "ended" => output' = <<>> /\ piped' = {}
    BY <2>1 DEF LinesInOrder
  <2>3. outcome' = "output" => reader' = "ended" /\ channel' = <<>>
    BY <2>1 DEF LinesInOrder
  <2> QED
    BY <2>1, <2>2, <2>3 DEF LinesInOrder
<1>3. outcome' = "output" => reader' = "ended"
  BY DEF ProcessInv
<1> QED
  BY <1>1, <1>2, <1>3 DEF ProcessInv

LEMMA MoveKeeps ==
  ASSUME ProcessInv, outcome = "none", UNCHANGED <<groupVars, lineVars>>,
         NEW p \in {"check", "drain", "poll", "wait"}, MoveTo(p)
  PROVE  ProcessInv'
<1>1. /\ UNCHANGED <<mode, alive, group, piped, output, written, reader, channel, delivered,
                     truncated, outcome>>
      /\ place' = p /\ p \notin Stops /\ p # "exited"
  BY DEF groupVars, lineVars, MoveTo, Stops
<1>2. ProcessTypes /\ GroupEnds
  BY DEF ProcessInv
<1>3. GroupEnds'
  BY <1>1, <1>2 DEF GroupEnds, Stops
<1> QED
  BY <1>1, <1>2, <1>3, NoLineMoves DEF ProcessTypes

LEMMA StopKeeps ==
  ASSUME ProcessInv, outcome = "none", NEW result \in Stops, Terminate(result)
  PROVE  ProcessInv'
<1>1. /\ UNCHANGED <<mode, group, output, written, reader, channel, delivered, truncated,
                     outcome>>
      /\ place' = result /\ alive' = alive \ group /\ piped' = piped \ group
  BY DEF Terminate, KillGroup, MoveTo, lineVars
<1>2. ProcessTypes /\ GroupEnds
  BY DEF ProcessInv
<1>3. GroupEnds'
  BY <1>1, <1>2 DEF GroupEnds, Stops
<1> QED
  BY <1>1, <1>2, <1>3, NoLineMoves DEF ProcessTypes

LEMMA ReturnKeeps ==
  ASSUME ProcessInv, outcome = "none", UNCHANGED <<groupVars, lineVars>>,
         NEW result \in {"unreadable", "output"} \cup Stops, Return(result),
         result \in Stops => alive \cap group = {},
         result = "output" => place = "exited" /\ reader = "ended" /\ channel = <<>>
  PROVE  ProcessInv'
<1>1. /\ UNCHANGED <<mode, alive, group, piped, output, written, reader, channel, delivered,
                     truncated, place>>
      /\ outcome' = result
  BY DEF groupVars, lineVars, Return
<1>2. ProcessTypes /\ GroupEnds
  BY DEF ProcessInv
<1>3. GroupEnds'
  BY <1>1, <1>2 DEF GroupEnds
<1> QED
  BY <1>1, <1>2, <1>3, NoLineMoves DEF ProcessTypes

(* The supervisor takes a line from the channel.                           *)
LEMMA ReceiveKeeps ==
  ASSUME ProcessInv, NEW next \in {"check", "drain", "exited"}, outcome = "none",
         next = "exited" <=> place = "exited", place \notin Stops, Receive(next)
  PROVE  ProcessInv'
<1>1. CASE Return("unreadable") /\ UNCHANGED <<groupVars, lineVars>>
  BY <1>1, ReturnKeeps DEF Stops
<1>2. CASE next = "exited" /\ Return("refused") /\ UNCHANGED <<groupVars, lineVars>>
  <2>1. mode = "jsonl"
    BY DEF Receive, ProcessInv, ProcessTypes, GroupEnds
  <2>2. alive \cap group = {}
    BY <1>2, <2>1 DEF ProcessInv, GroupEnds
  <2> QED
    BY <1>2, <2>2, ReturnKeeps DEF Stops
<1>3. CASE Terminate("refused")
  BY <1>3, StopKeeps DEF Stops
<1>4. CASE /\ Head(channel) # 0 /\ Len(delivered) < OutputLimit
           /\ delivered' = Append(delivered, Head(channel))
           /\ channel' = Tail(channel)
           /\ MoveTo(next)
           /\ UNCHANGED <<groupVars, output, written, reader, truncated>>
  <2> DEFINE line == Head(channel)
  <2>1. /\ output \in Seq(Nat) /\ channel \in Seq(Nat) /\ delivered \in Seq(Nat)
        /\ Len(delivered) \in Nat /\ Len(output) \in Nat /\ channel # <<>>
        /\ OutputLimit \in Nat /\ mode = "jsonl"
    BY ProcessAssumption DEF Receive, ProcessInv, ProcessTypes, GroupEnds
  <2>2. /\ channel' \in Seq(Nat) /\ Len(channel) \in Nat /\ Len(channel) > 0
        /\ Len(channel') = Len(channel) - 1
        /\ line = channel[1] /\ line \in Nat
        /\ \A i \in 1..(Len(channel) - 1) : channel'[i] = channel[i + 1]
    BY <1>4, <2>1, LineTaken
  <2>3. delivered' = Append(delivered, line) /\ Len(delivered) < OutputLimit
    BY <1>4
  <2> HIDE DEF line
  <2>4. /\ delivered' \in Seq(Nat) /\ Len(delivered') = Len(delivered) + 1
        /\ \A i \in 1..(Len(delivered) + 1) :
             delivered'[i] = IF i <= Len(delivered) THEN delivered[i] ELSE line
    BY <2>1, <2>2, <2>3, LineAppended
  <2>5. /\ UNCHANGED <<mode, alive, group, piped, output, written, reader, truncated, outcome>>
        /\ place' = next
    BY <1>4 DEF MoveTo, groupVars
  <2>6. ProcessTypes'
    BY <2>2, <2>4, <2>5 DEF ProcessInv, ProcessTypes
  <2>7. GroupEnds'
    BY <2>1, <2>5 DEF ProcessInv, GroupEnds, Stops
  <2>8. ASSUME reader # "failed" PROVE LinesInOrder'
    <3>1. LinesInOrder
      BY <2>8 DEF ProcessInv
    <3>2. line = Len(delivered) + 1
      BY <2>2, <3>1 DEF LinesInOrder
    <3>3. \A i \in 1..Len(delivered') : delivered'[i] = i
      <4>1. ASSUME NEW i \in 1..Len(delivered') PROVE delivered'[i] = i
        <5>0. Len(delivered) \in Nat /\ \A j \in 1..Len(delivered) : delivered[j] = j
          BY <2>1, <3>1 DEF LinesInOrder
        <5>1. CASE i <= Len(delivered)
          BY <2>4, <5>0, <5>1
        <5>2. CASE i = Len(delivered) + 1
          BY <2>4, <3>2, <5>0, <5>2
        <5> QED
          BY <2>4, <5>0, <5>1, <5>2
      <4> QED
        BY <4>1
    <3>4. \A i \in 1..Len(channel') : channel'[i] = Len(delivered') + i
      <4>1. ASSUME NEW i \in 1..Len(channel') PROVE channel'[i] = Len(delivered') + i
        <5>1. i + 1 \in 1..Len(channel) /\ channel'[i] = channel[i + 1]
          BY <2>2
        <5>2. channel[i + 1] = Len(delivered) + (i + 1)
          BY <3>1, <5>1 DEF LinesInOrder
        <5> QED
          BY <2>1, <2>4, <5>1, <5>2
      <4> QED
        BY <4>1
    <3>5. ~truncated /\ Len(delivered') + Len(channel') + Len(output') = written'
      BY <2>1, <2>2, <2>4, <2>5, <3>1 DEF LinesInOrder
    <3>6. Len(delivered') <= OutputLimit
      BY <2>1, <2>3, <2>4
    <3> QED
      BY <2>5, <3>1, <3>3, <3>4, <3>5, <3>6 DEF LinesInOrder
  <2> QED
    BY <2>5, <2>6, <2>7, <2>8 DEF ProcessInv
<1> QED
  BY <1>1, <1>2, <1>3, <1>4 DEF Receive

LEMMA SupervisorStep ==
  ASSUME ProcessInv, SupervisorNext
  PROVE  ProcessInv'
<1>0. ProcessTypes /\ GroupEnds
  BY DEF ProcessInv
<1>1. CASE CheckWanted
  <2>1. outcome = "none"
    BY <1>1 DEF CheckWanted, Supervising
  <2>2. CASE Terminate("cancelled") \/ Terminate("timed out")
    BY <2>1, <2>2, StopKeeps DEF Stops
  <2>3. CASE \/ MoveTo("drain") /\ UNCHANGED <<groupVars, lineVars>>
             \/ MoveTo("poll") /\ UNCHANGED <<groupVars, lineVars>>
    BY <2>1, <2>3, MoveKeeps
  <2> QED
    BY <1>1, <2>2, <2>3 DEF CheckWanted
<1>2. CASE Drain
  <2>1. outcome = "none" /\ place = "drain"
    BY <1>2 DEF Drain, Supervising
  <2>2. CASE Receive("drain")
    BY <2>1, <2>2, ReceiveKeeps DEF Stops
  <2>3. CASE MoveTo("poll") /\ UNCHANGED <<groupVars, lineVars>>
    BY <2>1, <2>3, MoveKeeps
  <2> QED
    BY <1>2, <2>2, <2>3 DEF Drain
<1>3. CASE Poll
  <2>1. outcome = "none" /\ place = "poll"
    BY <1>3 DEF Poll, Supervising
  <2>2. CASE \/ MoveTo("wait") /\ UNCHANGED <<groupVars, lineVars>>
             \/ MoveTo("check") /\ UNCHANGED <<groupVars, lineVars>>
    BY <2>1, <2>2, MoveKeeps
  <2>3. CASE Terminate("unmonitored")
    BY <2>1, <2>3, StopKeeps DEF Stops
  <2>4. CASE /\ "child" \notin alive
             /\ IF mode = "jsonl" THEN KillGroup ELSE UNCHANGED groupVars
             /\ MoveTo("exited") /\ UNCHANGED lineVars
    <3>1. /\ UNCHANGED <<mode, group, output, written, reader, channel, delivered, truncated,
                         outcome>>
          /\ place' = "exited"
          /\ \/ mode = "jsonl" /\ alive' = alive \ group /\ piped' = piped \ group
             \/ mode = "monitored" /\ UNCHANGED <<alive, piped>>
      BY <1>0, <2>4 DEF KillGroup, MoveTo, lineVars, groupVars, ProcessTypes
    <3>2. GroupEnds'
      BY <1>0, <2>1, <2>4, <3>1 DEF GroupEnds, Stops
    <3> QED
      BY <1>0, <3>1, <3>2, NoLineMoves DEF ProcessTypes
  <2> QED
    BY <1>3, <2>2, <2>3, <2>4 DEF Poll
<1>4. CASE WaitLine
  <2>1. outcome = "none" /\ place = "wait"
    BY <1>4 DEF WaitLine, Supervising
  <2>2. CASE Receive("check")
    BY <2>1, <2>2, ReceiveKeeps DEF Stops
  <2>3. CASE MoveTo("check") /\ UNCHANGED <<groupVars, lineVars>>
    BY <2>1, <2>3, MoveKeeps
  <2> QED
    BY <1>4, <2>2, <2>3 DEF WaitLine
<1>5. CASE LastLines
  <2>1. outcome = "none" /\ place = "exited"
    BY <1>5 DEF LastLines, Supervising
  <2>2. CASE Receive("exited")
    BY <2>1, <2>2, ReceiveKeeps DEF Stops
  <2>3. CASE /\ channel = <<>> /\ reader = "ended"
             /\ Return("output") /\ UNCHANGED <<groupVars, lineVars>>
    BY <2>1, <2>3, ReturnKeeps DEF Stops
  <2>4. CASE Return("unreadable") /\ UNCHANGED <<groupVars, lineVars>>
    BY <2>1, <2>4, ReturnKeeps DEF Stops
  <2> QED
    BY <1>5, <2>2, <2>3, <2>4 DEF LastLines
<1>6. CASE JoinReader
  <2>1. outcome = "none" /\ place \in Stops /\ alive \cap group = {} /\ place # "output"
    BY <1>0, <1>6 DEF JoinReader, GroupEnds, Stops
  <2>2. Return(place) /\ UNCHANGED <<groupVars, lineVars>>
    BY <1>6 DEF JoinReader
  <2> QED
    BY <2>1, <2>2, ReturnKeeps
<1> QED
  BY <1>1, <1>2, <1>3, <1>4, <1>5, <1>6 DEF SupervisorNext

(* A step of the processes: it frees no output that was given up, and in a *)
(* group that was killed it starts nothing.                                *)
LEMMA GroupStep ==
  ASSUME ProcessInv, SupervisorKeeps, UNCHANGED lineVars,
         alive' \subseteq {"child", "helper"}, group' \subseteq {"child", "helper"},
         piped' \subseteq alive', piped = {} => piped' = {}, "child" \in group',
         "child" \in alive' => "child" \in alive,
         "child" \notin alive => alive' \cap group' \subseteq alive \cap group
  PROVE  ProcessInv'
<1>1. UNCHANGED <<mode, output, written, reader, channel, delivered, truncated, place, outcome>>
  BY DEF SupervisorKeeps, lineVars
<1>2. ProcessTypes /\ GroupEnds
  BY DEF ProcessInv
<1>3. GroupEnds'
  BY <1>1, <1>2 DEF GroupEnds
<1> QED
  BY <1>1, <1>2, <1>3, NoLineMoves DEF ProcessTypes

LEMMA ProcessStep ==
  ASSUME ProcessInv, ProcessNext
  PROVE  ProcessInv'
<1>0. ProcessTypes /\ GroupEnds
  BY DEF ProcessInv
<1>1. ASSUME Fork PROVE ProcessInv'
  BY <1>0, <1>1, GroupStep DEF Fork, ProcessTypes, GroupEnds
<1>2. ASSUME LeaveGroup PROVE ProcessInv'
  BY <1>0, <1>2, GroupStep DEF LeaveGroup, ProcessTypes, GroupEnds
<1>3. ASSUME NEW process \in {"child", "helper"}, Redirect(process) PROVE ProcessInv'
  BY <1>0, <1>3, GroupStep DEF Redirect, ProcessTypes, GroupEnds
<1>4. ASSUME NEW process \in {"child", "helper"}, Die(process) PROVE ProcessInv'
  BY <1>0, <1>4, GroupStep DEF Die, ProcessTypes, GroupEnds
<1>5. ASSUME NEW reason, Want(reason) PROVE ProcessInv'
  <2>1. UNCHANGED <<mode, alive, group, piped, output, written, reader, channel, delivered,
                    truncated, place, outcome>>
    BY <1>5 DEF Want, groupVars, lineVars
  <2>2. GroupEnds'
    BY <1>0, <2>1 DEF GroupEnds
  <2> QED
    BY <1>0, <2>1, <2>2, NoLineMoves DEF ProcessTypes
<1>6. ASSUME ReadEnd PROVE ProcessInv'
  <2>1. /\ UNCHANGED <<mode, alive, group, piped, output, written, channel, delivered,
                       truncated, place, outcome>>
        /\ reader = "reading" /\ reader' = "ended" /\ output = <<>> /\ piped = {}
    BY <1>6 DEF ReadEnd, SupervisorKeeps, groupVars
  <2>2. GroupEnds'
    BY <1>0, <2>1 DEF GroupEnds
  <2> QED
    BY <1>0, <2>1, <2>2, NoLineMoves DEF ProcessTypes
<1> QED
  BY <1>1, <1>2, <1>3, <1>4, <1>5, <1>6, WriteKeeps, ReadLineKeeps, ReadFailsKeeps, SupervisorStep
     DEF ProcessNext, GroupNext

LEMMA NothingLeft == ProcessInv => CallsLeaveNothing
<1> SUFFICES ASSUME ProcessInv PROVE CallsLeaveNothing
  OBVIOUS
<1>1. outcome \in Stops => alive \cap group = {}
  BY DEF ProcessInv, GroupEnds
<1>2. ASSUME outcome = "output"
      PROVE  /\ mode = "jsonl" => alive \cap group = {}
             /\ piped = {} /\ output = <<>>
             /\ delivered = [i \in 1..(IF truncated THEN OutputLimit ELSE written) |-> i]
             /\ truncated => mode = "monitored" /\ OutputLimit < written
  <2> DEFINE n == IF truncated THEN OutputLimit ELSE written
  <2>1. /\ LinesInOrder /\ GroupEnds /\ place = "exited" /\ channel = <<>>
        /\ output = <<>> /\ piped = {}
        /\ delivered \in Seq(Nat) /\ written \in Nat /\ OutputLimit \in Nat
        /\ Len(output) = 0 /\ Len(channel) = 0 /\ Len(delivered) \in Nat
    BY <1>2, ProcessAssumption DEF ProcessInv, ProcessTypes, LinesInOrder, GroupEnds
  <2>2. Len(delivered) = n
    BY <2>1 DEF LinesInOrder
  <2>3. \A i \in 1..n : delivered[i] = i
    BY <2>1, <2>2 DEF LinesInOrder
  <2>4. delivered = [i \in 1..n |-> i]
    <3> HIDE DEF n
    <3> QED
      BY <2>1, <2>2, <2>3
  <2>5. mode = "jsonl" => alive \cap group = {}
    BY <2>1 DEF GroupEnds
  <2>6. truncated => mode = "monitored" /\ OutputLimit < written
    BY <2>1 DEF LinesInOrder
  <2> QED
    BY <2>1, <2>4, <2>5, <2>6
<1> QED
  BY <1>1, <1>2 DEF CallsLeaveNothing

(* A call that was stopped leaves no process of the group, and one that    *)
(* returns an output has every line up to the limit, once and in order,    *)
(* with nobody left who could add one: however many lines are written,     *)
(* whatever the limit, and whenever a process ends, starts another, leaves *)
(* the group or gives up the output.                                       *)
THEOREM ProcessesLeaveNothing == ProcessSpec => []CallsLeaveNothing
<1>1. ProcessInv /\ [ProcessNext]_processVars => ProcessInv'
  <2>1. ASSUME ProcessInv, UNCHANGED processVars PROVE ProcessInv'
    BY <2>1
       DEF processVars, groupVars, lineVars, ProcessInv, ProcessTypes, GroupEnds, LinesInOrder
  <2> QED
    BY <2>1, ProcessStep
<1> QED
  BY <1>1, ProcessInitially, NothingLeft, PTL DEF ProcessSpec
=============================================================================
