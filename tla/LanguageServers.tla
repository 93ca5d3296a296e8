--------------------------- MODULE LanguageServers ---------------------------
(***************************************************************************)
(* One language server and its client (lsp.rs): the document of a tab,     *)
(* which calls of several threads keep in step with the server's copy, and *)
(* requests, which a reader thread answers by their ids while callers give *)
(* up after 45 seconds.                                                    *)
(*                                                                         *)
(* One document.  A text is the tab it was typed in and its revision,      *)
(* which starts at 0 in every tab.  The requests are those of one client.  *)
(***************************************************************************)
EXTENDS Naturals, Sequences

CONSTANTS
  MaxTabs,        (* bound: times the document is opened                   *)
  MaxTyped,       (* bound: revisions of a tab after the first             *)
  SyncCalls,      (* calls of lsp_sync_document under way at once          *)
  Callers,        (* callers of requests                                   *)
  MaxRequests,    (* bound: requests sent                                  *)
  MaxMessages     (* bound: messages of the server not yet read            *)

ASSUME LanguageAssumption ==
  /\ {MaxTabs, MaxTyped, MaxRequests, MaxMessages} \subseteq Nat
  /\ MaxRequests > 0 /\ MaxMessages > 0

VARIABLES
  tab,            (* the tab of the document: which one, whether it is open, revision *)
  sync,           (* calls of sync_document: text, lock, and the text opened then *)
  opened,         (* opened_documents: the text last written to the server *)
  mirror,         (* the server's copy                                     *)
  closings,       (* close_document calls that have not notified the server *)
  crossed,        (* history: a close was notified after a later sync      *)
  client,         (* next_id, pending, and whether the reader runs         *)
  caller,         (* what a caller waits for or got                        *)
  asked,          (* requests the server has not answered                  *)
  stdout          (* messages of the server not yet read                   *)

documentVars == <<tab, sync, opened, mirror, closings, crossed>>
requestVars == <<client, caller, asked, stdout>>
languageVars == <<documentVars, requestVars>>

Nothing == <<0, 0>>
Garbled == <<0, 1>>
Text == <<tab.n, tab.revision>>
NoSync == [at |-> "none", text |-> Nothing, base |-> Nothing]
NoRequest == [id |-> 0, of |-> 0, got |-> "none"]

LanguageInit ==
  /\ tab = [n |-> 0, open |-> FALSE, revision |-> 0]
  /\ sync = [c \in SyncCalls |-> NoSync]
  /\ opened = Nothing /\ mirror = Nothing
  /\ closings = 0 /\ crossed = FALSE
  /\ client = [next |-> 1, pending |-> {}, reading |-> TRUE]
  /\ caller = [c \in Callers |-> NoRequest]
  /\ asked = {} /\ stdout = <<>>

-----------------------------------------------------------------------------
(* Documents *)

OpenTab ==
  /\ ~tab.open /\ tab.n < MaxTabs
  /\ tab' = [n |-> tab.n + 1, open |-> TRUE, revision |-> 0]
  /\ UNCHANGED <<sync, opened, mirror, closings, crossed>>

TypeText ==
  /\ tab.open /\ tab.revision < MaxTyped
  /\ tab' = [tab EXCEPT !.revision = @ + 1]
  /\ UNCHANGED <<sync, opened, mirror, closings, crossed>>

(* syncDocumentWithLsp, 350 ms after a change; a command of the blocking   *)
(* pool, so that calls may overtake each other.                            *)
CallSync(c) ==
  /\ tab.open /\ sync[c] = NoSync
  /\ sync' = [sync EXCEPT ![c] = [NoSync EXCEPT !.at = "called", !.text = Text]]
  /\ UNCHANGED <<tab, opened, mirror, closings, crossed>>

Unlocked == \A c \in SyncCalls : sync[c].at # "locked"

(* Mutant of LockSync: the lock is released before the text is written.    *)
LockSyncBriefly(c) ==
  /\ sync[c].at = "called"
  /\ sync' = [sync EXCEPT ![c] =
                IF opened # Nothing /\ @.text[2] <= opened[2] THEN NoSync
                ELSE [@ EXCEPT !.at = "locked", !.base = opened]]
  /\ UNCHANGED <<tab, opened, mirror, closings, crossed>>

(* A version that is not newer than the opened one is ignored; any other   *)
(* becomes a message made from the opened text.                            *)
LockSync(c) ==
  /\ sync[c].at = "called" /\ Unlocked
  /\ sync' = [sync EXCEPT ![c] =
                IF opened # Nothing /\ @.text[2] <= opened[2] THEN NoSync
                ELSE [@ EXCEPT !.at = "locked", !.base = opened]]
  /\ UNCHANGED <<tab, opened, mirror, closings, crossed>>

(* didOpen for a document that is not opened here; didChange, of the       *)
(* difference to the opened text, for one that is: a server that has       *)
(* another text makes something else of it.                                *)
Received(message) ==
  IF message.base \in {Nothing, mirror} THEN message.text
  ELSE IF mirror = Nothing THEN Nothing ELSE Garbled

(* The text is written and then recorded, or the write fails.              *)
WriteSync(c) ==
  /\ sync[c].at = "locked"
  /\ sync' = [sync EXCEPT ![c] = NoSync]
  /\ \/ mirror' = Received(sync[c]) /\ opened' = sync[c].text
     \/ UNCHANGED <<mirror, opened>>
  /\ UNCHANGED <<tab, closings, crossed>>

(* close_document forgets the document under the lock and tells the server *)
(* without it.                                                             *)
CloseTab ==
  /\ tab.open /\ tab' = [tab EXCEPT !.open = FALSE]
  /\ Unlocked /\ opened' = Nothing
  /\ closings' = closings + 1
  /\ UNCHANGED <<sync, mirror, crossed>>

NotifyClose ==
  /\ closings > 0 /\ closings' = closings - 1
  /\ mirror' = Nothing
  /\ crossed' = (crossed \/ opened # Nothing)
  /\ UNCHANGED <<tab, sync, opened>>

DocumentNext ==
  \/ OpenTab \/ TypeText \/ CloseTab \/ NotifyClose
  \/ \E c \in SyncCalls : CallSync(c) \/ LockSync(c) \/ WriteSync(c)

-----------------------------------------------------------------------------
(* Requests *)

(* Mutant of NextId: the number of requests under way.                     *)
NextIdOfPending == CHOOSE n \in 1..(MaxRequests + 1) : n \notin client.pending

NextId == client.next

(* request: a failed write takes the id back out.                          *)
Request(c) ==
  /\ caller[c].got # "waiting" /\ client.next <= MaxRequests
  /\ \/ /\ client' = [client EXCEPT !.next = @ + 1, !.pending = @ \cup {NextId}]
        /\ caller' = [caller EXCEPT ![c] = [id |-> NextId, of |-> client.next, got |-> "waiting"]]
        /\ asked' = asked \cup {[id |-> NextId, of |-> client.next]}
     \/ /\ client' = [client EXCEPT !.next = @ + 1]
        /\ caller' = [caller EXCEPT ![c] = [NoRequest EXCEPT !.got = "error"]]
        /\ UNCHANGED asked
  /\ UNCHANGED stdout

Send(message) == Len(stdout) < MaxMessages /\ stdout' = Append(stdout, message)

(* The server answers when it likes, in any order, or never.               *)
Respond ==
  /\ \E a \in asked :
       Send([kind |-> "response", id |-> a.id, of |-> a.of]) /\ asked' = asked \ {a}
  /\ UNCHANGED <<client, caller>>

(* Requests of the server have numbers of their own, its notifications     *)
(* none.                                                                   *)
ServerAsks ==
  /\ \E n \in 1..MaxRequests : Send([kind |-> "request", id |-> n, of |-> 0])
  /\ UNCHANGED <<client, caller, asked>>

Waiting(id) == {c \in Callers : caller[c].got = "waiting" /\ caller[c].id = id}

(* The reader takes a message with the number of a pending request for its *)
(* response; a request of the server without one is answered, which        *)
(* changes nothing here.                                                   *)
ReadMessage ==
  /\ client.reading /\ stdout # <<>> /\ stdout' = Tail(stdout)
  /\ LET message == Head(stdout) IN
     IF message.id \in client.pending
     THEN /\ client' = [client EXCEPT !.pending = @ \ {message.id}]
          /\ caller' = [c \in Callers |->
               IF c \in Waiting(message.id) THEN
                 [caller[c] EXCEPT !.got =
                   IF message.kind = "request" THEN "null"
                   ELSE IF message.of = caller[c].of THEN "answer" ELSE "another's"]
               ELSE caller[c]]
     ELSE UNCHANGED <<client, caller>>
  /\ UNCHANGED asked

TimeOut(c) ==
  /\ caller[c].got = "waiting"
  /\ caller' = [caller EXCEPT ![c].got = "timeout"]
  /\ client' = [client EXCEPT !.pending = @ \ {caller[c].id}]
  /\ UNCHANGED <<asked, stdout>>

(* The server closed its output or wrote what cannot be read: everyone     *)
(* waiting gets an error and nothing is read again.                        *)
FailPending ==
  /\ client.reading
  /\ client' = [client EXCEPT !.pending = {}, !.reading = FALSE]
  /\ caller' = [c \in Callers |->
       IF caller[c].got = "waiting"
       THEN [caller[c] EXCEPT !.got = "error"] ELSE caller[c]]
  /\ UNCHANGED <<asked, stdout>>

RequestNext ==
  \/ Respond \/ ServerAsks \/ ReadMessage \/ FailPending
  \/ \E c \in Callers : Request(c) \/ TimeOut(c)

LanguageNext ==
  \/ DocumentNext /\ UNCHANGED requestVars
  \/ RequestNext /\ UNCHANGED documentVars

LanguageSpec == LanguageInit /\ [][LanguageNext]_languageVars

-----------------------------------------------------------------------------
(* The difference a sync sends is one to the text the server has: whenever *)
(* no call is in the middle of its writes, the server holds exactly what   *)
(* the client has recorded, whatever order the calls of the pool come in,  *)
(* until a close is told to the server after a later sync.                 *)
ServerHoldsOpenedText == crossed \/ closings > 0 \/ mirror = opened

(* An answer that comes after its caller gave up reaches nobody else, so   *)
(* that no completion is shown for another request's position: a caller    *)
(* gets its own, an error or, when the server numbers a request of its own *)
(* the same, nothing.                                                      *)
AnswersFindTheirCaller == \A c \in Callers : caller[c].got # "another's"
=============================================================================
