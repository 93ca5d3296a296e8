------------------------- MODULE RecoverySnapshots -------------------------
(***************************************************************************)
(* Snapshots of unsaved text (recovery_store.rs), which the editor sends   *)
(* half a second after a change (+page.svelte): syncs go one after the     *)
(* other, replace all that is kept for the folder that is the root when    *)
(* they are carried out, and are answered late or never, while the user    *)
(* types, saves, opens another folder or closes the window and the process *)
(* may end.  Every call to the backend may fail, and one that timed out    *)
(* may still be carried out.                                               *)
(*                                                                         *)
(* One document; its text is a number, 0 when nothing of it is unsaved.    *)
(* Saves are those of WorkspaceFiles, in one step.                         *)
(***************************************************************************)
EXTENDS Naturals, Sequences

CONSTANTS
  Homes,          (* folders that can be the root of the workspace         *)
  UnsavedTexts,   (* bound: texts the user types                           *)
  Oversized,      (* those over RECOVERY_MAX_CONTENT_BYTES                 *)
  MaxSyncs,       (* bound: syncs sent and not answered                    *)
  MaxSwitches     (* bound: folders opened by one process                  *)

ASSUME RecoveryAssumption ==
  0 \notin UnsavedTexts /\ MaxSyncs \in Nat \ {0} /\ MaxSwitches \in Nat

VARIABLES
  folder,         (* the folder that is the root, how many were opened, and *)
                  (* whether a call to set it was given up under way       *)
  unsaved,        (* the text of a document that is dirty, or 0            *)
  kept,           (* recovery_snapshots: the unsaved text of each folder   *)
  syncs,          (* syncs sent, and whether no folder was being switched  *)
  overdue,        (* texts of syncs given up that may still be carried out *)
  editor,         (* its phase, its sync timer, the syncs it waits for     *)
  uncertain       (* history: folders where a step failed, came late or    *)
                  (* met a switch since the last sync that did not         *)

recoveryVars == <<folder, unsaved, kept, syncs, overdue, editor, uncertain>>

Restoring == [phase |-> "restoring", timer |-> FALSE, ahead |-> 0]

RecoveryInit ==
  /\ folder \in [at : Homes, opened : {0}, late : {FALSE}]
  /\ unsaved = 0 /\ kept = [f \in Homes |-> 0]
  /\ syncs = <<>> /\ overdue = {}
  /\ editor = Restoring
  /\ uncertain = {}

Doubt(folders) == uncertain' = uncertain \cup folders

-----------------------------------------------------------------------------
(* The editor *)

Interactive == editor.phase # "closing"

(* The user types, undoes, reloads or closes the document, or opens        *)
(* another one.                                                            *)
Change ==
  /\ Interactive
  /\ unsaved' \in ({0} \cup UnsavedTexts) \ {unsaved}
  /\ editor' = [editor EXCEPT !.timer = TRUE]
  /\ UNCHANGED <<folder, kept, syncs, overdue, uncertain>>

(* recoverySnapshotForSession: nothing is sent of a text over the limit.   *)
SnapshotOf(text) == IF text \in Oversized THEN 0 ELSE text

(* The snapshots of what is dirty now are sent.                            *)
SendSync(text) ==
  /\ Len(syncs) < MaxSyncs
  /\ syncs' = Append(syncs, [text |-> SnapshotOf(text), sure |-> editor.phase = "idle"])

(* Text typed since the save was sent remains unsaved.                     *)
Saved ==
  /\ Interactive /\ unsaved # 0
  /\ unsaved' \in {0, unsaved} /\ SendSync(unsaved')
  /\ UNCHANGED <<folder, kept, overdue, editor, uncertain>>

TimerFires ==
  /\ Interactive /\ editor.timer
  /\ editor' = [editor EXCEPT !.timer = FALSE]
  /\ SendSync(unsaved)
  /\ UNCHANGED <<folder, unsaved, kept, overdue, uncertain>>

-----------------------------------------------------------------------------
(* The store *)

Answered == [editor EXCEPT !.ahead = IF @ = 0 THEN 0 ELSE @ - 1]
MayBeLate(text) == overdue' \in {overdue, overdue \cup {text}}

(* prune_expired: snapshots that were not renewed for 30 days go.          *)
Pruned(texts, folders) ==
  {[f \in Homes |-> IF f \in expired THEN 0 ELSE texts[f]] : expired \in SUBSET folders}

(* sync_workspace: one transaction replaces the snapshots of the workspace *)
(* and its folder, which is read when the sync is carried out; then old    *)
(* ones are pruned.                                                        *)
Replaced(text) == Pruned([kept EXCEPT ![folder.at] = text], Homes \ {folder.at})

Sync ==
  /\ syncs # <<>>
  /\ kept' \in Replaced(Head(syncs).text)
  /\ IF Head(syncs).sure THEN uncertain' = uncertain \ {folder.at} ELSE Doubt({folder.at})
  /\ syncs' = Tail(syncs) /\ editor' = Answered
  /\ UNCHANGED <<folder, unsaved, overdue>>

(* A sync fails, or its call times out while it is still to be carried out. *)
SyncFails ==
  /\ syncs # <<>>
  /\ MayBeLate(Head(syncs).text) /\ Doubt({folder.at})
  /\ syncs' = Tail(syncs) /\ editor' = Answered
  /\ UNCHANGED <<folder, unsaved, kept>>

LateSync ==
  /\ \E text \in overdue :
       kept' \in Replaced(text) /\ overdue' = overdue \ {text}
  /\ Doubt({folder.at})
  /\ UNCHANGED <<folder, unsaved, syncs, editor>>

-----------------------------------------------------------------------------
(* Folders, windows and processes *)

(* The user opens another folder or closes the window, having saved or     *)
(* given up what is unsaved: the timer is cleared and the syncs sent so    *)
(* far are waited for.                                                     *)
Leave(phase) ==
  /\ editor.phase = "idle"
  /\ editor' = [phase |-> phase, timer |-> FALSE, ahead |-> Len(syncs)]
  /\ UNCHANGED <<folder, unsaved, kept, syncs, overdue, uncertain>>

OpenFolder == folder.opened < MaxSwitches /\ Leave("clearing")
CloseWindow == Leave("closing")

(* The sync of nothing succeeds, or fails, which is only logged.           *)
Clear(phase) ==
  /\ \/ kept' \in Replaced(0) /\ UNCHANGED <<overdue, uncertain>>
     \/ UNCHANGED kept /\ MayBeLate(0) /\ Doubt({folder.at})
  /\ editor' = [editor EXCEPT !.phase = phase, !.ahead = 0]
  /\ UNCHANGED <<folder, unsaved, syncs>>

(* Mutant of ClearSnapshots: syncs under way are not waited for.           *)
ClearSnapshotsAtOnce == editor.phase = "clearing" /\ Clear("cleared")

(* clear_current_recovery_snapshots                                        *)
ClearSnapshots ==
  /\ editor.phase = "clearing" /\ editor.ahead = 0
  /\ Clear("cleared")

SetRootFolder ==
  /\ editor.phase = "cleared"
  /\ \E f \in Homes : folder' = [folder EXCEPT !.at = f, !.opened = @ + 1]
  /\ editor' = [editor EXCEPT !.phase = "switched"]
  /\ UNCHANGED <<unsaved, kept, syncs, overdue, uncertain>>

(* The catch: the folder was not set, or not in time, or its answer is     *)
(* lost.  The documents stay open, their snapshots are gone, no sync is    *)
(* due.                                                                    *)
SwitchFails ==
  /\ editor.phase \in {"cleared", "switched"}
  /\ folder' \in {folder} \cup
                 (IF editor.phase = "cleared" THEN {[folder EXCEPT !.late = TRUE]} ELSE {})
  /\ editor' = [editor EXCEPT !.phase = "idle"]
  /\ Doubt({folder.at})
  /\ UNCHANGED <<unsaved, kept, syncs, overdue>>

LateRootFolder ==
  /\ folder.late
  /\ \E f \in Homes :
       folder' = [folder EXCEPT !.at = f, !.late = FALSE] /\ Doubt({folder.at, f})
  /\ UNCHANGED <<unsaved, kept, syncs, overdue, editor>>

DropDocuments ==
  /\ editor.phase = "switched"
  /\ unsaved' = 0
  /\ editor' = [editor EXCEPT !.phase = "idle"]
  /\ UNCHANGED <<folder, kept, syncs, overdue, uncertain>>

Cleared == [kept EXCEPT ![folder.at] = 0]

(* The process ends, after a closed window has cleared the snapshots or at *)
(* any time, and another one starts in the folder its interface saved      *)
(* last, which may be an earlier one.                                      *)
EndProcess ==
  /\ \E texts \in {kept} \cup (IF editor.phase = "closing" /\ editor.ahead = 0
                               THEN {Cleared} ELSE {}) :
       kept' \in Pruned(texts, Homes)
  /\ \E f \in Homes :
       /\ folder' = [at |-> f, opened |-> 0, late |-> FALSE]
       /\ Doubt({folder.at} \ {f})
  /\ unsaved' = 0 /\ syncs' = <<>> /\ overdue' = {}
  /\ editor' = Restoring

Restored(timer) == editor' = [editor EXCEPT !.phase = "idle", !.timer = timer]

(* The snapshots are restored, dirty unless the file has their text now,   *)
(* or discarded, each by a call that may fail, before a sync.              *)
Restore ==
  /\ editor.phase = "restoring"
  /\ \/ /\ unsaved = 0 /\ unsaved' \in {kept[folder.at], 0}
        /\ Restored(editor.timer \/ kept[folder.at] # 0)
        /\ UNCHANGED <<kept, syncs>>
     \/ /\ kept[folder.at] # 0 /\ kept' \in {kept, Cleared}
        /\ SendSync(unsaved) /\ Restored(editor.timer)
        /\ UNCHANGED unsaved
  /\ UNCHANGED <<folder, overdue, uncertain>>

(* The document was opened before its snapshot was restored; or the        *)
(* snapshots could not be listed; or the folder could not be opened again. *)
(* The snapshots stay, and no sync is due.                                 *)
RestoreFails ==
  /\ editor.phase = "restoring"
  /\ \E f \in Homes : \E late \in {FALSE, f # folder.at} :
       /\ folder' = [folder EXCEPT !.at = f, !.late = late]
       /\ Doubt({folder.at, f})
  /\ Restored(editor.timer)
  /\ UNCHANGED <<unsaved, kept, syncs, overdue>>

RecoveryNext ==
  \/ Change \/ Saved \/ TimerFires \/ Sync \/ SyncFails \/ LateSync
  \/ OpenFolder \/ CloseWindow \/ ClearSnapshots \/ SetRootFolder \/ SwitchFails
  \/ LateRootFolder \/ DropDocuments \/ EndProcess \/ Restore \/ RestoreFails

RecoverySpec == RecoveryInit /\ [][RecoveryNext]_recoveryVars

-----------------------------------------------------------------------------
(* What is not saved survives the end of the process: when no sync is due  *)
(* or under way, exactly the unsaved text is kept for the folder, or       *)
(* nothing of one over the limit, across folder switches and restarts,     *)
(* and again after the next sync when a sync failed, came late or met a    *)
(* switch of folders.  What it excepts until then: a switch that failed    *)
(* after it had cleared the snapshots (+page.svelte:2162), snapshots that  *)
(* were not restored at the start (2067, 2094) and a folder that was set   *)
(* late; there the code leaves text unsaved, unkept and no sync due.       *)
UnsavedTextIsKept ==
  /\ editor.phase = "idle" /\ ~editor.timer /\ syncs = <<>>
  /\ folder.at \notin uncertain
  => kept[folder.at] = SnapshotOf(unsaved)
=============================================================================
