---------------------------- MODULE EditorProofs ----------------------------
(***************************************************************************)
(* Proofs about what the user types: that a save writes where its document *)
(* was opened (WorkspaceFiles), that unsaved text is kept                  *)
(* (RecoverySnapshots), and that a language server has the text it is told *)
(* changes of and its answers reach who asked (LanguageServers).           *)
(***************************************************************************)
EXTENDS WorkspaceFiles, RecoverySnapshots, LanguageServers, SequenceTheorems, TLAPS

-----------------------------------------------------------------------------
(* A save writes where, and over what, its document was opened.            *)
(*                                                                         *)
(* SaveAllowed compares numbers: the revision of the root and the version  *)
(* of the file.  That they stand for the folder and the content is the     *)
(* inductive invariant: revisions are never used twice, so a document, a   *)
(* save or an answer under way that has the revision of now has the folder *)
(* of now.                                                                 *)

Versions == Contents \cup {NoContent}
Docs == [text : Versions, version : Versions, saved : Versions, rev : Nat, home : Directories]

FilesShape ==
  /\ root \in [folder : Directories, revision : Nat \ {0}]
  /\ disk \in [Directories -> Versions]
  /\ doc \in Docs
  /\ saving \in [at : {"none", "sent", "checked", "failed", "written"}, doc : Docs,
                 folder : Directories, raced : BOOLEAN, closed : BOOLEAN]
  /\ fetch \in [of : {"none", "open", "reload", "refresh"}, doc : Docs]

(* A document of the present revision is one of the present folder.        *)
AtHome(d) ==
  /\ d.rev <= root.revision
  /\ d.rev = root.revision => d.home = root.folder

AllAtHome == AtHome(doc) /\ AtHome(saving.doc) /\ AtHome(fetch.doc)

CheckedAtHome == saving.at \in {"checked", "written"} => saving.folder = saving.doc.home

FInv == FilesShape /\ AllAtHome /\ CheckedAtHome /\ SavesReplaceTheirBase

LEMMA NoDocAtHome == ASSUME FilesShape PROVE NoDoc \in Docs /\ AtHome(NoDoc)
<1>1. NoDoc.home \in Directories
  BY DEF NoDoc, Loaded, FilesShape
<1> QED BY <1>1 DEF NoDoc, Loaded, Docs, Versions, AtHome, FilesShape

(* What read_file answers now.                                             *)
LEMMA LoadedAtHome ==
  ASSUME FilesShape
  PROVE  LET d == Loaded(disk[root.folder], root.revision, root.folder) IN
         d \in Docs /\ AtHome(d)
BY DEF FilesShape, Loaded, Docs, AtHome

(* The steps that leave the root, the files and the save alone.            *)
LEMMA EditorKeeps ==
  ASSUME FInv, root' = root, disk' = disk, saving' = saving,
         doc' \in Docs, AtHome(doc'), fetch' \in [of : {"none", "open", "reload", "refresh"}, doc : Docs],
         AtHome(fetch'.doc)
  PROVE  FInv'
BY DEF FInv, FilesShape, AllAtHome, AtHome, CheckedAtHome, SavesReplaceTheirBase

LEMMA FInvInit == FilesInit => FInv
<1> SUFFICES ASSUME FilesInit PROVE FInv
  OBVIOUS
<1>1. root.folder \in Directories /\ NoDoc.home \in Directories
  BY DEF FilesInit, NoDoc, Loaded
<1>2. NoDoc \in Docs /\ NoDoc.rev = 0
  BY <1>1 DEF NoDoc, Loaded, Docs, Versions
<1>3. FilesShape
  BY <1>1, <1>2 DEF FilesInit, FilesShape, NoSave, NoFetch, Versions
<1> QED BY <1>2, <1>3
  DEF FilesInit, FInv, AllAtHome, AtHome, NoSave, NoFetch, CheckedAtHome, SavesReplaceTheirBase

LEMMA FInvNext == FInv /\ [FilesNext]_filesVars => FInv'
<1> SUFFICES ASSUME FInv, [FilesNext]_filesVars PROVE FInv'
  OBVIOUS
<1>0. FilesShape /\ AllAtHome
  BY DEF FInv
<1>1. CASE UNCHANGED filesVars
  BY <1>1 DEF filesVars, FInv, FilesShape, AllAtHome, AtHome, CheckedAtHome, SavesReplaceTheirBase
<1>2. CASE SetRoot
  <2>1. PICK f \in Directories : root' = [folder |-> f, revision |-> root.revision + 1]
    BY <1>2 DEF SetRoot
  <2>2. root.revision \in Nat /\ root'.revision = root.revision + 1
    BY <2>1, <1>0 DEF FilesShape
  <2>3. \A d \in Docs : AtHome(d) => d.rev <= root'.revision /\ d.rev # root'.revision
    BY <2>2 DEF Docs, AtHome
  <2>4. AllAtHome'
    BY <1>0, <1>2, <2>3 DEF SetRoot, FilesShape, AllAtHome, AtHome
  <2> QED BY <1>2, <2>1, <2>2, <2>4
    DEF SetRoot, FInv, FilesShape, CheckedAtHome, SavesReplaceTheirBase
<1>3. CASE OtherWrite
  <2>1. PICK f \in Directories, c \in Contents :
          /\ disk' = [disk EXCEPT ![f] = c]
          /\ saving' = [saving EXCEPT !.raced =
                          @ \/ (saving.at = "checked" /\ f = saving.folder)]
    BY <1>3 DEF OtherWrite
  <2>2. /\ saving'.at = saving.at /\ saving'.doc = saving.doc /\ saving'.folder = saving.folder
        /\ saving'.closed = saving.closed
        /\ saving' = [at |-> saving.at, doc |-> saving.doc, folder |-> saving.folder,
                      raced |-> saving'.raced, closed |-> saving.closed]
    BY <2>1, <1>0 DEF FilesShape
  <2>3. saving'.raced = (saving.raced \/ (saving.at = "checked" /\ f = saving.folder))
    BY <2>1, <1>0 DEF FilesShape
  <2>4. saving'.raced \in BOOLEAN
    BY <2>3
  <2>5. FilesShape'
    BY <1>0, <1>3, <2>1, <2>2, <2>4 DEF OtherWrite, FilesShape, Versions
  <2>6. AllAtHome' /\ CheckedAtHome'
    BY <1>3, <2>2 DEF OtherWrite, FInv, AllAtHome, AtHome, CheckedAtHome
  <2>7. f # saving.folder => disk'[saving.folder] = disk[saving.folder]
    BY <2>1, <1>0 DEF FilesShape
  <2>8. SavesReplaceTheirBase'
    BY <2>2, <2>3, <2>7 DEF FInv, SavesReplaceTheirBase
  <2> QED BY <2>5, <2>6, <2>8 DEF FInv
<1>4. CASE Fetch
  <2>1. PICK of \in {"open", "reload", "refresh"} :
          fetch' = [of |-> of, doc |-> Loaded(disk[root.folder], root.revision, root.folder)]
    BY <1>4 DEF Fetch
  <2> QED BY <1>0, <1>4, <2>1, LoadedAtHome, EditorKeeps DEF Fetch, FilesShape, AllAtHome
<1>5. CASE ApplyFetch
  <2>1. doc' \in {fetch.doc, doc}
    BY <1>5 DEF ApplyFetch
  <2>2. fetch' = [of |-> "none", doc |-> NoDoc]
    BY <1>5 DEF ApplyFetch, NoFetch
  <2>3. doc' \in Docs /\ AtHome(doc')
    BY <2>1, <1>0 DEF FilesShape, AllAtHome
  <2>4. NoDoc \in Docs /\ AtHome(NoDoc)
    BY <1>0, NoDocAtHome
  <2> QED BY <1>5, <2>2, <2>3, <2>4, EditorKeeps DEF ApplyFetch
<1>6. CASE Recover
  <2> DEFINE d == Loaded(disk[root.folder], root.revision, root.folder)
  <2>1. PICK text, version \in Contents : doc' = [d EXCEPT !.text = text, !.version = version]
    BY <1>6 DEF Recover
  <2>2. d \in Docs /\ AtHome(d)
    BY <1>0, LoadedAtHome
  <2>3. doc' \in Docs /\ AtHome(doc')
    <3> HIDE DEF d
    <3> QED BY <2>1, <2>2 DEF Docs, AtHome, Versions
  <2> QED BY <1>0, <1>6, <2>3, EditorKeeps DEF Recover, FilesShape, AllAtHome
<1>7. CASE Type
  <2>1. PICK text \in Contents : doc' = [doc EXCEPT !.text = text]
    BY <1>7 DEF Type
  <2>2. doc' \in Docs /\ AtHome(doc')
    BY <1>0, <2>1 DEF FilesShape, AllAtHome, Docs, AtHome, Versions
  <2> QED BY <1>0, <1>7, <2>2, EditorKeeps DEF Type, FilesShape, AllAtHome
<1>8. CASE CloseDocument
  <2>1. doc' \in Docs /\ AtHome(doc')
    BY <1>0, <1>8, NoDocAtHome DEF CloseDocument
  <2>2. saving' = [saving EXCEPT !.closed = saving # NoSave]
    BY <1>8 DEF CloseDocument
  <2> QED BY <1>8, <2>1, <2>2
    DEF CloseDocument, FInv, FilesShape, AllAtHome, AtHome, CheckedAtHome, SavesReplaceTheirBase
<1>9. CASE StartSave
  <2>1. [doc EXCEPT !.saved = doc.text] \in Docs
    BY <1>0 DEF FilesShape, Docs
  <2>2. AtHome([doc EXCEPT !.saved = doc.text])
    BY <1>0 DEF FilesShape, AllAtHome, Docs, AtHome
  <2>3. saving' = [at |-> "sent", doc |-> [doc EXCEPT !.saved = doc.text],
                   folder |-> NoDoc.home, raced |-> FALSE, closed |-> FALSE]
    BY <1>9 DEF StartSave, NoSave
  <2>4. NoDoc.home \in Directories
    BY <1>0, NoDocAtHome DEF Docs
  <2>5. FilesShape'
    BY <1>0, <1>9, <2>1, <2>3, <2>4 DEF StartSave, FilesShape
  <2> QED BY <1>9, <2>2, <2>3, <2>5
    DEF StartSave, FInv, AllAtHome, AtHome, CheckedAtHome, SavesReplaceTheirBase
<1>10. CASE CheckSave
  <2>1. saving' = [saving EXCEPT !.at = IF SaveAllowed THEN "checked" ELSE "failed",
                                 !.folder = root.folder]
    BY <1>10 DEF CheckSave
  <2>2. saving' = [at |-> IF SaveAllowed THEN "checked" ELSE "failed", doc |-> saving.doc,
                   folder |-> root.folder, raced |-> saving.raced, closed |-> saving.closed]
    BY <1>0, <2>1 DEF FilesShape
  <2>3. FilesShape'
    BY <1>0, <1>10, <2>2 DEF CheckSave, FilesShape
  <2>4. SaveAllowed => saving.doc.home = root.folder /\ disk[root.folder] = saving.doc.version
    BY <1>0 DEF SaveAllowed, AllAtHome, AtHome
  <2> QED BY <1>10, <2>2, <2>3, <2>4
    DEF CheckSave, FInv, AllAtHome, AtHome, CheckedAtHome, SavesReplaceTheirBase
<1>11. CASE WriteSave
  <2>1. /\ saving' = [saving EXCEPT !.at = "written", !.raced = FALSE]
        /\ disk' = [disk EXCEPT ![saving.folder] = saving.doc.text]
    BY <1>11 DEF WriteSave
  <2>2. saving.doc.text \in Versions
    BY <1>0 DEF FilesShape, Docs
  <2>3. FilesShape'
    BY <1>0, <1>11, <2>1, <2>2 DEF WriteSave, FilesShape
  <2>4. saving'.at = "written" /\ saving'.doc = saving.doc /\ saving'.folder = saving.folder
    BY <1>0, <2>1 DEF FilesShape
  <2> QED BY <1>11, <2>3, <2>4
    DEF WriteSave, FInv, AllAtHome, AtHome, CheckedAtHome, SavesReplaceTheirBase
<1>12. CASE AnswerSave
  <2>1. doc' \in Docs /\ AtHome(doc')
    <3>1. CASE doc' = doc
      BY <1>0, <3>1 DEF FilesShape, AllAtHome
    <3>2. CASE /\ saving.at = "written"
               /\ doc' = [doc EXCEPT !.version = saving.doc.text, !.rev = saving.doc.rev,
                                     !.home = saving.folder,
                                     !.saved = IF saving.closed THEN @ ELSE saving.doc.text]
      <4>1. saving.folder = saving.doc.home /\ AtHome(saving.doc)
        BY <3>2 DEF FInv, AllAtHome, CheckedAtHome
      <4>2. saving.doc \in Docs /\ doc \in Docs /\ saving.folder \in Directories
        BY <1>0 DEF FilesShape
      <4> QED BY <3>2, <4>1, <4>2 DEF Docs, AtHome
    <3> QED BY <1>12, <3>1, <3>2 DEF AnswerSave
  <2>2. /\ NoSave \in [at : {"none", "sent", "checked", "failed", "written"}, doc : Docs,
                       folder : Directories, raced : BOOLEAN, closed : BOOLEAN]
        /\ NoSave.at = "none" /\ AtHome(NoSave.doc)
    BY <1>0, NoDocAtHome DEF NoSave, Docs
  <2> QED BY <1>12, <2>1, <2>2
    DEF AnswerSave, FInv, FilesShape, AllAtHome, AtHome, CheckedAtHome, SavesReplaceTheirBase
<1> QED
  BY <1>1, <1>2, <1>3, <1>4, <1>5, <1>6, <1>7, <1>8, <1>9, <1>10, <1>11, <1>12
  DEF FilesNext

(* Whatever other programs write, the user types, closes and opens again,  *)
(* and folders the workspace gets while a save is under way                *)
(* (save_text_file_in_root): it is written to the folder of its document   *)
(* and over what the document is based on, but for the window between      *)
(* check and rename.                                                       *)
THEOREM SavesStayAtHome == FilesSpec => []SavesReplaceTheirBase
<1>1. FInv => SavesReplaceTheirBase
  BY DEF FInv
<1> QED BY <1>1, FInvInit, FInvNext, PTL DEF FilesSpec

-----------------------------------------------------------------------------
(* Unsaved text is kept.                                                   *)
(*                                                                         *)
(* The property speaks of an editor that rests.  What makes it inductive   *)
(* is what is on its way there: while syncs are under way the last one     *)
(* carries the unsaved text or was sent during a switch; a folder that was *)
(* left has no snapshot, or is one where a step went wrong; and once the   *)
(* syncs sent before a switch were waited for, the ones that remain were   *)
(* sent during it, as are those sent before snapshots are restored.        *)

Phases == {"restoring", "idle", "clearing", "cleared", "switched", "closing"}
SnapshotTexts == UnsavedTexts \cup {0}

RecoveryShape ==
  /\ folder \in [at : Homes, opened : Nat, late : BOOLEAN]
  /\ kept \in [Homes -> SnapshotTexts]
  /\ unsaved \in SnapshotTexts
  /\ overdue \subseteq SnapshotTexts
  /\ syncs \in Seq([text : SnapshotTexts, sure : BOOLEAN])
  /\ editor \in [phase : Phases, timer : BOOLEAN, ahead : Nat]

(* Syncs after the first n were sent during a switch.                      *)
UnsureAfter(n) == \A i \in 1..Len(syncs) : i > n => ~syncs[i].sure

(* The last sync under way will leave what is unsaved.                     *)
LastSyncTells ==
  editor.phase = "idle" /\ ~editor.timer /\ syncs # <<>> /\ syncs[Len(syncs)].sure
    => syncs[Len(syncs)].text = SnapshotOf(unsaved)

LeftFoldersEmpty == \A f \in Homes \ {folder.at} : kept[f] = 0 \/ f \in uncertain

SwitchesClean ==
  /\ editor.phase = "restoring" => UnsureAfter(0)
  /\ editor.phase = "clearing" => UnsureAfter(editor.ahead)
  /\ editor.phase \in {"cleared", "switched"} =>
       UnsureAfter(0) /\ (kept[folder.at] = 0 \/ folder.at \in uncertain)

RInv ==
  /\ RecoveryShape
  /\ LastSyncTells
  /\ LeftFoldersEmpty
  /\ SwitchesClean
  /\ UnsavedTextIsKept

(* What Head and Tail leave of a queue, and what Append puts there.        *)
LEMMA QueueFacts ==
  ASSUME NEW S, NEW q \in Seq(S)
  PROVE  /\ Len(q) \in Nat
         /\ q # <<>> => /\ Head(q) = q[1] /\ Head(q) \in S /\ Len(q) > 0
                        /\ Tail(q) \in Seq(S) /\ Len(Tail(q)) = Len(q) - 1
                        /\ \A i \in 1..Len(Tail(q)) : Tail(q)[i] = q[i + 1]
                        /\ (Tail(q) = <<>>) <=> (Len(q) = 1)
         /\ \A e \in S : /\ Append(q, e) \in Seq(S) /\ Len(Append(q, e)) = Len(q) + 1
                         /\ Append(q, e) # <<>> /\ Append(q, e)[Len(q) + 1] = e
                         /\ \A i \in 1..Len(q) : Append(q, e)[i] = q[i]
<1>1. Len(q) \in Nat
  OBVIOUS
<1>2. ASSUME q # <<>>
      PROVE  /\ Head(q) = q[1] /\ Head(q) \in S /\ Len(q) > 0
             /\ Tail(q) \in Seq(S) /\ Len(Tail(q)) = Len(q) - 1
             /\ \A i \in 1..Len(Tail(q)) : Tail(q)[i] = q[i + 1]
  BY <1>2
<1>3. ASSUME q # <<>> PROVE (Tail(q) = <<>>) <=> (Len(q) = 1)
  <2>1. Tail(q) \in Seq(S) /\ Len(Tail(q)) = Len(q) - 1
    BY <1>2, <1>3
  <2>2. \A seq \in Seq(S) : seq # <<>> => Len(seq) # 0
    BY EmptySeq
  <2>3. Tail(q) # <<>> => Len(Tail(q)) # 0
    BY <2>1, <2>2
  <2>4. Tail(q) = <<>> => Len(Tail(q)) = 0
    BY EmptySeq, Zenon
  <2> QED BY <1>1, <2>1, <2>3, <2>4
<1>4. ASSUME NEW e \in S
      PROVE  /\ Append(q, e) \in Seq(S) /\ Len(Append(q, e)) = Len(q) + 1
             /\ Append(q, e) # <<>> /\ Append(q, e)[Len(q) + 1] = e
             /\ \A i \in 1..Len(q) : Append(q, e)[i] = q[i]
  OBVIOUS
<1> QED BY <1>1, <1>2, <1>3, <1>4

(* What a sync leaves in the table.                                        *)
LEMMA ReplacedFacts ==
  ASSUME RecoveryShape, NEW text \in SnapshotTexts, NEW texts \in Replaced(text)
  PROVE  /\ texts \in [Homes -> SnapshotTexts] /\ texts[folder.at] = text
         /\ \A f \in Homes \ {folder.at} : texts[f] \in {kept[f], 0}
<1>1. kept \in [Homes -> SnapshotTexts] /\ folder.at \in Homes /\ 0 \in SnapshotTexts
  BY DEF RecoveryShape, SnapshotTexts
<1>2. PICK expired \in SUBSET (Homes \ {folder.at}) :
        texts = [f \in Homes |-> IF f \in expired THEN 0
                                 ELSE [kept EXCEPT ![folder.at] = text][f]]
  BY DEF Replaced, Pruned
<1> QED BY <1>1, <1>2

LEMMA SnapshotTyped == ASSUME NEW text \in SnapshotTexts PROVE SnapshotOf(text) \in SnapshotTexts
BY DEF SnapshotOf, SnapshotTexts

(* A sync that is sent tells what is unsaved.                              *)
LEMMA SendKeeps ==
  ASSUME RInv, NEW text \in SnapshotTexts, SendSync(text),
         folder' = folder, kept' = kept, overdue' = overdue, uncertain' = uncertain,
         unsaved' = text,
         \/ editor' = editor
         \/ editor' = [editor EXCEPT !.timer = FALSE]
  PROVE  RInv'
<1> DEFINE e == [text |-> SnapshotOf(text), sure |-> editor.phase = "idle"]
<1>1. e \in [text : SnapshotTexts, sure : BOOLEAN] /\ e.text = SnapshotOf(text)
      /\ (e.sure <=> editor.phase = "idle")
  BY SnapshotTyped
<1>2. syncs' = Append(syncs, e) /\ syncs \in Seq([text : SnapshotTexts, sure : BOOLEAN])
  BY DEF SendSync, RInv, RecoveryShape
<1> HIDE DEF e
<1>3. /\ syncs' \in Seq([text : SnapshotTexts, sure : BOOLEAN]) /\ syncs' # <<>>
      /\ Len(syncs) \in Nat /\ Len(syncs') = Len(syncs) + 1 /\ syncs'[Len(syncs')] = e
      /\ \A i \in 1..Len(syncs) : syncs'[i] = syncs[i]
  BY <1>1, <1>2, QueueFacts
<1>4. /\ editor'.phase = editor.phase /\ editor'.ahead = editor.ahead
      /\ editor' \in [phase : Phases, timer : BOOLEAN, ahead : Nat]
  BY DEF RInv, RecoveryShape
<1>5. RecoveryShape'
  BY <1>3, <1>4 DEF RInv, RecoveryShape
<1>6. LastSyncTells'
  BY <1>1, <1>3 DEF LastSyncTells
<1>7. ASSUME NEW n \in Nat, UnsureAfter(n), editor.phase # "idle" PROVE UnsureAfter(n)'
  BY <1>1, <1>3, <1>7 DEF UnsureAfter
<1>8. SwitchesClean'
  BY <1>4, <1>7 DEF RInv, RecoveryShape, SwitchesClean
<1> QED BY <1>3, <1>5, <1>6, <1>8 DEF RInv, LeftFoldersEmpty, UnsavedTextIsKept

(* The answer of a sync: what is true of the rest of the queue.            *)
LEMMA TailKeeps ==
  ASSUME RInv, syncs # <<>>, syncs' = Tail(syncs), editor' = Answered,
         folder' = folder, unsaved' = unsaved, uncertain \ {folder.at} \subseteq uncertain',
         kept' \in [Homes -> SnapshotTexts], overdue' \subseteq SnapshotTexts,
         \A f \in Homes \ {folder.at} : kept'[f] \in {kept[f], 0},
         \/ folder.at \in uncertain'
         \/ Head(syncs).sure /\ kept'[folder.at] = Head(syncs).text
  PROVE  RInv'
<1>1. /\ syncs \in Seq([text : SnapshotTexts, sure : BOOLEAN])
      /\ editor \in [phase : Phases, timer : BOOLEAN, ahead : Nat]
  BY DEF RInv, RecoveryShape
<1>2. /\ Len(syncs) \in Nat /\ Len(syncs) > 0 /\ Head(syncs) = syncs[1]
      /\ syncs' \in Seq([text : SnapshotTexts, sure : BOOLEAN]) /\ Len(syncs') = Len(syncs) - 1
      /\ \A i \in 1..Len(syncs') : syncs'[i] = syncs[i + 1]
      /\ (syncs' = <<>>) <=> (Len(syncs) = 1)
  BY <1>1, QueueFacts
<1>3. /\ editor'.phase = editor.phase /\ editor'.timer = editor.timer
      /\ editor'.ahead = (IF editor.ahead = 0 THEN 0 ELSE editor.ahead - 1)
      /\ editor' \in [phase : Phases, timer : BOOLEAN, ahead : Nat]
  BY <1>1 DEF Answered
<1>4. RecoveryShape'
  BY <1>2, <1>3 DEF RInv, RecoveryShape
<1>5. LastSyncTells'
  BY <1>2, <1>3 DEF RInv, LastSyncTells
<1>6. LeftFoldersEmpty'
  BY DEF RInv, LeftFoldersEmpty
<1>7. ASSUME NEW n \in Nat, NEW m \in Nat, m = (IF n = 0 THEN 0 ELSE n - 1), UnsureAfter(n)
      PROVE  UnsureAfter(m)'
  BY <1>2, <1>7 DEF UnsureAfter
<1>8. editor.phase \in {"cleared", "switched"} => folder.at \in uncertain'
  <2>1. UnsureAfter(0) => ~Head(syncs).sure
    BY <1>2 DEF UnsureAfter
  <2> QED BY <2>1 DEF RInv, SwitchesClean
<1>9. SwitchesClean'
  <2>2. editor.phase = "clearing" => UnsureAfter(editor.ahead)'
    BY <1>1, <1>2, <1>3 DEF RInv, SwitchesClean, UnsureAfter
  <2>3. editor.phase \in {"restoring", "cleared", "switched"} => UnsureAfter(0)'
    BY <1>7 DEF RInv, SwitchesClean
  <2> QED BY <1>3, <1>8, <2>2, <2>3 DEF SwitchesClean, UnsureAfter
<1>10. UnsavedTextIsKept'
  BY <1>2, <1>3 DEF RInv, LastSyncTells, UnsavedTextIsKept
<1> QED BY <1>4, <1>5, <1>6, <1>9, <1>10 DEF RInv

(* The editor goes on with another phase; nothing else changes.            *)
LEMMA LeaveKeeps ==
  ASSUME RInv, NEW phase \in {"clearing", "closing"}, Leave(phase)
  PROVE  RInv'
<1>1. editor' = [phase |-> phase, timer |-> FALSE, ahead |-> Len(syncs)]
  BY DEF Leave
<1>2. Len(syncs) \in Nat
  BY QueueFacts DEF RInv, RecoveryShape
<1>3. RecoveryShape'
  BY <1>1, <1>2 DEF Leave, RInv, RecoveryShape, Phases
<1>4. UnsureAfter(Len(syncs))'
  BY <1>2 DEF Leave, UnsureAfter
<1>5. SwitchesClean'
  BY <1>1, <1>4 DEF Leave, SwitchesClean, UnsureAfter
<1> QED BY <1>1, <1>3, <1>5 DEF Leave, RInv, LastSyncTells, LeftFoldersEmpty, UnsavedTextIsKept

(* When all syncs under way were sent during a switch, so was the last.    *)
LEMMA UnsureLast ==
  ASSUME RecoveryShape, UnsureAfter(0), syncs # <<>>
  PROVE  ~syncs[Len(syncs)].sure
<1>1. Len(syncs) \in Nat /\ Len(syncs) > 0
  BY QueueFacts DEF RecoveryShape
<1> QED BY <1>1 DEF UnsureAfter

(* The snapshots are restored, with a sync to come, or discarded with one. *)
LEMMA RestoreKeeps ==
  ASSUME RInv, Restore
  PROVE  RInv'
<1>0. /\ RecoveryShape /\ editor.phase = "restoring" /\ UnsureAfter(0)
      /\ editor \in [phase : Phases, timer : BOOLEAN, ahead : Nat]
      /\ syncs \in Seq([text : SnapshotTexts, sure : BOOLEAN])
      /\ UNCHANGED <<folder, overdue, uncertain>>
  BY DEF Restore, RInv, RecoveryShape, SwitchesClean
<1>1. CASE /\ unsaved = 0 /\ unsaved' \in {kept[folder.at], 0}
           /\ Restored(editor.timer \/ kept[folder.at] # 0)
           /\ UNCHANGED <<kept, syncs>>
  <2>1. editor' = [phase |-> "idle", timer |-> editor.timer \/ kept[folder.at] # 0,
                   ahead |-> editor.ahead]
    BY <1>0, <1>1 DEF Restored
  <2>2. RecoveryShape'
    BY <1>0, <1>1, <2>1 DEF RecoveryShape, Phases, SnapshotTexts
  <2>3. LastSyncTells'
    BY <1>0, <1>1, UnsureLast DEF LastSyncTells
  <2>4. UnsavedTextIsKept'
    <3>1. CASE kept[folder.at] # 0
      BY <2>1, <3>1 DEF UnsavedTextIsKept
    <3>2. CASE kept[folder.at] = 0
      BY <1>0, <1>1, <3>2 DEF UnsavedTextIsKept, SnapshotOf
    <3> QED BY <3>1, <3>2
  <2> QED BY <1>0, <1>1, <2>1, <2>2, <2>3, <2>4 DEF RInv, LeftFoldersEmpty, SwitchesClean
<1>2. CASE /\ kept[folder.at] # 0 /\ kept' \in {kept, Cleared}
           /\ SendSync(unsaved) /\ Restored(editor.timer) /\ UNCHANGED unsaved
  <2> DEFINE e == [text |-> SnapshotOf(unsaved), sure |-> FALSE]
  <2>1. e \in [text : SnapshotTexts, sure : BOOLEAN] /\ ~e.sure
    BY <1>0, SnapshotTyped DEF RecoveryShape
  <2>2. syncs' = Append(syncs, e)
    BY <1>0, <1>2 DEF SendSync
  <2> HIDE DEF e
  <2>3. /\ syncs' \in Seq([text : SnapshotTexts, sure : BOOLEAN]) /\ syncs' # <<>>
        /\ Len(syncs') = Len(syncs) + 1 /\ Len(syncs) \in Nat /\ syncs'[Len(syncs')] = e
    BY <1>0, <2>1, <2>2, QueueFacts
  <2>4. editor' = [phase |-> "idle", timer |-> editor.timer, ahead |-> editor.ahead]
    BY <1>0, <1>2 DEF Restored
  <2>5. /\ kept' \in [Homes -> SnapshotTexts]
        /\ \A f \in Homes \ {folder.at} : kept'[f] = kept[f]
    BY <1>0, <1>2 DEF Cleared, RecoveryShape, SnapshotTexts
  <2>6. RecoveryShape'
    BY <1>0, <1>2, <2>3, <2>4, <2>5 DEF RecoveryShape, Phases
  <2>7. LastSyncTells' /\ UnsavedTextIsKept'
    BY <2>1, <2>3 DEF LastSyncTells, UnsavedTextIsKept
  <2> QED BY <1>0, <2>4, <2>5, <2>6, <2>7 DEF RInv, LeftFoldersEmpty, SwitchesClean
<1> QED
  BY <1>1, <1>2 DEF Restore

LEMMA RInvInit == RecoveryInit => RInv
<1> SUFFICES ASSUME RecoveryInit PROVE RInv
  OBVIOUS
<1>1. RecoveryShape
  <2>1. folder \in [at : Homes, opened : Nat, late : BOOLEAN]
    <3>1. folder \in [at : Homes, opened : {0}, late : {FALSE}]
      BY DEF RecoveryInit
    <3>2. 0 \in Nat /\ FALSE \in BOOLEAN
      OBVIOUS
    <3>3. [at : Homes, opened : {0}, late : {FALSE}] \subseteq [at : Homes, opened : Nat, late : BOOLEAN]
      BY <3>2, Zenon
    <3> QED BY <3>1, <3>3
  <2>2. syncs \in Seq([text : SnapshotTexts, sure : BOOLEAN])
    BY DEF RecoveryInit
  <2>3. editor \in [phase : Phases, timer : BOOLEAN, ahead : Nat]
    BY DEF RecoveryInit, Restoring, Phases
  <2> QED BY <2>1, <2>2, <2>3 DEF RecoveryInit, RecoveryShape, SnapshotTexts
<1>2. UnsureAfter(0)
  BY DEF RecoveryInit, UnsureAfter
<1> QED BY <1>1, <1>2
  DEF RecoveryInit, Restoring, RInv, LastSyncTells, LeftFoldersEmpty, SwitchesClean,
      UnsavedTextIsKept

LEMMA RInvNext == RInv /\ [RecoveryNext]_recoveryVars => RInv'
<1> SUFFICES ASSUME RInv, [RecoveryNext]_recoveryVars PROVE RInv'
  OBVIOUS
<1>0. /\ RecoveryShape /\ Len(syncs) \in Nat
      /\ editor \in [phase : Phases, timer : BOOLEAN, ahead : Nat]
      /\ syncs \in Seq([text : SnapshotTexts, sure : BOOLEAN])
  BY QueueFacts DEF RInv, RecoveryShape
<1>1. CASE UNCHANGED recoveryVars
  BY <1>1 DEF recoveryVars, RInv, RecoveryShape, LastSyncTells, LeftFoldersEmpty,
              SwitchesClean, UnsureAfter, UnsavedTextIsKept
<1>2. CASE Change
  <2>1. editor'.phase = editor.phase /\ editor'.ahead = editor.ahead /\ editor'.timer = TRUE
        /\ editor' \in [phase : Phases, timer : BOOLEAN, ahead : Nat]
    BY <1>0, <1>2 DEF Change
  <2>2. RecoveryShape'
    BY <1>0, <1>2, <2>1 DEF Change, RecoveryShape, SnapshotTexts
  <2> QED BY <1>2, <2>1, <2>2
    DEF Change, Interactive, RInv, LastSyncTells, LeftFoldersEmpty, SwitchesClean,
        UnsureAfter, UnsavedTextIsKept
<1>3. CASE Saved
  <2>1. unsaved' \in SnapshotTexts
    BY <1>0, <1>3 DEF Saved, RecoveryShape, SnapshotTexts
  <2> QED BY <1>3, <2>1, SendKeeps DEF Saved
<1>4. CASE TimerFires
  <2>1. unsaved \in SnapshotTexts
    BY <1>0 DEF RecoveryShape
  <2> QED BY <1>4, <2>1, SendKeeps DEF TimerFires
<1>5. CASE Sync
  <2>0. Head(syncs) \in [text : SnapshotTexts, sure : BOOLEAN]
    BY <1>0, <1>5, QueueFacts DEF Sync
  <2>1. kept' \in Replaced(Head(syncs).text) /\ Head(syncs).text \in SnapshotTexts
    BY <1>5, <2>0 DEF Sync
  <2>2. kept' \in [Homes -> SnapshotTexts] /\ kept'[folder.at] = Head(syncs).text
        /\ \A f \in Homes \ {folder.at} : kept'[f] \in {kept[f], 0}
    BY <1>0, <2>1, ReplacedFacts
  <2> QED BY <1>0, <1>5, <2>2, TailKeeps DEF Sync, Doubt, RecoveryShape
<1>6. CASE SyncFails
  <2>0. Head(syncs) \in [text : SnapshotTexts, sure : BOOLEAN]
    BY <1>0, <1>6, QueueFacts DEF SyncFails
  <2>1. overdue' \subseteq SnapshotTexts
    BY <1>0, <1>6, <2>0 DEF SyncFails, MayBeLate, RecoveryShape
  <2> QED BY <1>0, <1>6, <2>1, TailKeeps DEF SyncFails, Doubt, RecoveryShape
<1>7. CASE LateSync
  <2>1. PICK text \in overdue : kept' \in Replaced(text)
    BY <1>7 DEF LateSync
  <2>2. text \in SnapshotTexts
    BY <1>0 DEF RecoveryShape
  <2>3. /\ kept' \in [Homes -> SnapshotTexts]
        /\ \A f \in Homes \ {folder.at} : kept'[f] \in {kept[f], 0}
    BY <1>0, <2>1, <2>2, ReplacedFacts
  <2> QED BY <1>0, <1>7, <2>3
    DEF LateSync, Doubt, RInv, RecoveryShape, LastSyncTells, LeftFoldersEmpty, SwitchesClean,
        UnsureAfter, UnsavedTextIsKept
<1>8. CASE OpenFolder
  BY <1>8, LeaveKeeps DEF OpenFolder
<1>9. CASE CloseWindow
  BY <1>9, LeaveKeeps DEF CloseWindow
<1>10. CASE ClearSnapshots
  <2>0. editor.phase = "clearing" /\ editor.ahead = 0 /\ Clear("cleared")
    BY <1>10 DEF ClearSnapshots
  <2>1. editor' = [phase |-> "cleared", timer |-> editor.timer, ahead |-> 0]
    BY <1>0, <2>0 DEF Clear
  <2>2. /\ \A f \in Homes \ {folder.at} : kept'[f] \in {kept[f], 0}
        /\ kept' \in [Homes -> SnapshotTexts]
        /\ uncertain \subseteq uncertain'
        /\ kept'[folder.at] = 0 \/ folder.at \in uncertain'
        /\ overdue' \subseteq SnapshotTexts
        /\ UNCHANGED <<folder, unsaved, syncs>>
    <3>1. 0 \in SnapshotTexts /\ kept \in [Homes -> SnapshotTexts] /\ overdue \subseteq SnapshotTexts
      BY <1>0 DEF RecoveryShape, SnapshotTexts
    <3>2. CASE kept' \in Replaced(0) /\ UNCHANGED <<overdue, uncertain>>
      <4>1. /\ kept' \in [Homes -> SnapshotTexts] /\ kept'[folder.at] = 0
            /\ \A f \in Homes \ {folder.at} : kept'[f] \in {kept[f], 0}
        BY <1>0, <3>1, <3>2, ReplacedFacts
      <4> QED BY <2>0, <3>1, <3>2, <4>1 DEF Clear
    <3>3. CASE UNCHANGED kept /\ MayBeLate(0) /\ Doubt({folder.at})
      BY <2>0, <3>1, <3>3 DEF Clear, MayBeLate, Doubt
    <3> QED BY <2>0, <3>2, <3>3 DEF Clear
  <2>3. UnsureAfter(0)'
    BY <2>0, <2>2 DEF RInv, SwitchesClean, UnsureAfter
  <2> QED BY <1>0, <2>1, <2>2, <2>3
    DEF RInv, RecoveryShape, Phases, LastSyncTells, LeftFoldersEmpty,
        SwitchesClean, UnsavedTextIsKept
<1>11. CASE SetRootFolder
  <2>1. PICK f \in Homes : folder' = [folder EXCEPT !.at = f, !.opened = @ + 1]
    BY <1>11 DEF SetRootFolder
  <2>0. folder' \in [at : Homes, opened : Nat, late : BOOLEAN] /\ folder'.at = f
    <3>1. folder \in [at : Homes, opened : Nat, late : BOOLEAN]
      BY <1>0 DEF RecoveryShape
    <3>2. folder' = [at |-> f, opened |-> folder.opened + 1, late |-> folder.late]
      BY <2>1, <3>1
    <3> QED BY <3>1, <3>2
  <2>2. editor' = [phase |-> "switched", timer |-> editor.timer, ahead |-> editor.ahead]
    BY <1>0, <1>11 DEF SetRootFolder
  <2>3. \A g \in Homes : kept[g] = 0 \/ g \in uncertain
    BY <1>11 DEF SetRootFolder, RInv, SwitchesClean, LeftFoldersEmpty
  <2>4. UnsureAfter(0)'
    BY <1>11 DEF SetRootFolder, RInv, SwitchesClean, UnsureAfter
  <2> QED BY <1>0, <1>11, <2>0, <2>2, <2>3, <2>4
    DEF SetRootFolder, RInv, RecoveryShape, Phases, LastSyncTells, LeftFoldersEmpty,
        SwitchesClean, UnsavedTextIsKept
<1>12. CASE DropDocuments
  <2>1. editor' = [phase |-> "idle", timer |-> editor.timer, ahead |-> editor.ahead]
    BY <1>0, <1>12 DEF DropDocuments
  <2>2. UnsureAfter(0) /\ (kept[folder.at] = 0 \/ folder.at \in uncertain)
    BY <1>12 DEF DropDocuments, RInv, SwitchesClean
  <2>3. LastSyncTells'
    BY <1>0, <1>12, <2>2, UnsureLast DEF DropDocuments, LastSyncTells
  <2>4. UnsavedTextIsKept'
    BY <1>12, <2>2 DEF DropDocuments, UnsavedTextIsKept, SnapshotOf
  <2> QED BY <1>0, <1>12, <2>1, <2>2, <2>3, <2>4
    DEF DropDocuments, RInv, RecoveryShape, Phases, SnapshotTexts, LeftFoldersEmpty, SwitchesClean
<1>13. CASE EndProcess
  <2>1. PICK f \in Homes : /\ folder' = [at |-> f, opened |-> 0, late |-> FALSE]
                           /\ Doubt({folder.at} \ {f})
    BY <1>13 DEF EndProcess
  <2>2. /\ kept' \in [Homes -> SnapshotTexts]
        /\ \A g \in Homes \ {folder.at} : kept'[g] \in {kept[g], 0}
        /\ folder' \in [at : Homes, opened : Nat, late : BOOLEAN] /\ folder'.at = f
    <3>1. PICK texts \in {kept, Cleared} : kept' \in Pruned(texts, Homes)
      BY <1>13 DEF EndProcess
    <3>2. texts \in [Homes -> SnapshotTexts] /\ \A g \in Homes \ {folder.at} : texts[g] = kept[g]
      BY <1>0, <3>1 DEF Cleared, RecoveryShape, SnapshotTexts
    <3>3. kept' \in [Homes -> SnapshotTexts] /\ \A g \in Homes : kept'[g] \in {texts[g], 0}
      BY <3>1, <3>2 DEF Pruned, SnapshotTexts
    <3> QED BY <2>1, <3>2, <3>3
  <2>3. \A g \in Homes \ {f} : kept'[g] = 0 \/ g \in uncertain'
    BY <2>1, <2>2 DEF Doubt, RInv, LeftFoldersEmpty
  <2>4. UnsureAfter(0)'
    BY <1>13 DEF EndProcess, UnsureAfter
  <2> QED BY <1>0, <1>13, <2>2, <2>3, <2>4
    DEF EndProcess, Restoring, RInv, RecoveryShape, Phases, SnapshotTexts, LastSyncTells,
        LeftFoldersEmpty, SwitchesClean, UnsavedTextIsKept
<1>14. CASE Restore
  BY <1>14, RestoreKeeps
<1>15. CASE SwitchFails
  <2>1. editor' = [phase |-> "idle", timer |-> editor.timer, ahead |-> editor.ahead]
    BY <1>0, <1>15 DEF SwitchFails
  <2>2. /\ UnsureAfter(0) /\ folder.at \in uncertain' /\ uncertain \subseteq uncertain'
        /\ UNCHANGED <<unsaved, kept, syncs, overdue>>
    BY <1>15 DEF SwitchFails, Doubt, RInv, SwitchesClean
  <2>3. folder' \in [at : Homes, opened : Nat, late : BOOLEAN] /\ folder'.at = folder.at
    BY <1>0, <1>15 DEF SwitchFails, RecoveryShape
  <2>4. LastSyncTells'
    BY <1>0, <2>2, UnsureLast DEF LastSyncTells
  <2> QED BY <1>0, <2>1, <2>2, <2>3, <2>4
    DEF RInv, RecoveryShape, Phases, LeftFoldersEmpty, SwitchesClean, UnsavedTextIsKept
<1>16. CASE LateRootFolder
  <2>1. PICK f \in Homes : folder' = [folder EXCEPT !.at = f, !.late = FALSE] /\ Doubt({folder.at, f})
    BY <1>16 DEF LateRootFolder
  <2>2. /\ folder' \in [at : Homes, opened : Nat, late : BOOLEAN] /\ folder'.at = f
        /\ uncertain \subseteq uncertain' /\ folder.at \in uncertain' /\ f \in uncertain'
    BY <1>0, <2>1 DEF RecoveryShape, Doubt
  <2>3. UNCHANGED <<unsaved, kept, syncs, overdue, editor>>
    BY <1>16 DEF LateRootFolder
  <2> QED BY <1>0, <2>2, <2>3
    DEF RInv, RecoveryShape, LastSyncTells, LeftFoldersEmpty, SwitchesClean, UnsureAfter,
        UnsavedTextIsKept
<1>17. CASE RestoreFails
  <2>1. PICK f \in Homes, late \in BOOLEAN :
          folder' = [folder EXCEPT !.at = f, !.late = late] /\ Doubt({folder.at, f})
    BY <1>17 DEF RestoreFails
  <2>2. /\ folder' \in [at : Homes, opened : Nat, late : BOOLEAN] /\ folder'.at = f
        /\ uncertain \subseteq uncertain' /\ folder.at \in uncertain' /\ f \in uncertain'
    BY <1>0, <2>1 DEF RecoveryShape, Doubt
  <2>3. /\ editor' = [phase |-> "idle", timer |-> editor.timer, ahead |-> editor.ahead]
        /\ UNCHANGED <<unsaved, kept, syncs, overdue>> /\ UnsureAfter(0)
    BY <1>0, <1>17 DEF RestoreFails, Restored, RInv, SwitchesClean
  <2>4. LastSyncTells'
    BY <1>0, <2>3, UnsureLast DEF LastSyncTells
  <2> QED BY <1>0, <2>2, <2>3, <2>4
    DEF RInv, RecoveryShape, Phases, LeftFoldersEmpty, SwitchesClean, UnsavedTextIsKept
<1> QED
  BY <1>1, <1>2, <1>3, <1>4, <1>5, <1>6, <1>7, <1>8, <1>9, <1>10, <1>11, <1>12, <1>13, <1>14,
     <1>15, <1>16, <1>17
  DEF RecoveryNext

(* Whatever the user types, saves, opens and closes, in whatever folders,  *)
(* and whenever the process ends: at rest exactly the unsaved text within  *)
(* the size limit is kept for the folder that is open, but where a sync, a *)
(* switch or a restore failed or was late or a sync met a switch, until    *)
(* the next sync (sync_workspace, scheduleRecoverySync).                   *)
THEOREM UnsavedTextSurvives == RecoverySpec => []UnsavedTextIsKept
<1>1. RInv => UnsavedTextIsKept
  BY DEF RInv
<1> QED BY <1>1, RInvInit, RInvNext, PTL DEF RecoverySpec

-----------------------------------------------------------------------------
(* The document of a language server.                                      *)
(*                                                                         *)
(* What a call writes is made from the text recorded when it took the      *)
(* lock: only one call has it, and nothing is recorded meanwhile.          *)

SyncRecords ==
  [at : {"none", "called", "locked"}, text : Nat \X Nat, base : Nat \X Nat]

DocumentInv ==
  /\ sync \in [SyncCalls -> SyncRecords]
  /\ tab \in [n : Nat, open : BOOLEAN, revision : Nat]
  /\ opened \in Nat \X Nat /\ closings \in Nat
  /\ \A c \in SyncCalls : sync[c].at = "locked" =>
       /\ sync[c].base = opened
       /\ \A d \in SyncCalls : sync[d].at = "locked" => d = c
  /\ ServerHoldsOpenedText

LEMMA DocumentInitially == LanguageInit => DocumentInv
BY DEF LanguageInit, DocumentInv, SyncRecords, NoSync, Nothing, ServerHoldsOpenedText

LEMMA SyncCalled ==
  ASSUME DocumentInv, NEW c \in SyncCalls, CallSync(c)
  PROVE  DocumentInv'
<1> DEFINE r == [NoSync EXCEPT !.at = "called", !.text = Text]
<1>1. NoSync \in SyncRecords /\ Text \in Nat \X Nat
  BY DEF DocumentInv, NoSync, Text, Nothing, SyncRecords
<1>2. r \in SyncRecords /\ r.at = "called"
  BY <1>1 DEF SyncRecords
<1> HIDE DEF r
<1>3. /\ sync' = [sync EXCEPT ![c] = r]
      /\ UNCHANGED <<tab, opened, mirror, closings, crossed>>
  BY DEF CallSync, r
<1>4. sync' \in [SyncCalls -> SyncRecords]
  BY <1>2, <1>3 DEF DocumentInv
<1>5. \A d \in SyncCalls : sync'[d].at = "locked" => d # c /\ sync'[d] = sync[d]
  BY <1>2, <1>3 DEF DocumentInv
<1> QED
  BY <1>3, <1>4, <1>5 DEF DocumentInv, ServerHoldsOpenedText

LEMMA SyncLocked ==
  ASSUME DocumentInv, NEW c \in SyncCalls, LockSync(c)
  PROVE  DocumentInv'
<1>1. PICK r \in SyncRecords :
        sync' = [sync EXCEPT ![c] = r] /\ (r.at = "locked" => r.base = opened)
  <2>1. CASE sync' = [sync EXCEPT ![c] = NoSync]
    <3>1. NoSync \in SyncRecords /\ NoSync.at = "none"
      BY DEF NoSync, Nothing, SyncRecords
    <3> QED
      BY <2>1, <3>1
  <2>2. CASE sync' = [sync EXCEPT ![c] = [@ EXCEPT !.at = "locked", !.base = opened]]
    <3> DEFINE r == [sync[c] EXCEPT !.at = "locked", !.base = opened]
    <3>1. sync' = [sync EXCEPT ![c] = r]
      BY <2>2 DEF DocumentInv
    <3>2. sync[c] \in SyncRecords /\ opened \in Nat \X Nat
      BY DEF DocumentInv
    <3>3. r \in SyncRecords /\ r.base = opened
      BY <3>2 DEF SyncRecords
    <3> HIDE DEF r
    <3> QED
      BY <3>1, <3>3
  <2> QED
    BY <2>1, <2>2 DEF LockSync
<1>2. /\ UNCHANGED <<tab, opened, mirror, closings, crossed>>
      /\ \A d \in SyncCalls : sync[d].at # "locked"
  BY DEF LockSync, Unlocked
<1>3. sync' \in [SyncCalls -> SyncRecords]
  BY <1>1 DEF DocumentInv
<1>4. \A d \in SyncCalls : sync'[d].at = "locked" => d = c /\ sync'[d].base = opened
  BY <1>1, <1>2 DEF DocumentInv
<1> QED
  BY <1>2, <1>3, <1>4 DEF DocumentInv, ServerHoldsOpenedText

LEMMA SyncWritten ==
  ASSUME DocumentInv, NEW c \in SyncCalls, WriteSync(c)
  PROVE  DocumentInv'
<1>1. /\ sync[c].at = "locked" /\ sync[c].base = opened /\ sync[c].text \in Nat \X Nat
      /\ sync' = [sync EXCEPT ![c] = NoSync]
      /\ UNCHANGED <<tab, closings, crossed>>
  BY DEF WriteSync, DocumentInv, SyncRecords
<1>2. sync' \in [SyncCalls -> SyncRecords]
  BY <1>1 DEF DocumentInv, NoSync, Nothing, SyncRecords
<1>3. \A d \in SyncCalls : sync'[d].at # "locked"
  BY <1>1 DEF DocumentInv, NoSync
<1>4. opened' \in Nat \X Nat /\ ServerHoldsOpenedText'
  <2>1. CASE mirror' = Received(sync[c]) /\ opened' = sync[c].text
    <3>1. mirror = opened => mirror' = opened'
      BY <1>1, <2>1 DEF Received
    <3> QED
      BY <1>1, <2>1, <3>1 DEF DocumentInv, ServerHoldsOpenedText
  <2>2. CASE UNCHANGED <<mirror, opened>>
    BY <1>1, <2>2 DEF DocumentInv, ServerHoldsOpenedText
  <2> QED
    BY <2>1, <2>2 DEF WriteSync
<1> QED
  BY <1>1, <1>2, <1>3, <1>4 DEF DocumentInv

LEMMA DocumentStep ==
  ASSUME DocumentInv, DocumentNext
  PROVE  DocumentInv'
<1>1. CASE OpenTab
  BY <1>1 DEF OpenTab, DocumentInv, ServerHoldsOpenedText
<1>2. CASE TypeText
  BY <1>2 DEF TypeText, DocumentInv, ServerHoldsOpenedText
<1>3. CASE CloseTab
  <2>1. /\ closings \in Nat /\ closings' = closings + 1
        /\ opened' \in Nat \X Nat /\ UNCHANGED sync
        /\ \A c \in SyncCalls : sync[c].at # "locked"
    BY <1>3 DEF CloseTab, Unlocked, Nothing, DocumentInv
  <2>2. tab' \in [n : Nat, open : BOOLEAN, revision : Nat]
    BY <1>3 DEF CloseTab, DocumentInv
  <2>3. closings' \in Nat /\ closings' > 0
    BY <2>1
  <2> QED
    BY <2>1, <2>2, <2>3 DEF DocumentInv, ServerHoldsOpenedText
<1>4. CASE NotifyClose
  <2>1. /\ closings \in Nat /\ closings > 0 /\ closings' = closings - 1
        /\ UNCHANGED <<tab, sync, opened>>
        /\ mirror' = Nothing /\ crossed' = (crossed \/ opened # Nothing)
    BY <1>4 DEF NotifyClose, DocumentInv
  <2>2. closings' \in Nat
    BY <2>1
  <2>3. crossed' \/ mirror' = opened'
    BY <2>1
  <2> QED
    BY <2>1, <2>2, <2>3 DEF DocumentInv, ServerHoldsOpenedText
<1> QED
  BY <1>1, <1>2, <1>3, <1>4, SyncCalled, SyncLocked, SyncWritten DEF DocumentNext

-----------------------------------------------------------------------------
(* Requests to a language server.                                          *)
(*                                                                         *)
(* A request is known by its id alone, from the caller through the server  *)
(* and the pipe: everything on the way to a caller has the id of the       *)
(* request it is about, so that a message which finds a caller by its id   *)
(* is about that caller's request.                                         *)

ClientRecords == [next : Nat, pending : SUBSET Nat, reading : BOOLEAN]
CallerRecords ==
  [id : Nat, of : Nat, got : {"none", "waiting", "answer", "null", "error", "timeout"}]
AskedRequests == [id : Nat, of : Nat]
ByItsId(a) == a.id = a.of
Passing == {m \in [kind : {"request", "response"}, id : Nat, of : Nat] :
              m.kind = "response" => m.id = m.of}

RequestInv ==
  /\ client \in ClientRecords
  /\ caller \in [Callers -> CallerRecords]
  /\ \A c \in Callers : caller[c].got = "waiting" => ByItsId(caller[c])
  /\ asked \subseteq {a \in AskedRequests : ByItsId(a)}
  /\ stdout \in Seq(Passing)

LEMMA RequestsInitially == LanguageInit => RequestInv
BY DEF LanguageInit, RequestInv, NoRequest, ClientRecords, CallerRecords

(* A caller's record changes for one that knows its request by its id, or  *)
(* does not wait.                                                          *)
LEMMA CallerChanged ==
  ASSUME RequestInv, NEW c \in Callers, NEW r \in CallerRecords,
         r.got = "waiting" => ByItsId(r),
         caller' = [caller EXCEPT ![c] = r]
  PROVE  /\ caller' \in [Callers -> CallerRecords]
         /\ \A d \in Callers : caller'[d].got = "waiting" => ByItsId(caller'[d])
<1>1. caller' \in [Callers -> CallerRecords]
  BY DEF RequestInv
<1>2. \A d \in Callers : IF d = c THEN caller'[d] = r ELSE caller'[d] = caller[d]
  BY DEF RequestInv
<1> QED
  BY <1>1, <1>2 DEF RequestInv, ByItsId

LEMMA RequestSent ==
  ASSUME RequestInv, NEW c \in Callers, Request(c)
  PROVE  RequestInv'
<1>1. /\ client.next \in Nat /\ client.pending \in SUBSET Nat /\ client \in ClientRecords
      /\ UNCHANGED stdout
  BY DEF RequestInv, Request, ClientRecords
<1>2. CASE /\ client' = [client EXCEPT !.next = @ + 1, !.pending = @ \cup {NextId}]
           /\ caller' = [caller EXCEPT ![c] = [id |-> NextId, of |-> client.next, got |-> "waiting"]]
           /\ asked' = asked \cup {[id |-> NextId, of |-> client.next]}
  <2> DEFINE r == [id |-> NextId, of |-> client.next, got |-> "waiting"]
  <2>1. r \in CallerRecords /\ ByItsId(r)
    BY <1>1 DEF NextId, CallerRecords, ByItsId
  <2>2. client.next + 1 \in Nat /\ client.pending \cup {client.next} \in SUBSET Nat
    BY <1>1
  <2>3. client' \in ClientRecords
    BY <1>1, <1>2, <2>2 DEF NextId, ClientRecords
  <2>4. asked' \subseteq {a \in AskedRequests : ByItsId(a)}
    BY <1>1, <1>2 DEF RequestInv, NextId, AskedRequests, ByItsId
  <2>5. caller' = [caller EXCEPT ![c] = r]
    BY <1>2
  <2> HIDE DEF r
  <2>6. /\ caller' \in [Callers -> CallerRecords]
        /\ \A d \in Callers : caller'[d].got = "waiting" => ByItsId(caller'[d])
    BY <2>1, <2>5, CallerChanged
  <2> QED
    BY <1>1, <2>3, <2>4, <2>6 DEF RequestInv
<1>3. CASE /\ client' = [client EXCEPT !.next = @ + 1]
           /\ caller' = [caller EXCEPT ![c] = [NoRequest EXCEPT !.got = "error"]]
           /\ UNCHANGED asked
  <2> DEFINE r == [NoRequest EXCEPT !.got = "error"]
  <2>1. r \in CallerRecords /\ r.got # "waiting"
    BY DEF NoRequest, CallerRecords
  <2>2. client.next + 1 \in Nat
    BY <1>1
  <2>3. client' \in ClientRecords
    BY <1>1, <1>3, <2>2 DEF ClientRecords
  <2>4. caller' = [caller EXCEPT ![c] = r]
    BY <1>3
  <2> HIDE DEF r
  <2>5. /\ caller' \in [Callers -> CallerRecords]
        /\ \A d \in Callers : caller'[d].got = "waiting" => ByItsId(caller'[d])
    BY <2>1, <2>4, CallerChanged
  <2> QED
    BY <1>1, <1>3, <2>3, <2>5 DEF RequestInv
<1> QED
  BY <1>2, <1>3 DEF Request

LEMMA MessageSent ==
  ASSUME RequestInv, NEW m \in Passing, Send(m)
  PROVE  stdout' \in Seq(Passing)
BY DEF RequestInv, Send

LEMMA MessageRead ==
  ASSUME RequestInv, ReadMessage
  PROVE  RequestInv'
<1> DEFINE message == Head(stdout)
<1>1. message \in Passing /\ stdout' \in Seq(Passing) /\ UNCHANGED asked
  BY DEF ReadMessage, RequestInv
<1> HIDE DEF message
<1>2. CASE message.id \in client.pending
  <2>1. /\ client' = [client EXCEPT !.pending = @ \ {message.id}]
        /\ caller' = [c \in Callers |->
             IF c \in Waiting(message.id) THEN
               [caller[c] EXCEPT !.got =
                 IF message.kind = "request" THEN "null"
                 ELSE IF message.of = caller[c].of THEN "answer" ELSE "another's"]
             ELSE caller[c]]
    BY <1>2 DEF ReadMessage, message
  <2>2. ASSUME NEW c \in Callers
        PROVE  /\ caller'[c] \in CallerRecords
               /\ caller'[c].got = "waiting" => ByItsId(caller'[c])
    <3>1. CASE c \in Waiting(message.id)
      <4>1. caller[c].of = message.id
        BY <3>1 DEF Waiting, RequestInv, ByItsId, CallerRecords
      <4>2. message.kind = "request" \/ message.of = caller[c].of
        BY <1>1, <4>1 DEF Passing
      <4>3. PICK got \in {"null", "answer"} : caller'[c] = [caller[c] EXCEPT !.got = got]
        BY <2>1, <3>1, <4>2
      <4>4. caller[c] \in CallerRecords
        BY DEF RequestInv
      <4> QED
        BY <4>3, <4>4 DEF CallerRecords
    <3>2. CASE c \notin Waiting(message.id)
      BY <2>1, <3>2 DEF RequestInv
    <3> QED
      BY <3>1, <3>2
  <2>3. client' \in ClientRecords
    BY <2>1 DEF RequestInv, ClientRecords
  <2>4. caller' \in [Callers -> CallerRecords]
    BY <2>1, <2>2
  <2> QED
    BY <1>1, <2>2, <2>3, <2>4 DEF RequestInv
<1>3. CASE message.id \notin client.pending
  <2>1. UNCHANGED <<client, caller>>
    BY <1>3 DEF ReadMessage, message
  <2> QED
    BY <1>1, <2>1 DEF RequestInv
<1> QED
  BY <1>2, <1>3

LEMMA CallersGiveUp ==
  ASSUME RequestInv, NEW given \in {"timeout", "error"}, NEW up \in SUBSET Callers,
         caller' = [c \in Callers |-> IF c \in up THEN [caller[c] EXCEPT !.got = given] ELSE caller[c]],
         client' \in ClientRecords,
         UNCHANGED <<asked, stdout>>
  PROVE  RequestInv'
<1>1. ASSUME NEW c \in Callers
      PROVE  /\ caller'[c] \in CallerRecords
             /\ caller'[c].got = "waiting" => ByItsId(caller'[c])
  <2>1. /\ caller[c] \in CallerRecords
        /\ caller[c].got = "waiting" => ByItsId(caller[c])
    BY DEF RequestInv
  <2>2. caller'[c] = IF c \in up THEN [caller[c] EXCEPT !.got = given] ELSE caller[c]
    OBVIOUS
  <2>3. [caller[c] EXCEPT !.got = given] \in CallerRecords
    BY <2>1 DEF CallerRecords
  <2>4. [caller[c] EXCEPT !.got = given].got = given
    BY <2>1 DEF CallerRecords
  <2> QED
    BY <2>1, <2>2, <2>3, <2>4
<1>2. caller' \in [Callers -> CallerRecords]
  BY <1>1
<1> QED
  BY <1>1, <1>2 DEF RequestInv

LEMMA RequestStep ==
  ASSUME RequestInv, RequestNext
  PROVE  RequestInv'
<1>1. CASE Respond
  <2>1. PICK a \in asked :
          /\ Send([kind |-> "response", id |-> a.id, of |-> a.of])
          /\ asked' = asked \ {a}
    BY <1>1 DEF Respond
  <2>2. [kind |-> "response", id |-> a.id, of |-> a.of] \in Passing
    BY DEF RequestInv, Passing, AskedRequests, ByItsId
  <2>3. stdout' \in Seq(Passing)
    BY <2>1, <2>2, MessageSent
  <2> QED
    BY <1>1, <2>1, <2>3 DEF Respond, RequestInv
<1>2. CASE ServerAsks
  <2>1. PICK n \in Nat : Send([kind |-> "request", id |-> n, of |-> 0])
    BY <1>2, LanguageAssumption DEF ServerAsks
  <2>2. [kind |-> "request", id |-> n, of |-> 0] \in Passing
    BY DEF Passing
  <2>3. stdout' \in Seq(Passing)
    BY <2>1, <2>2, MessageSent
  <2> QED
    BY <1>2, <2>3 DEF ServerAsks, RequestInv
<1>3. CASE FailPending
  <2> DEFINE up == {c \in Callers : caller[c].got = "waiting"}
  <2>1. caller' = [c \in Callers |->
          IF c \in up THEN [caller[c] EXCEPT !.got = "error"] ELSE caller[c]]
    BY <1>3 DEF FailPending
  <2>2. /\ client' \in ClientRecords
        /\ UNCHANGED <<asked, stdout>>
    BY <1>3 DEF FailPending, RequestInv, ClientRecords
  <2>3. up \in SUBSET Callers
    OBVIOUS
  <2> HIDE DEF up
  <2> QED
    BY <2>1, <2>2, <2>3, CallersGiveUp
<1>4. ASSUME NEW c \in Callers, TimeOut(c) PROVE RequestInv'
  <2>1. caller' = [d \in Callers |->
          IF d \in {c} THEN [caller[d] EXCEPT !.got = "timeout"] ELSE caller[d]]
    BY <1>4 DEF TimeOut, RequestInv
  <2>2. /\ client' \in ClientRecords
        /\ UNCHANGED <<asked, stdout>>
    BY <1>4 DEF TimeOut, RequestInv, ClientRecords
  <2> DEFINE up == {c}
  <2>3. /\ up \in SUBSET Callers
        /\ caller' = [d \in Callers |->
             IF d \in up THEN [caller[d] EXCEPT !.got = "timeout"] ELSE caller[d]]
    BY <2>1
  <2> HIDE DEF up
  <2> QED
    BY <2>2, <2>3, CallersGiveUp
<1> QED
  BY <1>1, <1>2, <1>3, <1>4, RequestSent, MessageRead DEF RequestNext

LEMMA LanguageStep ==
  /\ DocumentInv /\ [LanguageNext]_languageVars => DocumentInv'
  /\ RequestInv /\ [LanguageNext]_languageVars => RequestInv'
<1>1. ASSUME DocumentInv, UNCHANGED documentVars PROVE DocumentInv'
  BY <1>1 DEF documentVars, DocumentInv, ServerHoldsOpenedText
<1>2. ASSUME RequestInv, UNCHANGED requestVars PROVE RequestInv'
  BY <1>2 DEF requestVars, RequestInv
<1> QED
  BY <1>1, <1>2, DocumentStep, RequestStep DEF LanguageNext, languageVars

(* The server has the text that differences are made to, for any number of *)
(* calls that overtake each other.                                         *)
THEOREM ServerHasOpenedText == LanguageSpec => []ServerHoldsOpenedText
<1>1. DocumentInv => ServerHoldsOpenedText
  BY DEF DocumentInv
<1> QED
  BY <1>1, DocumentInitially, LanguageStep, PTL DEF LanguageSpec

(* Late answers reach nobody else, for any number of callers and requests. *)
THEOREM AnswersReachWhoAsked == LanguageSpec => []AnswersFindTheirCaller
<1>1. RequestInv => AnswersFindTheirCaller
  BY DEF RequestInv, CallerRecords, AnswersFindTheirCaller
<1> QED
  BY <1>1, RequestsInitially, LanguageStep, PTL DEF LanguageSpec
=============================================================================
