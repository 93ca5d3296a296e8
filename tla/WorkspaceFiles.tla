--------------------------- MODULE WorkspaceFiles ---------------------------
(***************************************************************************)
(* Files of a workspace (files.rs) and the document the editor holds of    *)
(* one of them (editorDocument.ts, +page.svelte): reads and saves are      *)
(* answered late, while the user, other programs and tools go on and the   *)
(* workspace gets another folder.                                          *)
(*                                                                         *)
(* One workspace and one relative path, which is a file in each folder.    *)
(* A content is its own version; no content is no document, or no version. *)
(***************************************************************************)
EXTENDS Naturals

CONSTANTS
  Directories,    (* folders that can be the root of the workspace         *)
  Contents, NoContent,
  MaxRevision     (* bound: roots set by one process                       *)

ASSUME WorkspaceAssumption ==
  NoContent \notin Contents /\ Contents # {} /\ MaxRevision \in Nat \ {0}

VARIABLES
  root,           (* WorkspaceRoot: the folder and its revision, in memory *)
  disk,           (* the file in each folder                               *)
  doc,            (* DocumentSession                                       *)
  saving,         (* a save: what it carries, how far it is                *)
  fetch           (* a read the editor has not applied yet                 *)

filesVars == <<root, disk, doc, saving, fetch>>

(* home is the folder a document was opened or last saved in.              *)
Loaded(text, rev, folder) ==
  [text |-> text, version |-> text, saved |-> text, rev |-> rev, home |-> folder]
NoDoc == Loaded(NoContent, 0, CHOOSE f \in Directories : TRUE)
NoSave == [at |-> "none", doc |-> NoDoc, folder |-> NoDoc.home, raced |-> FALSE, closed |-> FALSE]
NoFetch == [of |-> "none", doc |-> NoDoc]

Open == doc # NoDoc
Dirty == doc.text # doc.saved

FilesInit ==
  /\ root \in [folder : Directories, revision : {1}]
  /\ disk \in [Directories -> Contents]
  /\ doc = NoDoc /\ saving = NoSave /\ fetch = NoFetch

(* set_path, when the user opens another folder: documents are dropped     *)
(* once it is answered.                                                    *)
SetRoot ==
  /\ root.revision < MaxRevision
  /\ \E folder \in Directories : root' = [folder |-> folder, revision |-> root.revision + 1]
  /\ UNCHANGED <<disk, doc, saving, fetch>>

(* Another program, Git or a tool of an agent writes the file.             *)
OtherWrite ==
  /\ \E f \in Directories, c \in Contents :
       /\ disk' = [disk EXCEPT ![f] = c]
       /\ saving' = [saving EXCEPT !.raced = @ \/ (saving.at = "checked" /\ f = saving.folder)]
  /\ UNCHANGED <<root, doc, fetch>>

(* read_file takes folder and revision together; the answer comes later.   *)
(* A refresh reads a document only when it is not dirty.                   *)
Fetch ==
  /\ fetch = NoFetch
  /\ \E of \in {"open", "reload", "refresh"} :
       /\ (of = "open") = ~Open /\ (of = "refresh" => ~Dirty)
       /\ fetch' = [of |-> of, doc |-> Loaded(disk[root.folder], root.revision, root.folder)]
  /\ UNCHANGED <<root, disk, doc, saving>>

(* A reload replaces whatever the document has become; a refresh leaves a  *)
(* document that has become dirty, or is of this version.                  *)
ApplyFetch ==
  /\ fetch # NoFetch /\ fetch' = NoFetch
  /\ doc' = IF CASE fetch.of = "open" -> ~Open
                 [] fetch.of = "reload" -> Open
                 [] OTHER -> Open /\ ~Dirty /\ doc.version # fetch.doc.version
            THEN fetch.doc ELSE doc
  /\ UNCHANGED <<root, disk, saving>>

(* A recovered document has the text and base version of its snapshot,     *)
(* and the file and the root revision of now.                              *)
Recover ==
  /\ ~Open
  /\ \E text, version \in Contents :
       doc' = [Loaded(disk[root.folder], root.revision, root.folder)
                 EXCEPT !.text = text, !.version = version]
  /\ UNCHANGED <<root, disk, saving, fetch>>

Type ==
  /\ Open /\ \E text \in Contents \ {doc.text} : doc' = [doc EXCEPT !.text = text]
  /\ UNCHANGED <<root, disk, saving, fetch>>

CloseDocument ==
  /\ Open /\ doc' = NoDoc
  /\ saving' = [saving EXCEPT !.closed = saving # NoSave]
  /\ UNCHANGED <<root, disk, fetch>>

(* What is persisted is no part of the request.                            *)
StartSave ==
  /\ Open /\ saving = NoSave
  /\ saving' = [NoSave EXCEPT !.at = "sent", !.doc = [doc EXCEPT !.saved = doc.text]]
  /\ UNCHANGED <<root, disk, doc, fetch>>

(* Mutant of SaveAllowed: a save does not ask for the root's revision.     *)
SaveAllowedAnywhere == disk[root.folder] = saving.doc.version

(* The root is still the document's, and the file what it is based on.     *)
SaveAllowed == saving.doc.rev = root.revision /\ disk[root.folder] = saving.doc.version

CheckSave ==
  /\ saving.at = "sent"
  /\ saving' = [saving EXCEPT !.at = IF SaveAllowed THEN "checked" ELSE "failed", !.folder = root.folder]
  /\ UNCHANGED <<root, disk, doc, fetch>>

(* The new content is renamed over the file of the folder that was checked. *)
WriteSave ==
  /\ saving.at = "checked"
  /\ disk' = [disk EXCEPT ![saving.folder] = saving.doc.text]
  /\ saving' = [saving EXCEPT !.at = "written", !.raced = FALSE]
  /\ UNCHANGED <<root, doc, fetch>>

(* The answer gives the open document its new version, even one opened     *)
(* again meanwhile, whose persisted text stays its own.  A save that was   *)
(* written may be reported as failed: its call timed out.                  *)
AnswerSave ==
  /\ saving.at \in {"failed", "written"}
  /\ saving' = NoSave
  /\ \/ /\ saving.at = "written" /\ Open
        /\ doc' = [doc EXCEPT !.version = saving.doc.text, !.rev = saving.doc.rev,
                              !.home = saving.folder,
                              !.saved = IF saving.closed THEN @ ELSE saving.doc.text]
     \/ UNCHANGED doc
  /\ UNCHANGED <<root, disk, fetch>>

FilesNext ==
  \/ SetRoot \/ OtherWrite \/ Fetch \/ ApplyFetch \/ Recover \/ Type \/ CloseDocument
  \/ StartSave \/ CheckSave \/ WriteSave \/ AnswerSave

FilesSpec == FilesInit /\ [][FilesNext]_filesVars

-----------------------------------------------------------------------------
(* A save, however late its steps come between other writers and a switch  *)
(* of folders, puts the text into the folder its document was opened in    *)
(* (for one opened again while it was saved: the folder of that save),     *)
(* over the content the document is based on, or over one that was written *)
(* after the check and before the rename: that window is the code's.       *)
SavesReplaceTheirBase ==
  saving.at = "checked" =>
    /\ saving.folder = saving.doc.home
    /\ disk[saving.folder] = saving.doc.version \/ saving.raced
=============================================================================
