--------------------------- MODULE SessionBindings ---------------------------
(***************************************************************************)
(* What one agent Task Session is bound to over its attempts: the runtime  *)
(* profile and the contract that its envelope names, the Rules and Skills  *)
(* its first attempt resolves from them (domain/governance.rs), and the    *)
(* Execution Manifest of each attempt, which has to agree with the first.  *)
(* Between attempts the user changes the settings, opens folders, restarts *)
(* the application and resumes the session with another envelope.          *)
(*                                                                         *)
(* A profile is immutable and named by its content: it is its own name.  A *)
(* contract is its own digest.  Rules are normalised texts; the text of a  *)
(* contract is the set of categories whose terms it has.                   *)
(***************************************************************************)
EXTENDS Naturals, Sequences, FiniteSets, SequencesExt

CONSTANTS
  RuleTexts,      (* Rules the user may have in the settings               *)
  SkillCatalogs,  (* and catalogs: sequences of skills (id, trigger, category, priority) *)
  ContractTexts,  (* what the text of a contract may match                 *)
  ResumeRuns,     (* a resume names the "same" execution run or a "fresh" one *)
  MaxSelected,    (* MAX_SELECTED_SKILLS                                   *)
  SessionAttempts,(* bound: attempts of the session                        *)
  MaxRoots        (* bound: roots set by one process                       *)

ASSUME BindingsAssumption ==
  /\ ResumeRuns \subseteq {"same", "fresh"} /\ ResumeRuns # {}
  /\ {MaxSelected, SessionAttempts, MaxRoots} \subseteq Nat

VARIABLES
  settings,       (* the Rules and the catalog of the user                 *)
  rootRevision,   (* WorkspaceRoot: its revision, in memory                *)
  session,        (* state and envelope of the session                     *)
  attempt,        (* its number, where its executor is, what it resolved   *)
  bound,          (* scheduler_task_governance                             *)
  anchor,         (* identity of the first Execution Manifest              *)
  named,          (* whether an OpenCode session is bound                  *)
  ran,            (* Rules and Skills the runtime of each attempt was given *)
  strangers       (* history: attempts whose manifest was refused          *)

bindingVars ==
  <<settings, rootRevision, session, attempt, bound, anchor, named, ran, strangers>>

Ungoverned == [rules |-> "none", catalog |-> <<>>, skills |-> <<>>]
NoEnvelope == [profile |-> [rules |-> "none", catalog |-> <<>>], run |-> 0,
               requested |-> {}, text |-> {}, revision |-> 0]
NoAnchor == [run |-> 0, profile |-> NoEnvelope.profile, rules |-> "none", catalog |-> <<>>]

BindingsInit ==
  /\ settings \in [rules : RuleTexts, catalog : SkillCatalogs]
  /\ rootRevision = 1
  /\ session = [state |-> "none", envelope |-> NoEnvelope]
  /\ attempt = [number |-> 0, at |-> "none", resolved |-> Ungoverned]
  /\ bound = Ungoverned /\ anchor = NoAnchor /\ named = FALSE
  /\ ran = [a \in 1..SessionAttempts |-> Ungoverned]
  /\ strangers = {}

-----------------------------------------------------------------------------
(* resolve_governance *)

Matches(skill, envelope) ==
  \/ skill.trigger = "automatic"
  \/ skill.trigger = "manual" /\ skill.id \in envelope.requested
  \/ skill.trigger = "contextual" /\ skill.category \in envelope.text

(* Requested skills come first, then those of higher priority, then the    *)
(* order of the catalog.                                                   *)
Precedes(catalog, i, j) ==
  LET manual(k) == catalog[k].trigger = "manual" IN
  IF manual(i) # manual(j) THEN manual(i)
  ELSE IF catalog[i].priority # catalog[j].priority
       THEN catalog[i].priority > catalog[j].priority
       ELSE i < j

Selected(envelope) ==
  LET catalog == envelope.profile.catalog
      chosen == {i \in DOMAIN catalog : Matches(catalog[i], envelope)}
      order == SetToSortSeq(chosen, LAMBDA i, j : Precedes(catalog, i, j))
  IN  [k \in DOMAIN order |-> catalog[order[k]].id]

ResolveGovernance(envelope) ==
  [rules |-> envelope.profile.rules, catalog |-> envelope.profile.catalog,
   skills |-> Selected(envelope)]

-----------------------------------------------------------------------------
(* The user *)

ChangeSettings ==
  /\ settings' \in [rules : RuleTexts, catalog : SkillCatalogs] \ {settings}
  /\ UNCHANGED <<rootRevision, session, attempt, bound, anchor, named, ran, strangers>>

OpenRoot ==
  /\ rootRevision < MaxRoots /\ rootRevision' = rootRevision + 1
  /\ UNCHANGED <<settings, session, attempt, bound, anchor, named, ran, strangers>>

(* ensureOpenCodeAgentProfile and prepareAgentTaskSession: the profile is  *)
(* stored before the envelope that names it.                               *)
Envelope(rules, run, requested, text) ==
  [profile |-> [rules |-> rules, catalog |-> settings.catalog], run |-> run,
   requested |-> requested, text |-> text, revision |-> rootRevision]

Manual == {settings.catalog[i].id : i \in {k \in DOMAIN settings.catalog :
                                             settings.catalog[k].trigger = "manual"}}

Submit ==
  /\ session.state = "none"
  /\ \E requested \in SUBSET Manual, text \in ContractTexts :
       session' = [state |-> "queued", envelope |-> Envelope(settings.rules, 1, requested, text)]
  /\ UNCHANGED <<settings, rootRevision, attempt, bound, anchor, named, ran, strangers>>

(* After an approval, or to continue what was interrupted: the renderer    *)
(* keeps the Rules that were bound and the requested skills, and takes the *)
(* settings and notes of now; the scheduler asks for an OpenCode session.  *)
Resume ==
  /\ session.state \in {"blocked", "failed"} /\ named
  /\ \E which \in ResumeRuns, text \in ContractTexts :
       LET run == IF which = "same" THEN session.envelope.run ELSE session.envelope.run + 1 IN
       session' = [state |-> "queued",
                envelope |-> Envelope(IF bound = Ungoverned THEN settings.rules ELSE bound.rules,
                                      run, session.envelope.requested, text)]
  /\ UNCHANGED <<settings, rootRevision, attempt, bound, anchor, named, ran, strangers>>

-----------------------------------------------------------------------------
(* An attempt *)

ClaimSession ==
  /\ session.state = "queued" /\ attempt.number < SessionAttempts
  /\ session' = [session EXCEPT !.state = "running"]
  /\ attempt' = [number |-> attempt.number + 1, at |-> "resolve", resolved |-> Ungoverned]
  /\ UNCHANGED <<settings, rootRevision, bound, anchor, named, ran, strangers>>

Stands(place) == session.state = "running" /\ attempt.at = place
Advance(place) == attempt' = [attempt EXCEPT !.at = place]
EndWith(state) == Advance("ended") /\ session' = [session EXCEPT !.state = state]

(* Mutant of Governed: every attempt resolves its own.                     *)
GovernedAnew == ResolveGovernance(session.envelope)

(* The retained resolution is taken as it is.                              *)
Governed == IF bound = Ungoverned THEN ResolveGovernance(session.envelope) ELSE bound

(* The workspace has to be that of the envelope and the skills within the  *)
(* limits; a connector or a secret may be missing.                         *)
ResolveRuntime ==
  /\ Stands("resolve")
  /\ \/ /\ session.envelope.revision = rootRevision /\ Len(Governed.skills) <= MaxSelected
        /\ attempt' = [attempt EXCEPT !.at = "govern", !.resolved = Governed]
        /\ UNCHANGED session
     \/ EndWith("failed")
  /\ UNCHANGED <<settings, rootRevision, bound, anchor, named, ran, strangers>>

(* bind_governance_resolution: once for a session.                         *)
BindResolution ==
  /\ Stands("govern") /\ Advance("manifest")
  /\ bound' = IF bound = Ungoverned THEN attempt.resolved ELSE bound
  /\ UNCHANGED <<settings, rootRevision, session, anchor, named, ran, strangers>>

(* stable_manifest_identity_matches                                        *)
Identity ==
  [run |-> session.envelope.run, profile |-> session.envelope.profile,
   rules |-> attempt.resolved.rules, catalog |-> attempt.resolved.catalog]

BindExecutionManifest ==
  /\ Stands("manifest")
  /\ IF anchor \in {NoAnchor, Identity}
     THEN Advance("run") /\ anchor' = Identity /\ UNCHANGED <<session, strangers>>
     ELSE EndWith("failed") /\ strangers' = strangers \cup {attempt.number} /\ UNCHANGED anchor
  /\ UNCHANGED <<settings, rootRevision, bound, named, ran>>

(* The runtime gets the Rules and Skills and may name its OpenCode session. *)
RunRuntime ==
  /\ Stands("run") /\ Advance("end")
  /\ ran' = [ran EXCEPT ![attempt.number] = attempt.resolved]
  /\ named' \in {named, TRUE}
  /\ UNCHANGED <<settings, rootRevision, session, bound, anchor, strangers>>

EndAttemptWith ==
  /\ Stands("end")
  /\ \E state \in {"succeeded", "failed", "blocked"} : EndWith(state)
  /\ UNCHANGED <<settings, rootRevision, bound, anchor, named, ran, strangers>>

(* The lease runs out, with its worker or its process: the envelope stays. *)
RecoverSession ==
  /\ session.state = "running"
  /\ Advance("ended") /\ session' = [session EXCEPT !.state = "queued"]
  /\ rootRevision' \in {rootRevision, 1}
  /\ UNCHANGED <<settings, bound, anchor, named, ran, strangers>>

BindingsNext ==
  \/ ChangeSettings \/ OpenRoot \/ Submit \/ Resume
  \/ ClaimSession \/ ResolveRuntime \/ BindResolution \/ BindExecutionManifest
  \/ RunRuntime \/ EndAttemptWith \/ RecoverSession

BindingsSpec == BindingsInit /\ [][BindingsNext]_bindingVars

-----------------------------------------------------------------------------
(* README:265: the Rules and Skills of a session are resolved once and     *)
(* exactly that snapshot is given to its runtime, in every attempt,        *)
(* whatever settings, notes and crashes come between.                      *)
AttemptsShareGovernance ==
  \A a \in 1..attempt.number : ran[a] # Ungoverned => ran[a] = bound

(* README:41: a session is resumed after an approval without treating the  *)
(* continuation as a new task.  The code breaks it: the renderer gives     *)
(* every continuation a run of its own (+page.svelte:7470, 6632), which    *)
(* the manifest refuses, with settings unchanged.                          *)
ResumedIsSameTask == strangers = {}
=============================================================================
