-------------------------- MODULE MCSessionBindings --------------------------
(* Catalogs of small instances of SessionBindings for TLC. *)
EXTENDS SessionBindings

Skill(id, trigger, category, priority) ==
  [id |-> id, trigger |-> trigger, category |-> category, priority |-> priority]
(* Before and after the user made one of the skills contextual. *)
TwoCatalogs == {<<Skill("k1", "automatic", "git", 50), Skill("k2", "manual", "git", 10)>>,
                <<Skill("k1", "contextual", "git", 50), Skill("k2", "manual", "git", 10)>>}
OneCatalog == {<<Skill("k1", "automatic", "git", 50), Skill("k2", "manual", "git", 10),
                 Skill("k3", "contextual", "testing", 50)>>}
=============================================================================
