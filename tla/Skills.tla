-------------------------------- MODULE Skills --------------------------------
(***************************************************************************)
(* Skills as scoring/skill_graph.py and scoring/normalizer.py see them.    *)
(* A skill is its lowercase, stripped spelling; both modules ignore case   *)
(* when they look a skill up.  The tables are cut down to entries of every *)
(* kind: a skill with one alias, with none, an alias of two skills, and a  *)
(* name that only one of the two modules knows.                            *)
(***************************************************************************)
EXTENDS Integers, Sequences, FiniteSets, FiniteSetsExt

(* _SYNONYMS, in its order: 76 canonical names, each with aliases. *)
Synonyms ==
    <<[name |-> "python",     aliases |-> {"py", "python3"}],
      [name |-> "react",      aliases |-> {"react.js"}],
      [name |-> "kubernetes", aliases |-> {"k8s"}],
      [name |-> "docker",     aliases |-> {"docker ce"}],
      [name |-> "terraform",  aliases |-> {"tf"}],
      [name |-> "tensorflow", aliases |-> {"tf", "tensor flow"}]>>

(* The entries that name a skill.  _ALIAS_TO_CANONICAL is filled in their   *)
(* order, so that the last one wins.                                        *)
Naming(skill) ==
    {i \in DOMAIN Synonyms : skill = Synonyms[i].name \/ skill \in Synonyms[i].aliases}

(* TechAdjacencyGraph.canonicalize; a skill nobody names is its own form. *)
Canonicalize(skill) ==
    IF Naming(skill) = {} THEN skill ELSE Synonyms[Max(Naming(skill))].name

(* _ADJACENCY_EDGES, weights in percent; they are read in both directions. *)
Edges ==
    {<<"kubernetes", "docker", 80>>, <<"kubernetes", "terraform", 55>>,
     <<"docker", "terraform", 45>>, <<"react", "next.js", 85>>}

Weight(a, b) == {e[3] : e \in {f \in Edges : {f[1], f[2]} = {a, b}}}

(* adjacency_score, in percent. *)
Adjacency(a, b) ==
    LET x == Canonicalize(a)
        y == Canonicalize(b)
    IN IF x = y THEN 100 ELSE Max({0} \cup Weight(x, y))

(* _SKILL_SYNONYMS of the normalizer, up to the case of its canonical names. *)
Normalized ==
    [skill \in {"react.js", "k8s", "kubernetes", "tf", "py", "artificial intelligence"} |->
        CASE skill = "react.js" -> "react"
          [] skill \in {"k8s", "kubernetes"} -> "kubernetes"
          [] skill = "tf" -> "terraform"
          [] skill = "py" -> "python"
          [] skill = "artificial intelligence" -> "ai"]

NormalizeSkill(skill) == IF skill \in DOMAIN Normalized THEN Normalized[skill] ELSE skill

(* normalize_skills: its duplicates are dropped, its order is not used. *)
NormalizeSkills(skills) == {NormalizeSkill(s) : s \in skills}

(* The candidate's canonical skills: the parser stores the skills as they   *)
(* were found and as it normalised them, and the engine unites both.        *)
Canonical(skills) == {Canonicalize(s) : s \in skills \cup NormalizeSkills(skills)}

(* A job's skills are not normalised. *)
Asked(skills) == {Canonicalize(s) : s \in skills}

-----------------------------------------------------------------------------
(* Properties of the tables, for every skill they know. *)

Known == UNION {{Synonyms[i].name} \cup Synonyms[i].aliases : i \in DOMAIN Synonyms}
            \cup DOMAIN Normalized

(* What skill_graph.py says of the registry: all aliases of a canonical     *)
(* form resolve to it.                                                      *)
AliasesResolve ==
    \A i \in DOMAIN Synonyms : \A a \in Synonyms[i].aliases : Canonicalize(a) = Synonyms[i].name

(* What normalizing and canonicalizing are for: one skill of a resume,      *)
(* however it is spelled, is one skill of the comparison.                   *)
OneSkillIsOne == \A s \in Known : Cardinality(Canonical({s})) = 1
=============================================================================
