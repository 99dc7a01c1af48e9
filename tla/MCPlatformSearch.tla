-------------------------- MODULE MCPlatformSearch --------------------------
(* PlatformSearch with searches of one process, for the registry's default  *)
(* policies, one that contradicts itself and one that is switched off.      *)
EXTENDS PlatformSearch, TLC

CONSTANTS s1, s2

MCPreferred == <<"licensed_vendor", "employer_ats", "manual_input">>

MCPolicies ==
    {DefaultPolicies[s] : s \in {"linkedin"}}
        \cup {[DefaultPolicies["naukri"] EXCEPT !.blocked = {"employer_ats"}],
              [DefaultPolicies["naukri"] EXCEPT !.enabled = FALSE]}

MCProcessOf == [s \in Searches |-> CHOOSE p \in Processes : TRUE]

SearchSymmetry == Permutations(Searches)
=============================================================================
