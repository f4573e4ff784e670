------------------------------ MODULE Routing ------------------------------
(***************************************************************************)
(* The routing decision (internal/router/router.go) in the terms the       *)
(* stages of a run need: which class of answer, which kind of match, which *)
(* plan.  Module Triage has the decision over fields, scores and rules,    *)
(* and shows that it is this one.                                          *)
(***************************************************************************)

Matches == {"none", "fuzzy", "exact"}
Classes == {"unsure", "junk", "incomplete", "complete"}
Plans == {"discard", "review", "junk", "clarify", "flag", "attach", "create"}

\* Route, with the confidence gate before the completeness gate before the
\* match.  "ruled": some active rule matches the classification.
Route(c, match, ruled) ==
    CASE c = "unsure"     -> "review"
      [] c = "junk"       -> "junk"
      [] c = "incomplete" -> "clarify"
      [] OTHER            ->
            CASE match = "exact" -> "attach"
              [] match = "fuzzy" -> "flag"
              [] OTHER           -> IF ruled THEN "create" ELSE "review"
=============================================================================
