------------------------------- MODULE Triage -------------------------------
(***************************************************************************)
(* What one run makes of what the model says: two providers are asked      *)
(* (llm.Extract), each answer is validated, cleaned and checked against    *)
(* the text (internal/llm/extract.go), the grounded fields are looked up   *)
(* among the contacts (MatchContact), the router decides (router.go), and  *)
(* act writes a contact and assigns a team.                                *)
(*                                                                         *)
(* A text is what it states.  A value, and a quote given for a field, is   *)
(* stated in the text or invented; a quote that is stated need not be a    *)
(* quote of the value, for nothing compares the two.  Scores are in per    *)
(* cent.  A statement that fails ends the run, but for one that is ignored *)
(* (Assigned); EnquiryPipeline has that, and what a retry does.            *)
(***************************************************************************)
EXTENDS Integers

CONSTANTS
    Answers,    \* what a model may answer, some of Answer
    RuleSets,   \* sets of active rules the table may hold, some of SUBSET Rule
    Directories,\* what the contacts may be found by, some of Directory
    Names,      \* names of rules, in byte order: natural numbers
    Collation,  \* their places in the database's order
    Targets,    \* team and owner of a rule
    NoTarget,
    ConfidenceThreshold,
    AutoAttachMatchThreshold,
    TrgmMatchFloor

Fields == {"name", "email", "phone", "company_name"}
Labels == {"enquiry_type", "urgency"}
Types == {"sales", "support", "junk", "insufficient_info"}
Urgencies == {"low", "medium", "high"}

Values == {"nil", "blank", "stated", "invented"}
Quotes == {"none", "stated", "invented"}

\* Arguments of record_enquiry_extraction; the other labels are any string.
Answer == [contact: [Fields -> Values], quote: [Fields \cup Labels -> Quotes],
           enquiry_type: Types \cup {"other"}, urgency: Urgencies \cup {"other"},
           confidence: Int, missing: BOOLEAN]

\* model.Extraction once code has checked it.
Extraction == [contact: [Fields -> Values \ {"blank"}],
               quote: [Fields \cup Labels -> Quotes],
               unverified: SUBSET (Fields \cup Labels),
               enquiry_type: Types, urgency: Urgencies,
               confidence: 0 .. 100, missing: BOOLEAN]

\* condition_json has a string for each key it names.
Rule == [name: Names, priority: Nat, target: Targets,
         condition: UNION {[K -> Types \cup Urgencies] :
                              K \in SUBSET (Labels \cup {"other"})}]

\* The contacts: whether one has the address, or the number, as the text
\* states it or as the model invented it, and how similar the best one's name
\* and company are.
Directory == [email: SUBSET {"stated", "invented"}, phone: SUBSET {"stated", "invented"},
              name: 0 .. 100, company: 0 .. 100]

ASSUME TriageAssumption ==
    /\ Answers \subseteq Answer
    /\ RuleSets \subseteq SUBSET Rule
    /\ Directories \subseteq Directory
    /\ Names \subseteq Nat
    /\ Collation \in [Names -> Nat]
    /\ NoTarget \notin Targets
    /\ ConfidenceThreshold \in Int
    /\ AutoAttachMatchThreshold \in Int
    /\ TrgmMatchFloor \in Nat \ {0}  \* 0 would find everybody

VARIABLES
    at,         \* where the run is
    ex,         \* the extraction, once there is one
    match,      \* what MatchContact returned
    rules,      \* the active rows of routing_rule
    plan,       \* Route's action
    contact,    \* the fields UpsertContact was given
    target      \* team and owner of the CRM record; whom PickOwner finds, if
                \* the rule names no owner, is left out

triageVars == <<at, ex, match, rules, plan, contact, target>>

Planned == INSTANCE Routing

NoExtraction == [none |-> TRUE]
NoMatch == [method |-> "none", score |-> 0]
NoContact == [f \in Fields |-> "nil"]

TriageTypeOK ==
    /\ at \in {"tier1", "fallback", "escalate", "match", "route", "act", "done", "failed"}
    /\ ex \in Extraction \cup {NoExtraction}
    /\ at \in {"tier1", "fallback", "failed"} <=> ex = NoExtraction
    /\ match \in [method: {"none", "email_exact", "phone_exact", "trgm_name"}, score: Int]
    /\ rules \in RuleSets \cup {{}}
    /\ plan \in Planned!Plans \cup {"none"}
    /\ contact \in [Fields -> Values \ {"blank"}]
    /\ target \in Targets \cup {NoTarget}

TriageInit ==
    /\ at = "tier1"
    /\ ex = NoExtraction
    /\ match = NoMatch
    /\ rules = {}
    /\ plan = "none"
    /\ contact = NoContact
    /\ target = NoTarget

-----------------------------------------------------------------------------
(* llm.Extract.                                                            *)

Valid(a) ==
    /\ a.enquiry_type \in Types
    /\ a.urgency \in Urgencies
    /\ a.confidence \in 0 .. 100

\* Variant: a blank stays.
Uncleaned(c) == [f \in Fields |-> c[f]]

\* normalizeContact: nothing is left of a blank, and of an e-mail address not
\* shaped like one.
Cleaned(c) == [f \in Fields |-> IF c[f] = "blank" THEN "nil" ELSE c[f]]

\* Variant: any quote will do.
UnverifiedIfUnquoted(c, quote) ==
    {f \in Fields : c[f] = "invented" /\ quote[f] = "none"}
        \cup {f \in Labels : quote[f] = "invented"}

\* Ground: a field needs its value or its quote in the text; a label only must
\* not have a quote that is not there.
Unverified(c, quote) ==
    {f \in Fields : c[f] = "invented" /\ quote[f] # "stated"}
        \cup {f \in Labels : quote[f] = "invented"}

\* callExtract on an answer that can be decoded and is valid.
Extracted(a) ==
    [contact |-> Cleaned(a.contact),
     quote |-> a.quote,
     unverified |-> Unverified(Cleaned(a.contact), a.quote),
     enquiry_type |-> a.enquiry_type, urgency |-> a.urgency,
     confidence |-> a.confidence, missing |-> a.missing]

Told(a) ==
    /\ Valid(a)
    /\ ex' = Extracted(a)
    /\ UNCHANGED <<match, rules, plan, contact, target>>

Untold == UNCHANGED <<ex, match, rules, plan, contact, target>>

Tier1Answers(a) ==
    /\ at = "tier1"
    /\ Told(a)
    /\ at' = IF a.confidence < ConfidenceThreshold THEN "escalate" ELSE "match"

\* A time-out, no tool call, arguments that cannot be decoded or are invalid.
Tier1Fails ==
    /\ at = "tier1"
    /\ Untold
    /\ at' = "fallback"

Tier2Answers(a) ==
    /\ at \in {"fallback", "escalate"}
    /\ Told(a)
    /\ at' = "match"

\* Without a tier-1 answer to keep, the run fails.
Tier2Fails ==
    /\ at \in {"fallback", "escalate"}
    /\ Untold
    /\ at' = IF at = "escalate" THEN "match" ELSE "failed"

-----------------------------------------------------------------------------
(* Trusted and MatchContact.                                               *)

Trusted(x) == [f \in Fields |-> IF f \in x.unverified THEN "nil" ELSE x.contact[f]]

\* Variant: no cap.
UncappedScore(d, c) ==
    d.name + (IF c["company_name"] = "nil" THEN 0 ELSE (15 * d.company) \div 100)

\* LEAST(0.94, similarity of the name, and something for the company).
FuzzyScore(d, c) ==
    LET sum == d.name + (IF c["company_name"] = "nil" THEN 0 ELSE (15 * d.company) \div 100)
    IN  IF sum < 94 THEN sum ELSE 94

MatchContact(c, d) ==
    IF c["email"] \in d.email THEN [method |-> "email_exact", score |-> 100]
    ELSE IF c["phone"] \in d.phone THEN [method |-> "phone_exact", score |-> 99]
    ELSE IF c["name"] # "nil" /\ d.name >= TrgmMatchFloor
         THEN [method |-> "trgm_name", score |-> FuzzyScore(d, c)]
    ELSE NoMatch

Match(d) ==
    /\ at = "match"
    /\ match' = IF ex.enquiry_type = "junk" THEN NoMatch ELSE MatchContact(Trusted(ex), d)
    /\ at' = "route"
    /\ UNCHANGED <<ex, rules, plan, contact, target>>

-----------------------------------------------------------------------------
(* Route.                                                                  *)

\* RoutingRule.Matches: a key nobody knows never matches.
RuleMatches(r, x) ==
    \A k \in DOMAIN r.condition : k \in Labels /\ x[k] = r.condition[k]

Precedes(r, q, order) ==
    \/ r.priority < q.priority
    \/ r.priority = q.priority /\ order[r.name] < order[q.name]

Matching(rs, x) == {r \in rs : RuleMatches(r, x)}

\* The first of some rules: names are unique, and so is it.
Firsts(rs, order) == {r \in rs : \A q \in rs : ~ Precedes(q, r, order)}

FirstTarget(rs, order) ==
    IF rs = {} THEN NoTarget ELSE (CHOOSE r \in Firsts(rs, order) : TRUE).target

\* Go compares strings bytewise.
ByteOrder == [n \in Names |-> n]

\* Variant: a field that was not grounded counts.
IdentifiableByAny(x) == \E f \in {"email", "phone", "name"} : x.contact[f] # "nil"

Identifiable(x) ==
    \E f \in {"email", "phone", "name"} : x.contact[f] # "nil" /\ f \notin x.unverified

\* Variant: the completeness gate first.
RouteCompleteFirst(x, m, rs) ==
    IF x.missing \/ x.enquiry_type = "insufficient_info" \/ ~ Identifiable(x) THEN "clarify"
    ELSE IF x.confidence < ConfidenceThreshold \/ "enquiry_type" \in x.unverified THEN "review"
    ELSE IF x.enquiry_type = "junk" THEN "junk"
    ELSE IF m.method # "none"
         THEN IF m.score >= AutoAttachMatchThreshold THEN "attach" ELSE "flag"
    ELSE IF Matching(rs, x) # {} THEN "create"
    ELSE "review"

Route(x, m, rs) ==
    IF x.confidence < ConfidenceThreshold \/ "enquiry_type" \in x.unverified THEN "review"
    ELSE IF x.enquiry_type = "junk" THEN "junk"
    ELSE IF x.missing \/ x.enquiry_type = "insufficient_info" \/ ~ Identifiable(x) THEN "clarify"
    ELSE IF m.method # "none"
         THEN IF m.score >= AutoAttachMatchThreshold THEN "attach" ELSE "flag"
    ELSE IF Matching(rs, x) # {} THEN "create"
    ELSE "review"

Decide(rs) ==
    /\ at = "route"
    /\ rules' = rs
    /\ plan' = Route(ex, match, rs)
    /\ at' = "act"
    /\ UNCHANGED <<ex, match, contact, target>>

-----------------------------------------------------------------------------
(* Pool.act.                                                               *)

\* Variant: the first rule by name.
AssignedByName ==
    IF plan = "create" THEN {FirstTarget(Matching(rules, ex), ByteOrder)}
    ELSE {FirstTarget({[r EXCEPT !.priority = 0] : r \in Matching(rules, ex)}, Collation)}

\* The target of the rule Route chose, or for an attachment, which no rule was
\* looked up for, of the first that matches in the order of the query; that the
\* query failed is ignored.
Assigned ==
    IF plan = "create" THEN {FirstTarget(Matching(rules, ex), ByteOrder)}
    ELSE {FirstTarget(Matching(rules, ex), Collation), NoTarget}

Act ==
    /\ at = "act"
    /\ IF plan \in {"attach", "create"}
       THEN contact' = Trusted(ex) /\ target' \in Assigned
       ELSE UNCHANGED <<contact, target>>
    /\ at' = "done"
    /\ UNCHANGED <<ex, match, rules, plan>>

TriageNext ==
    \/ \E a \in Answers : Tier1Answers(a) \/ Tier2Answers(a)
    \/ Tier1Fails
    \/ Tier2Fails
    \/ \E d \in Directories : Match(d)
    \/ \E rs \in RuleSets : Decide(rs)
    \/ Act

TriageSpec == TriageInit /\ [][TriageNext]_triageVars

-----------------------------------------------------------------------------
(* What is written, and why.                                               *)

(***************************************************************************)
(* Whichever provider answered, and whatever it said: a field with neither *)
(* its value nor its quote in the text finds no contact and is written to  *)
(* none, and a type with a quote that is not there is acted on by nobody   *)
(* but a human (Ground, Trusted, Route).                                   *)
(***************************************************************************)
Backed(f) == ex.contact[f] = "stated" \/ ex.quote[f] = "stated"

NothingUnbackedIsUsed ==
    /\ \A f \in Fields : contact[f] # "nil" => Backed(f)
    /\ match.method = "email_exact" => Backed("email")
    /\ match.method = "phone_exact" => Backed("phone")
    /\ match.method = "trgm_name" => Backed("name")
    /\ plan \notin {"none", "review"} => ex.quote["enquiry_type"] # "invented"

(***************************************************************************)
(* The router looks at the extraction and the CRM write at what Trusted    *)
(* leaves of it: no contact is written that nothing would reach or         *)
(* recognise (router.identifiable).                                        *)
(***************************************************************************)
RecordIsReachable ==
    at = "done" /\ plan \in {"attach", "create"} =>
        \E f \in {"email", "phone", "name"} : contact[f] # "nil"

(***************************************************************************)
(* A similar name never attaches an enquiry to a contact, unless the       *)
(* threshold is configured down to the cap of 0.94 (MatchContact).         *)
(***************************************************************************)
AttachedExactly ==
    plan = "attach" /\ AutoAttachMatchThreshold > 94 =>
        match.method \in {"email_exact", "phone_exact"}

(***************************************************************************)
(* An attachment goes to the team the router would have chosen, although   *)
(* act looks it up by itself (worker.go:211-223), or to none: never to     *)
(* another, where no two rules share a priority.                           *)
(***************************************************************************)
PrioritiesDiffer == \A r, q \in rules : r.priority = q.priority => r = q

NoOtherTeam ==
    at = "done" /\ plan \in {"attach", "create"} /\ PrioritiesDiffer =>
        \/ target = FirstTarget(Matching(rules, ex), ByteOrder)
        \/ plan = "attach" /\ target = NoTarget

(***************************************************************************)
(* The stages of the pipeline decide on classes and kinds of match; the    *)
(* router decides the same on the extraction.                              *)
(***************************************************************************)
ClassOf(x) ==
    IF x.confidence < ConfidenceThreshold \/ "enquiry_type" \in x.unverified THEN "unsure"
    ELSE IF x.enquiry_type = "junk" THEN "junk"
    ELSE IF \/ x.missing
            \/ x.enquiry_type = "insufficient_info"
            \/ \A f \in {"email", "phone", "name"} : Trusted(x)[f] = "nil"
         THEN "incomplete" ELSE "complete"

MatchOf(m) ==
    IF m.method = "none" THEN "none"
    ELSE IF m.score >= AutoAttachMatchThreshold THEN "exact" ELSE "fuzzy"

RoutedAsPlanned ==
    at \in {"act", "done"} =>
        plan = Planned!Route(ClassOf(ex), MatchOf(match),
                             Matching(rules, ex) # {})

-----------------------------------------------------------------------------
(* The inductive invariant behind these properties.                        *)

(***************************************************************************)
(* The extraction carries the verdicts on its own fields, and everything   *)
(* decided after it was decided from it: no step works on another answer.  *)
(***************************************************************************)
Derived ==
    /\ ex # NoExtraction => ex.unverified = Unverified(ex.contact, ex.quote)
    /\ match # NoMatch =>
          /\ at \in {"route", "act", "done"}
          /\ \E d \in Directories : match = MatchContact(Trusted(ex), d)
    /\ plan = IF at \in {"act", "done"} THEN Route(ex, match, rules) ELSE "none"
    /\ IF at = "done" /\ plan \in {"attach", "create"}
       THEN contact = Trusted(ex) /\ target \in Assigned
       ELSE contact = NoContact /\ target = NoTarget

-----------------------------------------------------------------------------
(* What a comment says and the run refutes.                                *)

(***************************************************************************)
(* worker.go:135-136, "Only grounded fields are used, so a hallucinated    *)
(* email cannot match or create a contact".                                *)
(***************************************************************************)
NoInventedEmail ==
    at = "done" /\ plan \in {"attach", "create"} => contact["email"] # "invented"
=============================================================================
