---------------------------- MODULE Triage_proofs ----------------------------
(***************************************************************************)
(* Proofs about module Triage: what a run writes is backed by the text,    *)
(* for any answers, rules and contacts.                                    *)
(***************************************************************************)
EXTENDS Triage, WellFoundedInduction, TLAPS

-----------------------------------------------------------------------------
(* The first of some rules.                                                *)

(***************************************************************************)
(* A set of natural numbers has a least element.                           *)
(***************************************************************************)
LEMMA LeastOf ==
    ASSUME NEW T, T \subseteq Nat, T # {}
    PROVE  \E x \in T : \A y \in T : x <= y
<1> DEFINE less == OpToRel(<, Nat)
<1>1. \A x, y \in Nat : <<y, x>> \in less <=> y < x
  BY DEF OpToRel
<1>2. IsWellFoundedOn(less, Nat)
  BY NatLessThanWellFounded
<1> HIDE DEF less
<1>3. PICK x \in T : \A y \in T : ~ (<<y, x>> \in less)
  BY <1>2, WFMin
<1>4. ASSUME NEW y \in T
      PROVE  x <= y
  <2>1. x \in Nat /\ y \in Nat
    OBVIOUS
  <2>2. ~ (y < x)
    BY <1>1, <1>3, <2>1
  <2> QED
    BY <2>1, <2>2
<1> QED
  BY <1>4

(***************************************************************************)
(* In whatever order names are compared, some matching rule comes first.   *)
(***************************************************************************)
LEMMA FirstExists ==
    ASSUME NEW rs, rs \subseteq Rule, rs # {},
           NEW order, order \in [Names -> Nat]
    PROVE  Firsts(rs, order) # {}
<1> DEFINE priorities == {r.priority : r \in rs}
<1>1. PICK p \in priorities : \A y \in priorities : p <= y
  <2>1. priorities \subseteq Nat /\ priorities # {}
    BY DEF Rule
  <2> QED
    BY <2>1, LeastOf
<1> DEFINE places == {order[r.name] : r \in {q \in rs : q.priority = p}}
<1>2. PICK n \in places : \A y \in places : n <= y
  <2>1. places \subseteq Nat
    BY DEF Rule
  <2>2. places # {}
    BY <1>1
  <2> HIDE DEF places
  <2> QED
    BY <2>1, <2>2, LeastOf
<1>3. PICK r \in rs : r.priority = p /\ order[r.name] = n
  BY <1>2
<1>4. ASSUME NEW q \in rs
      PROVE  ~ Precedes(q, r, order)
  <2>1. /\ q.priority \in Nat /\ r.priority \in Nat
        /\ order[q.name] \in Nat /\ order[r.name] \in Nat
    BY DEF Rule
  <2>2. r.priority <= q.priority
    BY <1>1, <1>3
  <2>3. q.priority = r.priority => order[r.name] <= order[q.name]
    BY <1>2, <1>3
  <2> QED
    BY <2>1, <2>2, <2>3 DEF Precedes
<1> QED
  BY <1>4 DEF Firsts

(***************************************************************************)
(* FirstTarget names the target of a rule, if there is a rule.             *)
(***************************************************************************)
LEMMA FirstTargetType ==
    ASSUME NEW rs, rs \subseteq Rule,
           NEW order, order \in [Names -> Nat]
    PROVE  FirstTarget(rs, order) \in Targets \cup {NoTarget}
<1>1. CASE rs = {}
  BY <1>1 DEF FirstTarget
<1>2. CASE rs # {}
  <2>1. (CHOOSE r \in Firsts(rs, order) : TRUE) \in Firsts(rs, order)
    BY <1>2, FirstExists
  <2>2. (CHOOSE r \in Firsts(rs, order) : TRUE) \in Rule
    BY <2>1 DEF Firsts
  <2> HIDE DEF Firsts
  <2> QED
    BY <1>2, <2>2 DEF FirstTarget, Rule
<1> QED
  BY <1>1, <1>2

(***************************************************************************)
(* How names are ordered is no matter where no two priorities are equal.   *)
(***************************************************************************)
LEMMA OrderIsNoMatter ==
    ASSUME NEW rs, rs \subseteq Rule,
           \A r, q \in rs : r.priority = q.priority => r = q,
           NEW o1, o1 \in [Names -> Nat],
           NEW o2, o2 \in [Names -> Nat]
    PROVE  FirstTarget(rs, o1) = FirstTarget(rs, o2)
<1>1. ASSUME NEW r \in rs, NEW q \in rs
      PROVE  Precedes(q, r, o1) <=> Precedes(q, r, o2)
  <2>1. CASE q = r
    <3>1. r.priority \in Nat /\ o1[r.name] \in Nat /\ o2[r.name] \in Nat
      BY DEF Rule
    <3> QED
      BY <2>1, <3>1 DEF Precedes
  <2>2. CASE q # r
    BY <2>2 DEF Precedes
  <2> QED
    BY <2>1, <2>2
<1>2. Firsts(rs, o1) = Firsts(rs, o2)
  BY <1>1 DEF Firsts
<1> QED
  BY <1>2 DEF FirstTarget

-----------------------------------------------------------------------------
(* Types.                                                                  *)

(***************************************************************************)
(* callExtract makes an extraction of every valid answer.                  *)
(***************************************************************************)
LEMMA ExtractedType ==
    ASSUME NEW a \in Answer, Valid(a)
    PROVE  /\ Extracted(a) \in Extraction
           /\ Extracted(a).unverified = Unverified(Extracted(a).contact, Extracted(a).quote)
<1>1. Cleaned(a.contact) \in [Fields -> Values \ {"blank"}]
  BY DEF Cleaned, Answer, Values
<1>2. Unverified(Cleaned(a.contact), a.quote) \in SUBSET (Fields \cup Labels)
  BY DEF Unverified
<1> QED
  BY <1>1, <1>2 DEF Extracted, Extraction, Valid, Answer

(***************************************************************************)
(* An extraction is not the placeholder for one.                           *)
(***************************************************************************)
LEMMA NoExtractionIsNone == NoExtraction \notin Extraction
<1>1. DOMAIN NoExtraction = {"none"}
  BY DEF NoExtraction
<1>2. \A x \in Extraction : "contact" \in DOMAIN x
  BY DEF Extraction
<1> QED
  BY <1>1, <1>2

(***************************************************************************)
(* What Trusted leaves is of the type of a contact.                        *)
(***************************************************************************)
LEMMA TrustedType ==
    ASSUME NEW x \in Extraction
    PROVE  Trusted(x) \in [Fields -> Values \ {"blank"}]
BY DEF Trusted, Extraction, Values

(***************************************************************************)
(* What MatchContact returns is one of the four methods.                   *)
(***************************************************************************)
LEMMA MatchType ==
    ASSUME NEW c, NEW d \in Directory
    PROVE  MatchContact(c, d) \in
               [method: {"none", "email_exact", "phone_exact", "trgm_name"}, score: Int]
<1>1. FuzzyScore(d, c) \in Int
  <2>1. d.name \in Int /\ d.company \in Int
    BY DEF Directory
  <2>2. (15 * d.company) \div 100 \in Int
    BY <2>1
  <2> QED
    BY <2>1, <2>2 DEF FuzzyScore
<1> QED
  BY <1>1 DEF MatchContact, NoMatch

(***************************************************************************)
(* Route's action is one of the plans.                                     *)
(***************************************************************************)
LEMMA RouteType ==
    ASSUME NEW x, NEW m, NEW rs
    PROVE  Route(x, m, rs) \in {"review", "junk", "clarify", "attach", "flag", "create"}
BY DEF Route

(***************************************************************************)
(* Both orders of names are orders.                                        *)
(***************************************************************************)
LEMMA Orders == Collation \in [Names -> Nat] /\ ByteOrder \in [Names -> Nat]
BY TriageAssumption DEF ByteOrder

(***************************************************************************)
(* The variables of a run are of their types, whatever the models say.     *)
(***************************************************************************)
THEOREM TriageTypeCorrect == TriageSpec => []TriageTypeOK
<1>1. TriageInit => TriageTypeOK
  BY DEF TriageInit, TriageTypeOK, NoMatch, NoContact, Values, Planned!Plans
<1>2. TriageTypeOK /\ [TriageNext]_triageVars => TriageTypeOK'
  <2> SUFFICES ASSUME TriageTypeOK, [TriageNext]_triageVars
               PROVE  TriageTypeOK'
    OBVIOUS
  <2> USE NoExtractionIsNone DEF TriageTypeOK
  <2>1. ASSUME NEW a \in Answers, Tier1Answers(a) \/ Tier2Answers(a)
        PROVE  TriageTypeOK'
    <3>1. Extracted(a) \in Extraction
      BY <2>1, TriageAssumption, ExtractedType DEF Tier1Answers, Tier2Answers, Told
    <3> QED
      BY <2>1, <3>1 DEF Tier1Answers, Tier2Answers, Told
  <2>2. CASE Tier1Fails
    BY <2>2 DEF Tier1Fails, Untold
  <2>3. CASE Tier2Fails
    BY <2>3 DEF Tier2Fails, Untold
  <2>4. ASSUME NEW d \in Directories, Match(d)
        PROVE  TriageTypeOK'
    <3>1. match' \in [method: {"none", "email_exact", "phone_exact", "trgm_name"}, score: Int]
      BY <2>4, TriageAssumption, MatchType DEF Match, NoMatch
    <3> QED
      BY <2>4, <3>1 DEF Match
  <2>5. ASSUME NEW rs \in RuleSets, Decide(rs)
        PROVE  TriageTypeOK'
    <3>1. plan' \in Planned!Plans
      BY <2>5, RouteType DEF Decide, Planned!Plans
    <3> QED
      BY <2>5, <3>1 DEF Decide
  <2>6. CASE Act
    <3>1. ex \in Extraction
      BY <2>6 DEF Act
    <3>2. Matching(rules, ex) \subseteq Rule
      BY TriageAssumption DEF Matching
    <3>3. Assigned \subseteq Targets \cup {NoTarget}
      BY <3>2, Orders, FirstTargetType DEF Assigned
    <3> QED
      BY <2>6, <3>1, <3>3, TrustedType DEF Act
  <2>7. CASE UNCHANGED triageVars
    BY <2>7 DEF triageVars
  <2> QED
    BY <2>1, <2>2, <2>3, <2>4, <2>5, <2>6, <2>7 DEF TriageNext
<1> QED
  BY <1>1, <1>2, PTL DEF TriageSpec

-----------------------------------------------------------------------------
(* What is written, and why.                                               *)

(***************************************************************************)
(* Every step of a run works on the answer it was given.                   *)
(***************************************************************************)
THEOREM DerivationHolds == TriageSpec => []Derived
<1>1. TriageInit => Derived
  BY DEF TriageInit, Derived
<1>2. TriageTypeOK /\ Derived /\ [TriageNext]_triageVars => Derived'
  <2> SUFFICES ASSUME TriageTypeOK, Derived, [TriageNext]_triageVars
               PROVE  Derived'
    OBVIOUS
  <2> USE DEF Derived
  <2>1. ASSUME NEW a \in Answers, Tier1Answers(a) \/ Tier2Answers(a)
        PROVE  Derived'
    <3>1. ex'.unverified = Unverified(ex'.contact, ex'.quote)
      BY <2>1, TriageAssumption, ExtractedType DEF Tier1Answers, Tier2Answers, Told
    <3>2. at \in {"tier1", "fallback", "escalate"} /\ at' \in {"escalate", "match"}
      BY <2>1 DEF Tier1Answers, Tier2Answers
    <3>3. UNCHANGED <<match, rules, plan, contact, target>>
      BY <2>1 DEF Tier1Answers, Tier2Answers, Told
    <3> QED
      BY <3>1, <3>2, <3>3
  <2>2. CASE Tier1Fails
    BY <2>2 DEF Tier1Fails, Untold
  <2>3. CASE Tier2Fails
    BY <2>3 DEF Tier2Fails, Untold
  <2>4. ASSUME NEW d \in Directories, Match(d)
        PROVE  Derived'
    <3>1. match' # NoMatch => match' = MatchContact(Trusted(ex'), d)
      BY <2>4 DEF Match
    <3>2. at = "match" /\ at' = "route" /\ UNCHANGED <<ex, rules, plan, contact, target>>
      BY <2>4 DEF Match
    <3> QED
      BY <3>1, <3>2
  <2>5. ASSUME NEW rs \in RuleSets, Decide(rs)
        PROVE  Derived'
    BY <2>5 DEF Decide
  <2>6. CASE Act
    <3>1. at = "act" /\ at' = "done" /\ UNCHANGED <<ex, match, rules, plan>>
      BY <2>6 DEF Act
    <3>2. Assigned' = Assigned
      BY <3>1 DEF Assigned
    <3>3. IF plan \in {"attach", "create"}
          THEN contact' = Trusted(ex) /\ target' \in Assigned
          ELSE UNCHANGED <<contact, target>>
      BY <2>6 DEF Act
    <3> QED
      BY <3>1, <3>2, <3>3
  <2>7. CASE UNCHANGED triageVars
    <3>1. UNCHANGED <<at, ex, match, rules, plan, contact, target>>
      BY <2>7 DEF triageVars
    <3>2. Assigned' = Assigned
      BY <3>1 DEF Assigned
    <3> QED
      BY <3>1, <3>2
  <2> QED
    BY <2>1, <2>2, <2>3, <2>4, <2>5, <2>6, <2>7 DEF TriageNext
<1> QED
  BY <1>1, <1>2, TriageTypeCorrect, PTL DEF TriageSpec

(***************************************************************************)
(* A field Trusted leaves is in the text, or its quote is.                 *)
(***************************************************************************)
LEMMA TrustedIsBacked ==
    ASSUME ex \in Extraction, ex.unverified = Unverified(ex.contact, ex.quote),
           NEW f \in Fields, Trusted(ex)[f] # "nil"
    PROVE  Backed(f)
<1>1. f \notin ex.unverified /\ Trusted(ex)[f] = ex.contact[f]
  BY DEF Trusted
<1>2. ex.contact[f] \in {"stated", "invented"}
  BY <1>1 DEF Extraction, Values
<1>3. f \notin Labels
  BY DEF Fields, Labels
<1> QED
  BY <1>1, <1>2, <1>3 DEF Unverified, Backed

(***************************************************************************)
(* MatchContact found a contact by a field it was given.                   *)
(***************************************************************************)
LEMMA MatchedByItsField ==
    ASSUME NEW c \in [Fields -> Values \ {"blank"}], NEW d \in Directory
    PROVE  LET m == MatchContact(c, d) IN
           /\ m.method = "email_exact" => c["email"] # "nil"
           /\ m.method = "phone_exact" => c["phone"] # "nil"
           /\ m.method = "trgm_name" => c["name"] # "nil" /\ m.score <= 94
<1>1. FuzzyScore(d, c) <= 94
  <2>1. d.name \in Int /\ d.company \in Int
    BY DEF Directory
  <2>2. (15 * d.company) \div 100 \in Int
    BY <2>1
  <2> QED
    BY <2>1, <2>2 DEF FuzzyScore
<1>2. d.email \subseteq {"stated", "invented"} /\ d.phone \subseteq {"stated", "invented"}
  BY DEF Directory
<1> QED
  BY <1>1, <1>2 DEF MatchContact, NoMatch

(***************************************************************************)
(* Nothing that is not backed by the text is used.                         *)
(***************************************************************************)
THEOREM UnbackedIsUnused == TriageSpec => []NothingUnbackedIsUsed
<1>1. TriageTypeOK /\ Derived => NothingUnbackedIsUsed
  <2> SUFFICES ASSUME TriageTypeOK, Derived
               PROVE  NothingUnbackedIsUsed
    OBVIOUS
  <2>1. ex # NoExtraction => /\ ex \in Extraction
                             /\ ex.unverified = Unverified(ex.contact, ex.quote)
    BY DEF TriageTypeOK, Derived
  <2>2. ASSUME NEW f \in Fields, contact[f] # "nil"
        PROVE  Backed(f)
    <3>1. at = "done" /\ contact = Trusted(ex)
      BY <2>2 DEF Derived, NoContact
    <3>2. ex # NoExtraction
      BY <3>1 DEF TriageTypeOK
    <3> QED
      BY <2>1, <2>2, <3>1, <3>2, TrustedIsBacked
  <2>3. ASSUME match # NoMatch
        PROVE  /\ match.method = "email_exact" => Backed("email")
               /\ match.method = "phone_exact" => Backed("phone")
               /\ match.method = "trgm_name" => Backed("name")
    <3>1. ex # NoExtraction
      BY <2>3 DEF TriageTypeOK, Derived
    <3>2. PICK d \in Directories : match = MatchContact(Trusted(ex), d)
      BY <2>3 DEF Derived
    <3>3. /\ match.method = "email_exact" => Trusted(ex)["email"] # "nil"
          /\ match.method = "phone_exact" => Trusted(ex)["phone"] # "nil"
          /\ match.method = "trgm_name" => Trusted(ex)["name"] # "nil"
      BY <2>1, <3>1, <3>2, TrustedType, MatchedByItsField, TriageAssumption
    <3>4. "email" \in Fields /\ "phone" \in Fields /\ "name" \in Fields
      BY DEF Fields
    <3> QED
      BY <2>1, <3>1, <3>3, <3>4, TrustedIsBacked
  <2>4. ASSUME plan \notin {"none", "review"}
        PROVE  ex.quote["enquiry_type"] # "invented"
    <3>1. at \in {"act", "done"} /\ plan = Route(ex, match, rules)
      BY <2>4 DEF Derived
    <3>2. "enquiry_type" \notin ex.unverified
      BY <2>4, <3>1 DEF Route
    <3>3. ex.unverified = Unverified(ex.contact, ex.quote)
      BY <2>1, <3>1 DEF TriageTypeOK
    <3> QED
      BY <3>2, <3>3 DEF Unverified, Labels
  <2>5. match = NoMatch => match.method = "none"
    BY DEF NoMatch
  <2> QED
    BY <2>2, <2>3, <2>4, <2>5 DEF NothingUnbackedIsUsed
<1> QED
  BY <1>1, TriageTypeCorrect, DerivationHolds, PTL

(***************************************************************************)
(* No contact is written that nothing would reach or recognise.            *)
(***************************************************************************)
THEOREM RecordsAreReachable == TriageSpec => []RecordIsReachable
<1>1. TriageTypeOK /\ Derived => RecordIsReachable
  <2> SUFFICES ASSUME TriageTypeOK, Derived, at = "done", plan \in {"attach", "create"}
               PROVE  \E f \in {"email", "phone", "name"} : contact[f] # "nil"
    BY DEF RecordIsReachable
  <2>1. contact = Trusted(ex) /\ plan = Route(ex, match, rules)
    BY DEF Derived
  <2>2. Identifiable(ex)
    BY <2>1 DEF Route
  <2> QED
    BY <2>1, <2>2 DEF Identifiable, Trusted, Fields
<1> QED
  BY <1>1, TriageTypeCorrect, DerivationHolds, PTL

(***************************************************************************)
(* A similar name attaches nothing.                                        *)
(***************************************************************************)
THEOREM AttachmentsAreExact == TriageSpec => []AttachedExactly
<1>1. TriageTypeOK /\ Derived => AttachedExactly
  <2> SUFFICES ASSUME TriageTypeOK, Derived,
                      plan = "attach", AutoAttachMatchThreshold > 94
               PROVE  match.method \in {"email_exact", "phone_exact"}
    BY DEF AttachedExactly
  <2>1. at \in {"act", "done"} /\ plan = Route(ex, match, rules)
    BY DEF Derived
  <2>2. match.method # "none" /\ match.score >= AutoAttachMatchThreshold
    BY <2>1 DEF Route
  <2>3. match # NoMatch
    BY <2>2 DEF NoMatch
  <2>4. PICK d \in Directories : match = MatchContact(Trusted(ex), d)
    BY <2>3 DEF Derived
  <2>5. ex \in Extraction
    BY <2>1 DEF TriageTypeOK
  <2>6. match.method = "trgm_name" => match.score <= 94
    BY <2>4, <2>5, TrustedType, MatchedByItsField, TriageAssumption
  <2>7. /\ match.method \in {"none", "email_exact", "phone_exact", "trgm_name"}
        /\ match.score \in Int
    BY DEF TriageTypeOK
  <2>8. match.method # "trgm_name"
    BY <2>2, <2>6, <2>7, TriageAssumption
  <2> QED
    BY <2>2, <2>7, <2>8
<1> QED
  BY <1>1, TriageTypeCorrect, DerivationHolds, PTL

(***************************************************************************)
(* An attachment goes to the team the router would have chosen, or none.   *)
(***************************************************************************)
THEOREM TeamsAgree == TriageSpec => []NoOtherTeam
<1>1. TriageTypeOK /\ Derived => NoOtherTeam
  <2> SUFFICES ASSUME TriageTypeOK, Derived, at = "done",
                      plan \in {"attach", "create"}, PrioritiesDiffer
               PROVE  \/ target = FirstTarget(Matching(rules, ex), ByteOrder)
                      \/ plan = "attach" /\ target = NoTarget
    BY DEF NoOtherTeam
  <2>1. target \in Assigned
    BY DEF Derived
  <2>2. /\ Matching(rules, ex) \subseteq Rule
        /\ \A r, q \in Matching(rules, ex) : r.priority = q.priority => r = q
    BY TriageAssumption DEF Matching, PrioritiesDiffer, TriageTypeOK
  <2>3. FirstTarget(Matching(rules, ex), Collation) = FirstTarget(Matching(rules, ex), ByteOrder)
    BY <2>2, Orders, OrderIsNoMatter
  <2> QED
    BY <2>1, <2>3 DEF Assigned
<1> QED
  BY <1>1, TriageTypeCorrect, DerivationHolds, PTL

(***************************************************************************)
(* The router decides what the stages of the pipeline say it decides.      *)
(***************************************************************************)
THEOREM RoutesAsPlanned == TriageSpec => []RoutedAsPlanned
<1>1. TriageTypeOK /\ Derived => RoutedAsPlanned
  <2> SUFFICES ASSUME TriageTypeOK, Derived, at \in {"act", "done"}
               PROVE  plan = Planned!Route(ClassOf(ex), MatchOf(match),
                                           Matching(rules, ex) # {})
    BY DEF RoutedAsPlanned
  <2>1. plan = Route(ex, match, rules) /\ ex \in Extraction
    BY DEF Derived, TriageTypeOK
  <2>2. Identifiable(ex) <=>
            ~ \A f \in {"email", "phone", "name"} : Trusted(ex)[f] = "nil"
    BY DEF Identifiable, Trusted, Fields
  <2>3. CASE ex.confidence < ConfidenceThreshold \/ "enquiry_type" \in ex.unverified
    <3>1. plan = "review"
      BY <2>1, <2>3 DEF Route
    <3>2. ClassOf(ex) = "unsure"
      BY <2>3 DEF ClassOf
    <3> QED
      BY <3>1, <3>2 DEF Planned!Route
  <2>4. CASE ~ (ex.confidence < ConfidenceThreshold \/ "enquiry_type" \in ex.unverified)
    <3>1. ClassOf(ex) = IF ex.enquiry_type = "junk" THEN "junk"
                        ELSE IF \/ ex.missing
                                \/ ex.enquiry_type = "insufficient_info"
                                \/ ~ Identifiable(ex)
                             THEN "incomplete" ELSE "complete"
      BY <2>2, <2>4 DEF ClassOf
    <3>2. CASE match.method = "none"
      BY <2>1, <2>4, <3>1, <3>2 DEF Route, MatchOf, Planned!Route
    <3>3. CASE match.method # "none"
      BY <2>1, <2>4, <3>1, <3>3 DEF Route, MatchOf, Planned!Route
    <3> QED
      BY <3>2, <3>3
  <2> QED
    BY <2>3, <2>4
<1> QED
  BY <1>1, TriageTypeCorrect, DerivationHolds, PTL
=============================================================================
