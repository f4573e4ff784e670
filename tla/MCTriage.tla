------------------------------ MODULE MCTriage ------------------------------
(* Values for the constants of Triage. *)
EXTENDS Triage

\* Every answer that differs from this one in at most three arguments.
Plain == [contact |-> [f \in Fields |-> IF f = "email" THEN "stated" ELSE "nil"],
          quote |-> [f \in Fields \cup Labels |-> "none"],
          enquiry_type |-> "sales", urgency |-> "high",
          confidence |-> 90, missing |-> FALSE]

Varied(as) == as
    \cup {[a EXCEPT !.contact[f] = v] : a \in as, f \in Fields, v \in Values}
    \cup {[a EXCEPT !.quote[f] = q] : a \in as, f \in Fields \cup {"enquiry_type"}, q \in Quotes}
    \cup {[a EXCEPT !.enquiry_type = t] : a \in as, t \in Types \cup {"other"}}
    \cup {[a EXCEPT !.urgency = u] : a \in as, u \in {"low", "other"}}
    \cup {[a EXCEPT !.confidence = c] : a \in as, c \in {70, 101}}
    \cup {[a EXCEPT !.missing = TRUE] : a \in as}

SomeAnswers == Varied(Varied(Varied({Plain})))

\* The rules of config/routing_rules.json for sales, one that shares a priority
\* and one with a misspelt key.
HighValue == [name |-> 2, priority |-> 1, target |-> "enterprise",
              condition |-> [enquiry_type |-> "sales", urgency |-> "high"]]
General == [name |-> 1, priority |-> 10, target |-> "inbound",
            condition |-> [enquiry_type |-> "sales"]]
Urgent == [name |-> 4, priority |-> 1, target |-> "support",
           condition |-> [urgency |-> "high"]]
Misspelt == [name |-> 3, priority |-> 0, target |-> "support",
             condition |-> [other |-> "sales"]]

SomeRuleSets == {{}, {HighValue, General}, {HighValue, General, Urgent}, {Misspelt, General}}

SomeNames == {1, 2, 3, 4}

\* Byte order and the order of a natural language differ in capital letters.
Collated == <<1, 4, 3, 2>>

SomeDirectories ==
    {[email |-> e, phone |-> p, name |-> n, company |-> 100] :
        e \in {{}, {"stated"}, {"invented"}}, p \in {{}, {"stated", "invented"}},
        n \in {20, 60, 100}}
=============================================================================
