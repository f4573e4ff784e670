-------------------------------- MODULE MCCrm --------------------------------
(* Crm for TLC: two enquiries of one sender, whom the CRM knows by phone.  *)
(* There is one team, with one user, and records attached without a team.  *)
EXTENDS Crm, TLC

CONSTANTS first, second, c1, c2, c3, c4

\* What an attempt took from the text, the other fields being absent.
Taking(some) == some @@ Nobody

SomeOffers ==
    first :> {Taking("email" :> "a@x" @@ "company" :> "X"), Taking("name" :> "B")}
    @@ second :> {Taking("email" :> "a@x" @@ "phone" :> "1" @@ "name" :> "B"),
                  Taking("phone" :> "2")}

\* The second enquiry gives no name the CRM knows: both may create the contact.
RaceOffers ==
    first :> {Taking("email" :> "a@x")} @@ second :> {Taking("email" :> "a@x")}

SomeBook == c1 :> Taking("phone" :> "1" @@ "name" :> "A")

SomeDomain(address) == IF address = "a@x" THEN "x" ELSE None

SomeRoster == <<[role |-> "sales_rep", team |-> "sales"]>>

SomeRuns == first :> 2 @@ second :> 1

CrmSymmetry == Permutations(Workers)
=============================================================================
