--------------------------- MODULE MCEnquiryQueue ---------------------------
(* EnquiryQueue for TLC.                                                   *)
EXTENDS EnquiryQueue, TLC

\* Enquiries are interchangeable, and so are workers: sound for the safety
\* runs only.
QueueSymmetry == Permutations(Enquiries) \cup Permutations(Workers)
=============================================================================
