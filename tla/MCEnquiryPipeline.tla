------------------------- MODULE MCEnquiryPipeline -------------------------
(* EnquiryPipeline for TLC.                                                *)
EXTENDS EnquiryPipeline, TLC

\* Sound for the safety runs: no property names an enquiry, a worker or a
\* reviewer.
PipelineSymmetry ==
    Permutations(Enquiries) \cup Permutations(Workers) \cup Permutations(Reviewers)
=============================================================================
