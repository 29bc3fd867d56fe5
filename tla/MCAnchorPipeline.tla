-------------------------- MODULE MCAnchorPipeline --------------------------
(* Finite instances of AnchorPipeline: the second and third event fall in a    *)
(* later window than the first, so two ingests can leave the same window.      *)
EXTENDS AnchorPipeline

MCEvent == 1 .. 3
MCTime == <<1, 3, 3>>

=============================================================================
