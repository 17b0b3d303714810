---------------------------- MODULE MCEvaluation -----------------------------
(* TLC instance of Evaluation. *)
EXTENDS Evaluation

\* Files without cases, with one or two, and with cases that cannot be run.
MCCaseFiles == {<<>>, <<"paths">>, <<"paths", "paths">>, <<"paths", "none">>, <<"paths", "no key">>}
\* What a snapshot holds makes no difference here.
MCRebuilds == {m \in Metadata : m.backend = "none" /\ ~m.degraded /\ m.content # Empty}
=============================================================================
