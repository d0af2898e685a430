----------------------------- MODULE MCRuleLoop -----------------------------
\* TLC instance of RuleLoop: every outcome of every rule of a short list.
EXTENDS RuleLoop
=============================================================================
