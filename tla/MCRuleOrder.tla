---------------------------- MODULE MCRuleOrder ----------------------------
(***************************************************************************)
(* A small instance of RuleOrder for TLC.                                  *)
(***************************************************************************)
EXTENDS RuleOrder

\* 'a2', whose integer part cannot grow without a longer head; 'Z0', whose
\* integer part cannot shrink without one; and 'a02', which has a fraction.
MCStartKeys == {<<0, 2>>, <<-1, 0>>, <<0, 0, 2>>}
=============================================================================
