---------------------------- MODULE MCTopicMatch ----------------------------
(***************************************************************************)
(* Values for model checking the matching of topics.                       *)
(***************************************************************************)
EXTENDS TopicMatch

TwoChars == {"/", "a", "b"}
=============================================================================
