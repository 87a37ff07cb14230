-------------------------- MODULE MCLearningEngine --------------------------
(* An instance of LearningEngine: two objects, one of which holds a '|' that *)
(* cuts it down to the other when it is read back.                           *)
EXTENDS LearningEngine

MCObjects == {"tea", "tea|sugar"}
MCLoaded  == [o \in MCObjects |-> "tea"]
=============================================================================
