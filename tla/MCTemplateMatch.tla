-------------------------- MODULE MCTemplateMatch ---------------------------
(* Instance of TemplateMatch for TLC: all tuples of up to three fields and *)
(* all maps of up to two pairs.                                            *)
EXTENDS TemplateMatch

CONSTANTS a, b

Fields(n) == [1 .. n -> Field]

MCTuples == Fields(1) \cup Fields(2) \cup Fields(3)
MCMaps == Fields(2) \cup {d \in Fields(4) : d[1] # d[3]}
=============================================================================
