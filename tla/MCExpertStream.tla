--------------------------- MODULE MCExpertStream ---------------------------
(* Model values and small instances of ExpertStream. *)
EXTENDS ExpertStream

Near == {0, 1}     \* every layer has experts: loads are speculated about
Far3 == {0, 4, 8}  \* no expert layer within three of another: never

MCCells == (0..(NumSlots - 1)) \X Experts
MCKeys == Layers \X Experts \X (1..Tensors)
MCData == Layers \X (1..Tensors) \X Experts
AsIs == [e \in Experts |-> e]
Swapped == [e \in Experts |-> NumExperts - 1 - e]
=============================================================================
