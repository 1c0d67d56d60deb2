------------------------------ MODULE MCPortia ------------------------------
EXTENDS Resources, TLC
Symmetry == Permutations(Schema) \cup Permutations(Field)
  \cup Permutations(Item) \cup Permutations(Annotation) \cup Permutations(Sample) \cup Permutations(Name)
=============================================================================
