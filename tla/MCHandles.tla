------------------------------ MODULE MCHandles ------------------------------
EXTENDS Handles, TLC

Symmetry == Permutations(Conns) \union Permutations(Streams)
              \union Permutations(Deliveries)

=============================================================================
