-------------------------------- MODULE Sizes --------------------------------
(***************************************************************************)
(* The laws of the size of a finite set, and of the least of some numbers, *)
(* as a hypothesis of the lemmas that count.  A proof module that extends  *)
(* this one proves SizeLaws from FiniteSetTheorems after those lemmas, so  *)
(* that this large module is not in the context of every proof step.       *)
(***************************************************************************)
EXTENDS Naturals, FiniteSets

\* The size of a finite set is a natural number.
SizeIsNat == \A S : IsFiniteSet(S) => Cardinality(S) \in Nat

\* The empty set is finite and has no element.
SizeOfEmpty == IsFiniteSet({}) /\ Cardinality({}) = 0

\* A singleton is finite and has one element.
SizeOfOne == \A x : IsFiniteSet({x}) /\ Cardinality({x}) = 1

\* A part of a finite set is finite and no larger.
SizeOfPart ==
  \A S, T : IsFiniteSet(S) /\ T \subseteq S =>
              IsFiniteSet(T) /\ Cardinality(T) <= Cardinality(S)

\* A new element makes a finite set larger by one.
SizeWith ==
  \A S, x : IsFiniteSet(S) =>
    /\ IsFiniteSet(S \union {x})
    /\ Cardinality(S \union {x}) = IF x \in S THEN Cardinality(S) ELSE Cardinality(S) + 1

\* Without one of its elements a finite set is smaller by one.
SizeWithout ==
  \A S, x : IsFiniteSet(S) =>
    /\ IsFiniteSet(S \ {x})
    /\ Cardinality(S \ {x}) = IF x \in S THEN Cardinality(S) - 1 ELSE Cardinality(S)

\* A set that maps one-to-one into a finite set is finite and no larger.
SizeInto ==
  \A S, T, f :
    IsFiniteSet(T) /\ f \in [S -> T] /\ (\A x, y \in S : f[x] = f[y] => x = y) =>
      IsFiniteSet(S) /\ Cardinality(S) <= Cardinality(T)

\* A set of numbers has a least one.
LeastExists == \A T \in SUBSET Nat : T # {} => \E x \in T : \A y \in T : x <= y

SizeLaws ==
  /\ LeastExists
  /\ SizeIsNat /\ SizeOfEmpty /\ SizeOfOne /\ SizeOfPart /\ SizeWith /\ SizeWithout
  /\ SizeInto

==============================================================================
