------------------------------ MODULE Counting ------------------------------
(***************************************************************************)
(* Facts about the cardinality of finite sets.  The lemmas of a proof      *)
(* module take Counting as a hypothesis; the module's last section proves  *)
(* it from the theorems of FiniteSetTheorems, which are then in scope only *)
(* where they are needed.                                                  *)
(***************************************************************************)
EXTENDS Integers, FiniteSets

CountNat == \A S : IsFiniteSet(S) => Cardinality(S) \in Nat

CountEmpty ==
  /\ IsFiniteSet({}) /\ Cardinality({}) = 0
  /\ \A S : IsFiniteSet(S) => (Cardinality(S) = 0 <=> S = {})

CountAdd ==
  \A S, x : IsFiniteSet(S) =>
    /\ IsFiniteSet(S \cup {x})
    /\ Cardinality(S \cup {x}) = IF x \in S THEN Cardinality(S) ELSE Cardinality(S) + 1

CountRemove ==
  \A S, x : IsFiniteSet(S) =>
    /\ IsFiniteSet(S \ {x})
    /\ Cardinality(S \ {x}) = IF x \in S THEN Cardinality(S) - 1 ELSE Cardinality(S)

CountSubset ==
  \A S, T : IsFiniteSet(S) /\ T \subseteq S =>
    IsFiniteSet(T) /\ Cardinality(T) <= Cardinality(S)

Counting == CountNat /\ CountEmpty /\ CountAdd /\ CountRemove /\ CountSubset

CountWhole == \A S, T : IsFiniteSet(S) /\ T \subseteq S /\ Cardinality(T) = Cardinality(S) => T = S

CountInterval == \A n \in Nat : /\ IsFiniteSet(1 .. n) /\ Cardinality(1 .. n) = n
                               /\ IsFiniteSet(0 .. n - 1) /\ Cardinality(0 .. n - 1) = n

\* A one-to-one f from S to T is onto exactly if S and T have the same size.
CountOnto ==
  \A S, T : \A f \in [S -> T] :
    IsFiniteSet(T) /\ (\A x, y \in S : f[x] = f[y] => x = y) =>
      (Cardinality(S) = Cardinality(T) <=> \A z \in T : \E x \in S : f[x] = z)

CountRest ==
  \A S, T : IsFiniteSet(S) /\ T \subseteq S =>
    Cardinality(S \ T) = Cardinality(S) - Cardinality(T)

Ranking == Counting /\ CountWhole /\ CountInterval /\ CountOnto /\ CountRest

=============================================================================
