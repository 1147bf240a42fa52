-------------------------- MODULE EtcdQuorumProofs --------------------------
(***************************************************************************)
(* Lemmas about the decisions of EtcdQuorum, on any member list and any    *)
(* machines, for the proofs of the components that take these decisions.   *)
(***************************************************************************)
EXTENDS EtcdQuorum, FiniteSetTheorems, WellFoundedInduction, TLAPS

\* A nonempty set of naturals has a smallest element.
LEMMA MinimumExists ==
  ASSUME NEW S, S \subseteq Nat, S # {}
  PROVE  \E x \in S : \A y \in S : x <= y
<1>1. PICK x \in S : \A y \in S : ~(<<y, x>> \in OpToRel(<, Nat))
  BY NatLessThanWellFounded, WFMin
<1>2. \A y \in S : ~(y < x)
  BY <1>1 DEF OpToRel
<1>. QED BY <1>2

-----------------------------------------------------------------------------
(* The projections of EtcdQuorum on sets *)

\* A larger cluster never needs a smaller majority.
LEMMA QuorumMonotone ==
  ASSUME NEW a \in Nat, NEW b \in Nat, a <= b
  PROVE  Quorum(a) <= Quorum(b) /\ Quorum(a) \in Nat /\ Quorum(b) \in Nat
  BY DEF Quorum

\* Machines of which enough are healthy voters make a majority.
LEMMA EnoughIsMajority ==
  ASSUME NEW V, IsFiniteSet(V), NEW U, NEW H, H \subseteq V \cap U,
         NEW n \in Nat, Cardinality(V) <= n, Cardinality(H) >= Quorum(n)
  PROVE  HasMajority(V, U)
<1>1. IsFiniteSet(V \cap U)
  BY FS_Subset
<1>2. IsFiniteSet(H) /\ Cardinality(H) <= Cardinality(V \cap U)
  BY <1>1, FS_Subset
<1>3. Cardinality(V) \in Nat /\ Cardinality(V \cap U) \in Nat /\ Cardinality(H) \in Nat
  BY <1>1, <1>2, FS_CardinalityType
<1>4. Quorum(Cardinality(V)) <= Quorum(n) /\ Quorum(n) \in Nat /\ Quorum(Cardinality(V)) \in Nat
  BY <1>3, QuorumMonotone
<1>. QED BY <1>2, <1>3, <1>4 DEF HasMajority

\* Voters that all run are a majority.
LEMMA AllUpIsMajority ==
  ASSUME NEW V, IsFiniteSet(V), V # {}, NEW U, V \subseteq U
  PROVE  HasMajority(V, U)
<1>1. Cardinality(V) \in Nat /\ Cardinality(V) # 0
  BY FS_CardinalityType, FS_EmptySet
<1>2. V \cap U = V
  OBVIOUS
<1>3. Cardinality(V) >= Quorum(Cardinality(V))
  BY <1>1 DEF Quorum
<1>. QED BY <1>2, <1>3 DEF HasMajority

\* canSafelyRemoveEtcdMember counts the target and the remaining voters apart: the
\* two counts add up to the size of the union.
LEMMA DisjointUnion ==
  ASSUME NEW S, NEW T, IsFiniteSet(S), IsFiniteSet(T), S \cap T = {}
  PROVE  Cardinality(S \cup T) = Cardinality(S) + Cardinality(T)
<1>1. Cardinality(S) \in Nat /\ Cardinality(T) \in Nat /\ Cardinality({}) = 0
  BY FS_CardinalityType, FS_EmptySet
<1>2. Cardinality(S \cup T) = Cardinality(S) + Cardinality(T) - Cardinality(S \cap T)
  BY FS_Union
<1>3. Cardinality(S \cap T) = 0
  BY <1>1
<1>. QED BY <1>1, <1>2, <1>3

\* canSafelyRemoveEtcdMember on any member list: the removal is committed by a
\* majority of the voters, and a majority of the others runs, also when the
\* target is a voter its machine cannot be matched with.
LEMMA SafeRemoval ==
  ASSUME NEW V, IsFiniteSet(V), NEW L, NEW t, NEW own, NEW nm, NEW H, NEW U, H \subseteq U,
         CanSafelyRemoveEtcdMember(V, L, t, own, nm, H)
  PROVE  HasMajority(V, U) /\ HasMajority(V \ {t}, U)
<1>. DEFINE T == FindEtcdMember(V, t, nm)
            R == V \ T
            RH == R \cap MatchedBy(own \ {t}, nm) \cap H
            TH == T \cap H
<1>1. /\ Cardinality(RH) + Cardinality(TH) >= Quorum(Cardinality(R) + Cardinality(T))
      /\ Cardinality(RH) >= Quorum(Cardinality(R))
  BY DEF CanSafelyRemoveEtcdMember
<1>2. T \subseteq V \cap {t}
  BY DEF FindEtcdMember, MatchedBy
<1>3. t \notin RH
  BY DEF MatchedBy
<1>. HIDE DEF T
<1>4. /\ IsFiniteSet(T) /\ IsFiniteSet(R) /\ IsFiniteSet(RH) /\ IsFiniteSet(TH)
      /\ IsFiniteSet(V \ {t})
  <2>1. T \in SUBSET V /\ R \in SUBSET V /\ RH \in SUBSET V /\ TH \in SUBSET V
    BY <1>2
  <2>. QED BY <2>1, FS_Subset
<1>5. Cardinality(R) + Cardinality(T) = Cardinality(V)
  <2>1. R \cup T = V /\ R \cap T = {}
    BY <1>2
  <2>. QED BY <1>4, <2>1, DisjointUnion
<1>6. Cardinality(RH) + Cardinality(TH) = Cardinality(RH \cup TH)
  <2>1. RH \cap TH = {}
    OBVIOUS
  <2>. QED BY <1>4, <2>1, DisjointUnion
<1>7. RH \cup TH \subseteq V \cap U
  BY <1>2
<1>8. RH \subseteq (V \ {t}) \cap U
  BY <1>3
<1>9. Cardinality(V \ {t}) <= Cardinality(R)
  <2>1. V \ {t} \in SUBSET R
    BY <1>2
  <2>. QED BY <1>4, <2>1, FS_Subset
<1>10. Cardinality(V) \in Nat /\ Cardinality(R) \in Nat
  BY <1>4, FS_CardinalityType
<1>. HIDE DEF R, RH, TH
<1>11. HasMajority(V, U)
  BY <1>1, <1>5, <1>6, <1>7, <1>10, EnoughIsMajority
<1>12. HasMajority(V \ {t}, U)
  BY <1>1, <1>4, <1>8, <1>9, <1>10, EnoughIsMajority
<1>. QED BY <1>11, <1>12

\* canSafelyAddEtcdMemberTo on any member list of more than one voter: the running
\* voters are a majority of a list that has one voter more.
LEMMA SafeAddition ==
  ASSUME NEW V, IsFiniteSet(V), NEW L, NEW own, NEW nm, NEW H, NEW U, H \subseteq U,
         Cardinality(V) > 1, CanSafelyAddEtcdMemberTo(V, L, own, nm, H)
  PROVE  Cardinality(V \cap U) >= Quorum(Cardinality(V) + 1)
<1>. DEFINE VH == V \cap MatchedBy(own, nm) \cap H
<1>1. IsFiniteSet(V \cap U) /\ VH \in SUBSET (V \cap U)
  BY FS_Subset
<1>2. IsFiniteSet(VH) /\ Cardinality(VH) <= Cardinality(V \cap U)
  BY <1>1, FS_Subset
<1>3. Cardinality(V) \in Nat /\ Cardinality(VH) \in Nat /\ Cardinality(V \cap U) \in Nat
  BY <1>1, <1>2, FS_CardinalityType
<1>4. Cardinality(VH) + 0 >= Quorum(Cardinality(V) + 1)
  BY <1>3 DEF CanSafelyAddEtcdMemberTo
<1>5. Quorum(Cardinality(V) + 1) \in Nat
  BY <1>3 DEF Quorum
<1>. HIDE DEF VH
<1>. QED BY <1>2, <1>3, <1>4, <1>5
-----------------------------------------------------------------------------
(* Matching members and machines *)

\* What identifyEtcdMember returns is a member of the list.
LEMMA IdentifiedMembers ==
  ASSUME NEW M, NEW m, NEW owned, NEW named, NEW matching
  PROVE  IdentifyEtcdMember(M, m, owned, named, matching).member \subseteq M
  BY DEF IdentifyEtcdMember, Identified, Unidentified, FindEtcdMember, MatchedBy

\* The ways identifyEtcdMember finds a member: by name, or by elimination.
LEMMA IdentifyCases ==
  ASSUME NEW M, NEW m, NEW owned, NEW named, NEW matching, NEW id,
         id = IdentifyEtcdMember(M, m, owned, named, matching), id.member # {}
  PROVE  \/ m \in named /\ id.member = M \cap ({m} \cap matching)
         \/ /\ m \notin named /\ owned \ {m} \subseteq named
            /\ id.member = M \ ((owned \ {m}) \cap matching)
            /\ Cardinality(id.member) = 1
<1>1. CASE m \in named
  BY <1>1 DEF IdentifyEtcdMember, Identified, Unidentified, FindEtcdMember, MatchedBy
<1>. DEFINE unmatched == M \ MatchedBy(owned \ {m}, matching)
<1>2. CASE m \notin named /\ Cardinality(unmatched) = 1 /\ owned \ {m} \subseteq named
  <2>1. id.member = unmatched \/ id.member = {}
    BY <1>2 DEF IdentifyEtcdMember, Identified, Unidentified, FindEtcdMember
  <2>. QED BY <1>2, <2>1 DEF MatchedBy
<1>3. CASE m \notin named /\ ~(Cardinality(unmatched) = 1 /\ owned \ {m} \subseteq named)
  BY <1>3 DEF IdentifyEtcdMember, Identified, Unidentified, FindEtcdMember
<1>. QED BY <1>1, <1>2, <1>3

\* identifyEtcdMember on any member list and any machines, whatever names they have.  A
\* verdict names at most one member.  A machine with a matching name, or without any name, is
\* never told to have no member, nor given another one's, when it has a member.  A machine
\* whose names do not match is told to have none, member or not.  And the member that
\* elimination finds may be the wrong one in two cases only: it is the member of no machine, or
\* that of a machine whose own names do not match it.
THEOREM IdentificationSound ==
  ASSUME NEW M, IsFiniteSet(M), NEW m, NEW owned, NEW named, NEW matching \in SUBSET named,
         NEW id, id = IdentifyEtcdMember(M, m, owned, named, matching), id.known
  PROVE  /\ id.member = {} \/ \E x \in M : id.member = {x}
         /\ m \in M /\ (m \in matching \/ m \notin named) => id.member = {m}
         /\ m \in named \ matching => id.member = {}
         /\ id.member \cap owned \subseteq {m} \cup (named \ matching)
<1>1. CASE id.member = {}
  <2>1. ~(m \in M /\ (m \in matching \/ m \notin named))
    BY <1>1 DEF IdentifyEtcdMember, Identified, Unidentified, FindEtcdMember, MatchedBy
  <2>. QED BY <1>1, <2>1
<1>2. CASE m \in named /\ id.member = M \cap ({m} \cap matching)
  BY <1>2
<1>3. CASE /\ m \notin named /\ owned \ {m} \subseteq named
           /\ id.member = M \ ((owned \ {m}) \cap matching) /\ Cardinality(id.member) = 1
  <2>1. id.member \in SUBSET M
    BY <1>3
  <2>2. IsFiniteSet(id.member)
    BY <2>1, FS_Subset
  <2>3. PICK x : id.member = {x}
    BY <1>3, <2>2, FS_Singleton
  <2>. QED BY <1>3, <2>1, <2>3
<1>. QED BY <1>1, <1>2, <1>3, IdentifyCases

\* etcdMembership.verify on any member list and any names: a list that passes has no fewer
\* members than there are machines that must be members, and no more than there are machines:
\* as many as there are machines when all must be members.
THEOREM VerificationCounts ==
  ASSUME NEW M, IsFiniteSet(M), NEW owned, IsFiniteSet(owned), NEW checked \in SUBSET owned,
         NEW named, NEW matching \in SUBSET named,
         VerifyMembership(M, owned, checked, named, matching)
  PROVE  /\ checked \cap named \subseteq M
         /\ Cardinality(checked) <= Cardinality(M) /\ Cardinality(M) <= Cardinality(owned)
<1>. DEFINE pending == checked \ named
            matched == M \cap (owned \cap matching)
            unmatched == M \ (owned \cap matching)
<1>1. /\ checked \cap named \subseteq M \cap matching
      /\ Cardinality(unmatched) = Cardinality(pending)
  BY DEF VerifyMembership, MatchedBy
<1>2. IsFiniteSet(matched) /\ IsFiniteSet(pending) /\ IsFiniteSet(unmatched)
  <2>1. matched \in SUBSET owned /\ pending \in SUBSET owned /\ unmatched \in SUBSET M
    OBVIOUS
  <2>. QED BY <2>1, FS_Subset
<1>3. Cardinality(M) = Cardinality(matched) + Cardinality(unmatched)
  <2>1. M = matched \cup unmatched /\ matched \cap unmatched = {}
    OBVIOUS
  <2>. QED BY <1>2, <2>1, DisjointUnion
<1>4. Cardinality(matched \cup pending) = Cardinality(matched) + Cardinality(pending)
  <2>1. matched \cap pending = {}
    OBVIOUS
  <2>. QED BY <1>2, <2>1, DisjointUnion
<1>5. /\ checked \in SUBSET (matched \cup pending) /\ matched \cup pending \in SUBSET owned
      /\ IsFiniteSet(matched \cup pending)
  <2>1. checked \in SUBSET (matched \cup pending) /\ matched \cup pending \in SUBSET owned
    BY <1>1
  <2>. QED BY <2>1, FS_Subset
<1>6. /\ Cardinality(checked) <= Cardinality(matched \cup pending)
      /\ Cardinality(matched \cup pending) <= Cardinality(owned)
  BY <1>5, FS_Subset
<1>. HIDE DEF matched, pending, unmatched
<1>7. Cardinality(M) = Cardinality(matched \cup pending)
  BY <1>1, <1>3, <1>4
<1>. QED BY <1>1, <1>6, <1>7
=============================================================================
