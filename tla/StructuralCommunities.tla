------------------------- MODULE StructuralCommunities -------------------------
(***************************************************************************)
(* annotate_structural_communities of graph_algorithms/communities.rs: the  *)
(* nodes of a returned graph vote for labels, one node after the other in   *)
(* the order of their ids, until a round changes none or the rounds are     *)
(* used up; the nodes of a label are a community.  One step is the vote of  *)
(* one node.                                                               *)
(***************************************************************************)
EXTENDS Naturals, FiniteSets, FiniteSetsExt

CONSTANTS
    Members,     \* node ids, numbers: their order is that of the strings
    MaxRounds    \* MAX_LABEL_PROPAGATION_ROUNDS

ASSUME CommunitiesAssumption ==
    Members \subseteq Nat /\ Members # {} /\ IsFiniteSet(Members) /\ MaxRounds \in Nat \ {0}

VARIABLES
    ties,       \* the edges, without their direction and without self edges
    label,      \* labels
    voters,     \* the nodes that still vote in the round
    changed,    \* a vote of the round changed a label
    round,
    settled     \* the last round changed nothing

communityVars == <<ties, label, voters, changed, round, settled>>

CommunityTypeOK ==
    /\ ties \subseteq {e \in SUBSET Members : Cardinality(e) = 2}
    /\ label \in [Members -> Members] /\ voters \subseteq Members
    /\ changed \in BOOLEAN /\ settled \in BOOLEAN /\ round \in 1..MaxRounds

Neighbors(n) == {m \in Members : {n, m} \in ties}

\* structural_weight: a vote for the edge and one for each triangle it is a side of.
Grounds(n, m) == {{n, m, k} : k \in {m} \cup (Neighbors(n) \cap Neighbors(m))}
Votes(n) == UNION {{<<n, m, t>> : t \in Grounds(n, m)} : m \in Neighbors(n)}

\* The votes that the neighbors of a node give a label.
Score(n, l) == Cardinality({v \in Votes(n) : label[v[2]] = l})

\* Seeded fault: a tie goes to the largest label.
LargestOnTies(n, l, k) == Score(n, l) > Score(n, k) \/ (Score(n, l) = Score(n, k) /\ l >= k)

Beats(n, l, k) == Score(n, l) > Score(n, k) \/ (Score(n, l) = Score(n, k) /\ l <= k)

Voted(n) == {label[m] : m \in Neighbors(n)}
Winner(n) == CHOOSE l \in Voted(n) : \A k \in Voted(n) : Beats(n, l, k)

CommunityInit ==
    /\ ties \in SUBSET {e \in SUBSET Members : Cardinality(e) = 2}
    /\ label = [n \in Members |-> n] /\ voters = Members
    /\ changed = FALSE /\ round = 1 /\ settled = FALSE

\* Seeded fault: the last vote of a round decides whether the round changed anything.
LastVoteCounts ==
    /\ voters # {}
    /\ LET n == Min(voters)
           l == IF Neighbors(n) = {} THEN label[n] ELSE Winner(n)
       IN  /\ voters' = voters \ {n} /\ label' = [label EXCEPT ![n] = l]
           /\ changed' = (l # label[n])
    /\ UNCHANGED <<ties, round, settled>>

\* A node without neighbors keeps its label.
Vote ==
    /\ voters # {}
    /\ LET n == Min(voters)
           l == IF Neighbors(n) = {} THEN label[n] ELSE Winner(n)
       IN  /\ voters' = voters \ {n} /\ label' = [label EXCEPT ![n] = l]
           /\ changed' = (changed \/ l # label[n])
    /\ UNCHANGED <<ties, round, settled>>

EndRound ==
    /\ voters = {} /\ ~settled
    /\ \/ ~changed /\ settled' = TRUE /\ UNCHANGED <<voters, changed, round>>
       \/ /\ changed /\ round < MaxRounds
          /\ voters' = Members /\ changed' = FALSE /\ round' = round + 1 /\ UNCHANGED settled
    /\ UNCHANGED <<ties, label>>

CommunityNext == Vote \/ EndRound

--------------------------------------------------------------------------------
(* Properties.                                                             *)

\* The weight of the edges within communities, each counted from both its ends.
Agreement ==
    Cardinality({v \in UNION {Votes(n) : n \in Members} : label[v[1]] = label[v[2]]})

\* annotate_structural_communities: labels do not go round in circles.  A vote that
\* changes a label makes the communities hold more weight, or as much with a smaller
\* label, so that the rounds end by themselves; when they do, every node agrees with
\* its vote, and no community joins nodes that no edges connect.
CommunitiesImprove ==
    [][label' # label =>
         \/ Agreement' > Agreement
         \/ Agreement' = Agreement /\ \A n \in Members : label'[n] <= label[n]]_communityVars
CommunitiesSettle ==
    /\ settled => \A n \in Members : Neighbors(n) # {} => label[n] = Winner(n)
    /\ \A s \in SUBSET Members :
         (\A e \in ties : e \subseteq s \/ e \cap s = {})
         => \A n \in s : label[n] \in s
CommunityInv == CommunityTypeOK /\ CommunitiesSettle
================================================================================
