----------------------------- MODULE SubQueueProofs -----------------------------
(***************************************************************************)
(* The counters of a producer never give out an element that is not there, *)
(* for any number of consumers and elements.                               *)
(*                                                                         *)
(* The argument.  A consumer that holds ticket m and saw overcommit = o    *)
(* passes when m - o < tail.  The o failures it saw all held tickets below *)
(* m, and a ticket passes or fails only once, so at most m + 1 - o of the  *)
(* tickets up to m ever pass.  Hence at most `tail` tickets pass, and only *)
(* a ticket that passed advances head.                                     *)
(***************************************************************************)
EXTENDS PolledSubQueue, FiniteSetTheorems, TLAPS

(* The abbreviations of the actions. *)
USE DEF LoadedOvercommit, HeadAdded, OvercommitAdded

(* The failed tickets below n. *)
FailedBelow(n) == {f \in failed : f < n}

(* A consumer between its fetch_add of the tickets and its return. *)
Holding == {"compare", "claim", "giveup"}

(* A ticket has one holder, and its fate is decided once. *)
Tickets ==
  /\ \A c \in Consumers :
       cpc[c] \in Holding \cup {"take"} => ticket[c] < optimistic
  /\ \A c, d \in Consumers :
       c # d /\ cpc[c] \in Holding /\ cpc[d] \in Holding => ticket[c] # ticket[d]
  /\ \A c \in Consumers :
       /\ cpc[c] = "compare" => ticket[c] \notin passed \cup failed
       /\ cpc[c] = "claim" => ticket[c] \in passed \ claimed
       /\ cpc[c] = "giveup" => ticket[c] \in failed \ returned

(* The history sets and the counters that count them. *)
Fates ==
  /\ \A t \in passed \cup failed : t < optimistic
  /\ passed \cap failed = {}
  /\ claimed \subseteq passed
  /\ returned \subseteq failed
  /\ head = Cardinality(claimed)
  /\ overcommit = Cardinality(returned)

(* The overcommit a consumer saw counts failures older than its ticket. *)
SeenFailed ==
  /\ \A c \in Consumers :
       cpc[c] \in {"probe", "ticket"} => seen[c] <= Cardinality(failed)
  /\ \A c \in Consumers :
       cpc[c] = "compare" => seen[c] <= Cardinality(FailedBelow(ticket[c]))

(* Every ticket that passed is below top, and top leaves room in tail. *)
TopWithinTail ==
  /\ top <= optimistic
  /\ \A t \in passed : t < top
  /\ top - Cardinality(FailedBelow(top)) <= tail

Takers ==
  \A c \in Consumers : cpc[c] = "take" => index[c] < head

IInv ==
  /\ SubTypeOK
  /\ Tickets
  /\ Fates
  /\ SeenFailed
  /\ TopWithinTail
  /\ Takers
  /\ OvercommitWithinTicket
  /\ IndicesDiffer
--------------------------------------------------------------------------------
LEMMA BelowFinite ==
  ASSUME NEW S \in SUBSET Nat, NEW n \in Nat, \A t \in S : t < n
  PROVE  IsFiniteSet(S) /\ Cardinality(S) \in Nat /\ Cardinality(S) <= n
<1>1. IsFiniteSet(0 .. n - 1) /\ Cardinality(0 .. n - 1) <= n
  BY FS_Interval, SMTT(60)
<1>2. S \in SUBSET (0 .. n - 1)
  OBVIOUS
<1>3. IsFiniteSet(S) /\ Cardinality(S) <= Cardinality(0 .. n - 1)
  BY <1>1, <1>2, FS_Subset
<1>4. Cardinality(S) \in Nat /\ Cardinality(0 .. n - 1) \in Nat
  BY <1>1, <1>3, FS_CardinalityType
<1> QED BY <1>1, <1>3, <1>4

(* A larger set of failures has more failures below a larger bound. *)
LEMMA FailedBelowMonotone ==
  ASSUME NEW F \in SUBSET Nat, NEW G \in SUBSET Nat, F \subseteq G,
         NEW m \in Nat, NEW n \in Nat, m <= n
  PROVE  /\ Cardinality({f \in F : f < m}) \in Nat
         /\ Cardinality({f \in G : f < n}) \in Nat
         /\ Cardinality({f \in F : f < m}) <= Cardinality({f \in G : f < n})
         /\ Cardinality({f \in G : f < n}) <= n
<1> DEFINE A == {f \in F : f < m}
           B == {f \in G : f < n}
<1>0. ASSUME NEW f \in A PROVE f \in B
  <2>1. f \in Nat /\ f < m /\ f \in G
    OBVIOUS
  <2> QED BY <2>1
<1>1. A \in SUBSET Nat /\ B \in SUBSET Nat /\ A \in SUBSET B
  BY <1>0
<1>2. IsFiniteSet(B) /\ Cardinality(B) \in Nat /\ Cardinality(B) <= n
  BY <1>1, BelowFinite
<1>3. IsFiniteSet(A) /\ Cardinality(A) \in Nat
  BY <1>1, BelowFinite
<1>4. Cardinality(A) <= Cardinality(B)
  BY <1>1, <1>2, FS_Subset
<1> QED BY <1>2, <1>3, <1>4

LEMMA FailedBelowBounds ==
  ASSUME failed \in SUBSET Nat, NEW n \in Nat
  PROVE  /\ Cardinality(FailedBelow(n)) \in Nat
         /\ Cardinality(FailedBelow(n + 1)) \in Nat
         /\ Cardinality(FailedBelow(n)) <= Cardinality(FailedBelow(n + 1))
<1>1. n + 1 \in Nat /\ n <= n + 1 /\ failed \subseteq failed
  OBVIOUS
<1> QED BY <1>1, FailedBelowMonotone DEF FailedBelow

(* There is an element for every ticket that passed. *)
LEMMA PassedWithinTail ==
  ASSUME SubTypeOK, Fates, TopWithinTail
  PROVE  /\ IsFiniteSet(passed) /\ Cardinality(passed) \in Nat
         /\ Cardinality(passed) <= tail
<1> DEFINE F == FailedBelow(top)
<1> USE DEF SubTypeOK, Fates, TopWithinTail
<1>1. passed \in SUBSET Nat /\ F \in SUBSET Nat /\ (\A t \in passed : t < top)
      /\ (\A t \in F : t < top)
  BY DEF FailedBelow
<1>2. /\ IsFiniteSet(passed) /\ Cardinality(passed) \in Nat
      /\ IsFiniteSet(F) /\ Cardinality(F) \in Nat
  BY <1>1, BelowFinite
<1>3. passed \cap F = {}
  BY DEF FailedBelow
<1>4. Cardinality(passed \cup F) = Cardinality(passed) + Cardinality(F)
  BY <1>2, <1>3, FS_Union, FS_EmptySet, SMTT(60)
<1>5. (passed \cup F) \in SUBSET Nat /\ \A t \in passed \cup F : t < top
  BY <1>1
<1>6. Cardinality(passed \cup F) <= top
  BY <1>5, BelowFinite
<1> QED BY <1>2, <1>4, <1>6

LEMMA FatesFinite ==
  ASSUME SubTypeOK, Fates
  PROVE  /\ IsFiniteSet(failed) /\ Cardinality(failed) \in Nat
         /\ Cardinality(failed) <= optimistic
         /\ IsFiniteSet(claimed) /\ IsFiniteSet(returned)
         /\ Cardinality(returned) <= Cardinality(failed)
<1> USE DEF SubTypeOK, Fates
<1>1. /\ IsFiniteSet(failed) /\ Cardinality(failed) \in Nat
      /\ Cardinality(failed) <= optimistic
  BY BelowFinite
<1>2. IsFiniteSet(claimed)
  BY BelowFinite
<1>3. IsFiniteSet(returned) /\ Cardinality(returned) <= Cardinality(failed)
  BY <1>1, FS_Subset
<1> QED BY <1>1, <1>2, <1>3

LEMMA IInvInit == SubInit => IInv
<1> SUFFICES ASSUME SubInit PROVE IInv
  OBVIOUS
<1> USE DEF SubInit
<1>1. SubTypeOK
  BY DEF SubTypeOK, ConsumerStates
<1>2. Tickets /\ Takers /\ OvercommitWithinTicket /\ IndicesDiffer
  BY DEF Tickets, Holding, Takers, OvercommitWithinTicket, IndicesDiffer
<1>3. Fates
  BY FS_EmptySet DEF Fates
<1>4. SeenFailed
  BY DEF SeenFailed
<1>5. TopWithinTail
  <2>1. FailedBelow(top) = {}
    BY DEF FailedBelow
  <2> QED BY <2>1, FS_EmptySet DEF TopWithinTail
<1> QED BY <1>1, <1>2, <1>3, <1>4, <1>5 DEF IInv

--------------------------------------------------------------------------------
(* Publishing an element only makes room. *)
LEMMA PublishStep ==
  ASSUME IInv, Publish
  PROVE  IInv'
<1> USE DEF IInv, Publish, locals, history
<1>1. SubTypeOK'
  BY DEF SubTypeOK
<1>2. Tickets' /\ Fates' /\ Takers' /\ OvercommitWithinTicket' /\ IndicesDiffer'
  BY DEF Tickets, Fates, Takers, OvercommitWithinTicket, IndicesDiffer
<1>3. SeenFailed'
  BY DEF SeenFailed, FailedBelow
<1>4. TopWithinTail'
  <2>1. Cardinality(FailedBelow(top)) \in Nat
    BY FailedBelowBounds DEF SubTypeOK
  <2>2. FailedBelow(top)' = FailedBelow(top)
    BY DEF FailedBelow
  <2> QED BY <2>1, <2>2 DEF TopWithinTail, SubTypeOK
<1> QED BY <1>1, <1>2, <1>3, <1>4

(* The steps that only read the shared counters. *)
LEMMA LoadStep ==
  ASSUME IInv, NEW c \in Consumers,
         LoadTail(c) \/ LoadOvercommit(c) \/ Probe(c) \/ Take(c)
  PROVE  IInv'
<1> USE DEF IInv, LoadTail, LoadOvercommit, Probe, Take, Goto, counters, history
<1>1. SubTypeOK'
  BY ZenonT(60) DEF SubTypeOK, ConsumerStates
<1>2. Tickets'
  BY DEF Tickets, Holding, SubTypeOK
<1>3. Fates'
  BY DEF Fates
<1>4. SeenFailed'
  <2>1. overcommit <= Cardinality(failed)
    BY FatesFinite DEF Fates
  <2>2. \A d \in Consumers :
          cpc'[d] = "compare" => cpc[d] = "compare" /\ seen'[d] = seen[d] /\ ticket'[d] = ticket[d]
    BY DEF SubTypeOK
  <2>3. \A d \in Consumers :
          cpc'[d] \in {"probe", "ticket"} =>
            \/ cpc[d] \in {"probe", "ticket"} /\ seen'[d] = seen[d]
            \/ seen'[d] = overcommit
    BY DEF SubTypeOK
  <2> QED BY <2>1, <2>2, <2>3 DEF SeenFailed, FailedBelow
<1>5. TopWithinTail'
  BY DEF TopWithinTail, FailedBelow
<1>6. Takers' /\ OvercommitWithinTicket' /\ IndicesDiffer'
  BY DEF Takers, OvercommitWithinTicket, IndicesDiffer, SubTypeOK
<1> QED BY <1>1, <1>2, <1>3, <1>4, <1>5, <1>6

(* A new ticket is above all the others, and above every failure. *)
LEMMA TakeTicketStep ==
  ASSUME IInv, NEW c \in Consumers, TakeTicket(c)
  PROVE  IInv'
<1> USE DEF IInv, TakeTicket, Goto, history
<1>1. SubTypeOK'
  BY DEF SubTypeOK, ConsumerStates
<1>2. Tickets'
  BY DEF Tickets, Holding, SubTypeOK, Fates
<1>3. Fates'
  BY DEF Fates, SubTypeOK
<1>4. /\ seen[c] <= Cardinality(failed) /\ Cardinality(failed) <= optimistic
      /\ FailedBelow(optimistic) = failed /\ Cardinality(failed) \in Nat
  BY FatesFinite DEF SeenFailed, Fates, FailedBelow
<1>5. SeenFailed'
  <2>1. ASSUME NEW d \in Consumers, cpc'[d] = "compare"
        PROVE  seen'[d] <= Cardinality(FailedBelow(ticket[d])')
    <3>1. CASE d = c
      <4>1. ticket'[d] = optimistic /\ seen'[d] = seen[c]
        BY <3>1 DEF SubTypeOK
      <4>2. FailedBelow(ticket[d])' = FailedBelow(optimistic)
        BY <4>1 DEF FailedBelow
      <4> QED BY <1>4, <4>1, <4>2
    <3>2. CASE d # c
      <4>1. cpc[d] = "compare" /\ ticket'[d] = ticket[d] /\ seen'[d] = seen[d]
        BY <2>1, <3>2 DEF SubTypeOK
      <4>2. FailedBelow(ticket[d])' = FailedBelow(ticket[d])
        BY <4>1 DEF FailedBelow
      <4> QED BY <4>1, <4>2 DEF SeenFailed
    <3> QED BY <3>1, <3>2
  <2>2. \A d \in Consumers : cpc'[d] \in {"probe", "ticket"} => cpc[d] = cpc'[d]
    BY DEF SubTypeOK
  <2> QED BY <2>1, <2>2 DEF SeenFailed
<1>6. TopWithinTail'
  BY DEF TopWithinTail, FailedBelow, SubTypeOK
<1>7. OvercommitWithinTicket'
  BY <1>4 DEF OvercommitWithinTicket, SubTypeOK
<1>8. Takers' /\ IndicesDiffer'
  BY DEF Takers, IndicesDiffer, SubTypeOK
<1> QED BY <1>1, <1>2, <1>3, <1>5, <1>6, <1>7, <1>8

(* A ticket passes: the failures it saw are below it. *)
LEMMA PassStep ==
  ASSUME IInv, NEW c \in Consumers, Compare(c), Passes(c)
  PROVE  IInv'
<1> DEFINE m == ticket[c]
<1> USE DEF IInv, Compare, Goto, counters
<1>0. /\ cpc[c] = "compare" /\ m \in Nat /\ m < optimistic
      /\ passed' = passed \cup {m} /\ failed' = failed
      /\ top' = (IF m + 1 > top THEN m + 1 ELSE top)
      /\ m \notin passed \cup failed
  BY DEF SubTypeOK, Tickets, Holding
<1>1. SubTypeOK'
  <2>1. passed' \subseteq Nat /\ top' \in Nat
    <3>1. passed \subseteq Nat /\ top \in Nat
      BY DEF SubTypeOK
    <3> HIDE DEF m, IInv, Compare, Goto, counters
    <3> QED BY <1>0, <3>1
  <2>2. cpc' \in [Consumers -> ConsumerStates]
    BY DEF SubTypeOK, ConsumerStates
  <2> QED BY <1>0, <2>1, <2>2 DEF SubTypeOK
<1>2. Tickets'
  BY DEF Tickets, Holding, SubTypeOK, Fates
<1>3. Fates'
  BY <1>0 DEF Fates, SubTypeOK
<1>4. SeenFailed'
  BY DEF SeenFailed, FailedBelow, SubTypeOK
<1>5. TopWithinTail'
  <2>1. /\ seen[c] <= Cardinality(FailedBelow(m))
        /\ m - seen[c] < tail
    BY <1>0 DEF SeenFailed, Passes
  <2>2. /\ Cardinality(FailedBelow(m)) \in Nat
        /\ Cardinality(FailedBelow(m + 1)) \in Nat
        /\ Cardinality(FailedBelow(m)) <= Cardinality(FailedBelow(m + 1))
    BY <1>0, FailedBelowBounds DEF SubTypeOK
  <2>3. (m + 1) - Cardinality(FailedBelow(m + 1)) <= tail
    BY <1>0, <2>1, <2>2 DEF SubTypeOK
  <2>4. \A n : FailedBelow(n)' = {f \in failed : f < n'}
    BY <1>0 DEF FailedBelow
  <2>5. top' - Cardinality(FailedBelow(top)') <= tail'
    <3>1. CASE m + 1 > top
      <4>1. FailedBelow(top)' = FailedBelow(m + 1)
        BY <1>0, <3>1 DEF FailedBelow
      <4> QED BY <1>0, <2>3, <3>1, <4>1
    <3>2. CASE ~(m + 1 > top)
      <4>1. FailedBelow(top)' = FailedBelow(top)
        BY <1>0, <3>2 DEF FailedBelow
      <4> QED BY <1>0, <3>2, <4>1 DEF TopWithinTail
    <3> QED BY <3>1, <3>2
  <2>6. top' <= optimistic' /\ \A t \in passed' : t < top'
    BY <1>0 DEF TopWithinTail, SubTypeOK
  <2> QED BY <2>5, <2>6 DEF TopWithinTail
<1>6. Takers' /\ OvercommitWithinTicket' /\ IndicesDiffer'
  BY DEF Takers, OvercommitWithinTicket, IndicesDiffer, SubTypeOK
<1> QED BY <1>1, <1>2, <1>3, <1>4, <1>5, <1>6

(* A ticket fails: there are only more failures. *)
LEMMA FailStep ==
  ASSUME IInv, NEW c \in Consumers, Compare(c), ~Passes(c)
  PROVE  IInv'
<1> DEFINE m == ticket[c]
<1> USE DEF IInv, Compare, Goto, counters
<1>0. /\ cpc[c] = "compare" /\ m \in Nat /\ m < optimistic
      /\ failed' = failed \cup {m} /\ passed' = passed /\ top' = top
      /\ m \notin passed \cup failed
  BY DEF SubTypeOK, Tickets, Holding
<1>1. SubTypeOK'
  BY <1>0 DEF SubTypeOK, ConsumerStates
<1>2. Tickets'
  BY DEF Tickets, Holding, SubTypeOK, Fates
<1>3. Fates'
  BY <1>0 DEF Fates, SubTypeOK
<1>4. ASSUME NEW n \in Nat
      PROVE  /\ Cardinality({f \in failed : f < n}) \in Nat
             /\ Cardinality({f \in failed' : f < n}) \in Nat
             /\ Cardinality({f \in failed : f < n}) <= Cardinality({f \in failed' : f < n})
  <2>1. failed \subseteq Nat
    BY DEF SubTypeOK
  <2> HIDE DEF m, IInv, Compare, Goto, counters
  <2>2. failed' \subseteq Nat /\ failed \subseteq failed'
    BY <1>0, <2>1
  <2>3. failed \in SUBSET Nat /\ failed' \in SUBSET Nat /\ n <= n
    BY <2>1, <2>2
  <2> QED BY ONLY <1>4, <2>2, <2>3, FailedBelowMonotone, ZenonT(60)
<1>5. SeenFailed'
  <2>1. Cardinality(failed) <= Cardinality(failed')
    <3>1. IsFiniteSet(failed')
      BY <1>0, FatesFinite, FS_AddElement
    <3> QED BY <1>0, <3>1, FS_Subset
  <2>2. Cardinality(failed) \in Nat /\ Cardinality(failed') \in Nat
    <3>1. IsFiniteSet(failed')
      BY <1>0, FatesFinite, FS_AddElement
    <3> QED BY <3>1, FatesFinite, FS_CardinalityType
  <2>3. ASSUME NEW d \in Consumers, cpc'[d] = "compare"
        PROVE  seen'[d] <= Cardinality(FailedBelow(ticket[d])')
    <3>1. cpc[d] = "compare" /\ ticket[d] \in Nat /\ seen[d] \in Nat
      BY <2>3 DEF SubTypeOK
    <3>2. seen[d] <= Cardinality({f \in failed : f < ticket[d]})
      BY <3>1 DEF SeenFailed, FailedBelow
    <3>3. seen[d] <= Cardinality({f \in failed' : f < ticket[d]})
      <4> DEFINE before == Cardinality({f \in failed : f < ticket[d]})
                 after  == Cardinality({f \in failed' : f < ticket[d]})
      <4>1. before \in Nat /\ after \in Nat /\ before <= after
        BY <1>4, <3>1
      <4> HIDE DEF before, after
      <4>2. seen[d] <= before => seen[d] <= after
        BY <3>1, <4>1
      <4> QED BY <3>2, <4>2 DEF before, after
    <3> QED BY <3>3 DEF FailedBelow
  <2>4. ASSUME NEW d \in Consumers, cpc'[d] \in {"probe", "ticket"}
        PROVE  seen'[d] <= Cardinality(failed')
    BY <2>1, <2>2, <2>4 DEF SeenFailed, SubTypeOK
  <2> QED BY <2>3, <2>4 DEF SeenFailed
<1>6. TopWithinTail'
  <2>1. top - Cardinality({f \in failed : f < top}) <= tail
    BY DEF TopWithinTail, FailedBelow
  <2>2. top - Cardinality({f \in failed' : f < top}) <= tail
    <3> DEFINE before == Cardinality({f \in failed : f < top})
               after  == Cardinality({f \in failed' : f < top})
    <3>1. top \in Nat /\ tail \in Nat
      BY DEF SubTypeOK
    <3>2. before \in Nat /\ after \in Nat /\ before <= after
      BY <1>4, <3>1
    <3> HIDE DEF before, after
    <3>3. top - before <= tail => top - after <= tail
      BY <3>1, <3>2
    <3> QED BY <2>1, <3>3 DEF before, after
  <2> QED BY <1>0, <2>2 DEF TopWithinTail, FailedBelow
<1>7. Takers' /\ OvercommitWithinTicket' /\ IndicesDiffer'
  BY DEF Takers, OvercommitWithinTicket, IndicesDiffer, SubTypeOK
<1> QED BY <1>1, <1>2, <1>3, <1>5, <1>6, <1>7

(* A passed ticket is exchanged for the next index. *)
LEMMA ClaimStep ==
  ASSUME IInv, NEW c \in Consumers, Claim(c)
  PROVE  IInv'
<1> USE DEF IInv, Claim, Goto
<1>0. ticket[c] \in passed \ claimed
  BY DEF Tickets
<1>1. SubTypeOK'
  <2>1. claimed' \subseteq Nat
    BY DEF SubTypeOK
  <2> QED BY <2>1 DEF SubTypeOK, ConsumerStates
<1>2. Tickets'
  BY DEF Tickets, Holding, SubTypeOK
<1>3. Fates'
  <2>1. head' = Cardinality(claimed')
    BY <1>0, FatesFinite, FS_AddElement DEF Fates
  <2> QED BY <1>0, <2>1 DEF Fates
<1>4. SeenFailed' /\ TopWithinTail'
  BY DEF SeenFailed, TopWithinTail, FailedBelow, SubTypeOK
<1>5. Takers' /\ OvercommitWithinTicket' /\ IndicesDiffer'
  BY DEF Takers, OvercommitWithinTicket, IndicesDiffer, SubTypeOK
<1> QED BY <1>1, <1>2, <1>3, <1>4, <1>5

(* A failed ticket is accounted for. *)
LEMMA GiveUpStep ==
  ASSUME IInv, NEW c \in Consumers, GiveUp(c)
  PROVE  IInv'
<1> USE DEF IInv, GiveUp, Goto
<1>0. ticket[c] \in failed \ returned
  BY DEF Tickets
<1>1. SubTypeOK'
  <2>1. returned' \subseteq Nat
    BY DEF SubTypeOK
  <2> QED BY <2>1 DEF SubTypeOK, ConsumerStates
<1>2. Tickets'
  BY DEF Tickets, Holding, SubTypeOK
<1>3. Fates'
  <2>1. overcommit' = Cardinality(returned')
    BY <1>0, FatesFinite, FS_AddElement DEF Fates
  <2> QED BY <1>0, <2>1 DEF Fates
<1>4. SeenFailed' /\ TopWithinTail'
  BY DEF SeenFailed, TopWithinTail, FailedBelow, SubTypeOK
<1>5. Takers' /\ OvercommitWithinTicket' /\ IndicesDiffer'
  BY DEF Takers, OvercommitWithinTicket, IndicesDiffer, SubTypeOK
<1> QED BY <1>1, <1>2, <1>3, <1>4, <1>5

LEMMA IInvNext == IInv /\ [SubNext]_subvars => IInv'
<1> SUFFICES ASSUME IInv, [SubNext]_subvars PROVE IInv'
  OBVIOUS
<1>1. CASE Publish
  BY <1>1, PublishStep
<1>2. ASSUME NEW c \in Consumers, ConsumerStep(c) PROVE IInv'
  <2>1. CASE LoadTail(c) \/ LoadOvercommit(c) \/ Probe(c) \/ Take(c)
    BY <2>1, LoadStep
  <2>2. CASE TakeTicket(c)
    BY <2>2, TakeTicketStep
  <2>3. CASE Compare(c)
    BY <2>3, PassStep, FailStep
  <2>4. CASE Claim(c)
    BY <2>4, ClaimStep
  <2>5. CASE GiveUp(c)
    BY <2>5, GiveUpStep
  <2> QED BY <1>2, <2>1, <2>2, <2>3, <2>4, <2>5 DEF ConsumerStep
<1>3. CASE UNCHANGED subvars
  BY <1>3 DEF subvars, IInv, SubTypeOK, Tickets, Fates, SeenFailed, TopWithinTail,
              Takers, OvercommitWithinTicket, IndicesDiffer, FailedBelow
<1> QED BY <1>1, <1>2, <1>3 DEF SubNext

LEMMA Invariance == SubSpec => []IInv
  BY IInvInit, IInvNext, PTL DEF SubSpec
--------------------------------------------------------------------------------
(***************************************************************************)
(* No index is ever given out that is not published: "this will never      *)
(* exceed tail" (concurrentqueue.h:1844).                                  *)
(***************************************************************************)
THEOREM HeadWithinTail == SubSpec => []HeadNeverExceedsTail
<1>1. IInv => HeadNeverExceedsTail
  <2> SUFFICES ASSUME IInv PROVE head <= tail
    BY DEF HeadNeverExceedsTail
  <2>1. /\ IsFiniteSet(passed) /\ Cardinality(passed) \in Nat
        /\ Cardinality(passed) <= tail
    BY PassedWithinTail DEF IInv
  <2>2. head <= Cardinality(passed)
    BY <2>1, FS_Subset DEF IInv, Fates
  <2> QED BY <2>1, <2>2 DEF IInv, SubTypeOK
<1> QED BY <1>1, Invariance, PTL

(* Claimers hold distinct tickets that passed and have no index yet. *)
LEMMA ElementForClaimers ==
  ASSUME IInv
  PROVE  /\ ElementForEveryPass
         /\ IsFiniteSet({c \in Consumers : cpc[c] = "claim"})
<1> USE DEF IInv
<1> DEFINE claimers == {c \in Consumers : cpc[c] = "claim"}
           f == [c \in claimers |-> ticket[c]]
           open == passed \ claimed
<1>1. /\ IsFiniteSet(passed) /\ Cardinality(passed) \in Nat
      /\ Cardinality(passed) <= tail
  BY PassedWithinTail
<1>2. f \in Injection(claimers, open)
  <2>1. f \in [claimers -> open]
    BY DEF Tickets
  <2>2. \A c, d \in claimers : f[c] = f[d] => c = d
    BY DEF Tickets, Holding
  <2> QED BY <2>1, <2>2 DEF Injection, IsInjective
<1>3. /\ IsFiniteSet(open)
      /\ Cardinality(open) = Cardinality(passed) - Cardinality(passed \cap claimed)
  BY <1>1, FS_Difference
<1>4. passed \cap claimed = claimed
  BY DEF Fates
<1>5. IsFiniteSet(claimers) /\ Cardinality(claimers) <= Cardinality(open)
  BY <1>2, <1>3, FS_Injection
<1>6. Cardinality(claimers) \in Nat /\ Cardinality(open) \in Nat
  BY <1>3, <1>5, FS_CardinalityType
<1>7. head = Cardinality(claimed) /\ head \in Nat /\ tail \in Nat
  BY DEF Fates, SubTypeOK
<1>8. Cardinality(open) = Cardinality(passed) - head
  BY <1>3, <1>4, <1>7
<1> HIDE DEF claimers, open
<1>9. head + Cardinality(claimers) <= tail
  BY <1>1, <1>5, <1>6, <1>7, <1>8
<1> QED BY <1>5, <1>9 DEF ElementForEveryPass, claimers

(***************************************************************************)
(* There is an element for every consumer that passed the comparison, the  *)
(* ones that did not yet take their index included (1831).                 *)
(***************************************************************************)
THEOREM EveryPassHasElement == SubSpec => []ElementForEveryPass
<1>1. IInv => ElementForEveryPass
  BY ElementForClaimers
<1> QED BY <1>1, Invariance, PTL

(***************************************************************************)
(* assert(overcommit <= myDequeueCount) holds (1824, 2391).                *)
(***************************************************************************)
THEOREM OvercommitAssertion == SubSpec => []OvercommitWithinTicket
<1>1. IInv => OvercommitWithinTicket
  BY DEF IInv
<1> QED BY <1>1, Invariance, PTL

(***************************************************************************)
(* No two consumers take the same element.                                 *)
(***************************************************************************)
THEOREM ElementsTakenOnce == SubSpec => []IndicesDiffer
<1>1. IInv => IndicesDiffer
  BY DEF IInv
<1> QED BY <1>1, Invariance, PTL

(***************************************************************************)
(* Every variable keeps its type.                                          *)
(***************************************************************************)
THEOREM SubQueueTypeOK == SubSpec => []SubTypeOK
<1>1. IInv => SubTypeOK
  BY DEF IInv
<1> QED BY <1>1, Invariance, PTL

(* The index that c is about to take, as the abstract dispenser sees it. *)
Taking == [c \in Consumers |-> IF cpc[c] = "take" THEN index[c] ELSE -1]

(* A consumer that passed the comparison finds an index to be given. *)
LEMMA ClaimGives ==
  ASSUME IInv, NEW c \in Consumers, Claim(c)
  PROVE  /\ head < tail
         /\ head' = head + 1 /\ tail' = tail
         /\ Taking[c] = -1
         /\ Taking' = [Taking EXCEPT ![c] = head]
<1> DEFINE claimers == {d \in Consumers : cpc[d] = "claim"}
<1>1. head + Cardinality(claimers) <= tail
  BY ElementForClaimers DEF ElementForEveryPass
<1>2. c \in claimers
  BY DEF Claim, Goto
<1>3. IsFiniteSet(claimers) => Cardinality(claimers) \in Nat \ {0}
  BY <1>2, FS_CardinalityType, FS_EmptySet
<1>4. IsFiniteSet(claimers)
  BY ElementForClaimers
<1>5. head \in Nat /\ tail \in Nat
  BY DEF IInv, SubTypeOK
<1> HIDE DEF claimers
<1>6. head < tail
  BY <1>1, <1>3, <1>4, <1>5
<1>7. Taking' = [Taking EXCEPT ![c] = head]
  BY DEF Taking, Claim, Goto, IInv, SubTypeOK
<1> QED BY <1>6, <1>7 DEF Taking, Claim, Goto

(***************************************************************************)
(* The counters implement the abstract dispenser (1794-1890, 2382-2451).   *)
(***************************************************************************)
THEOREM DispenserRefinement == SubSpec => DispensesIndices
<1>1. SubInit => Dispenser!DispenserInit
  BY DEF SubInit, Dispenser!DispenserInit, Dispenser!NoIndex
<1>2. IInv /\ [SubNext]_subvars
        => [Dispenser!DispenserNext]_<<tail, head, Taking>>
  <2> SUFFICES ASSUME IInv, [SubNext]_subvars
               PROVE  \/ Dispenser!DispenserNext
                      \/ UNCHANGED <<tail, head, Taking>>
    OBVIOUS
  <2> USE DEF Taking, Dispenser!DispenserNext, Dispenser!NoIndex
  <2>1. CASE Publish
    <3>1. Taking' = Taking
      BY <2>1 DEF Publish, locals
    <3> QED BY <2>1, <3>1 DEF Publish, Dispenser!Publish
  <2>2. ASSUME NEW c \in Consumers, Claim(c)
        PROVE  Dispenser!Give(c)
    BY <2>2, ClaimGives DEF Dispenser!Give
  <2>3. ASSUME NEW c \in Consumers, Take(c)
        PROVE  Dispenser!Finish(c)
    <3>1. cpc[c] = "take" /\ index[c] \in Nat /\ tail' = tail /\ head' = head
      BY <2>3 DEF Take, Goto, IInv, SubTypeOK, counters
    <3>2. Taking[c] # -1
      BY <3>1
    <3>3. Taking' = [Taking EXCEPT ![c] = -1]
      BY <2>3 DEF Take, Goto, IInv, SubTypeOK
    <3> QED BY <3>1, <3>2, <3>3 DEF Dispenser!Finish
  <2>4. ASSUME NEW c \in Consumers,
               \/ LoadTail(c) \/ LoadOvercommit(c) \/ Probe(c)
               \/ TakeTicket(c) \/ Compare(c) \/ GiveUp(c)
        PROVE  UNCHANGED <<tail, head, Taking>>
    BY <2>4 DEF LoadTail, LoadOvercommit, Probe, TakeTicket, Compare, GiveUp, Goto,
                counters, IInv, SubTypeOK
  <2>5. CASE UNCHANGED subvars
    BY <2>5 DEF subvars
  <2> QED BY <2>1, <2>2, <2>3, <2>4, <2>5 DEF SubNext, ConsumerStep
<1> QED BY <1>1, <1>2, Invariance, PTL
        DEF SubSpec, DispensesIndices, Dispenser!DispenserSpec, Taking
--------------------------------------------------------------------------------
(***************************************************************************)
(* try_dequeue() and the sleep of the workers add nothing to what the      *)
(* counters do: they only choose among the steps of SubQueue when to call  *)
(* dequeue() (concurrentqueue.h:976-998, server.cpp:192-222).              *)
(***************************************************************************)
THEOREM PollingImplementsSubQueue == PolledSpec => SubSpec
<1>1. PolledInit => SubInit
  BY DEF PolledInit
<1>2. [PolledNext]_polledvars => [SubNext]_subvars
  BY DEF PolledNext, PolledStep, SampleTail, SampleHead, Dequeue, SubNext, polledvars
<1> QED BY <1>1, <1>2, PTL DEF PolledSpec, SubSpec

(***************************************************************************)
(* So the guarantees of the counters hold under the workers' polling, for  *)
(* any number of workers and elements.                                     *)
(***************************************************************************)
THEOREM PolledGuarantees ==
  PolledSpec => [](ElementForEveryPass /\ OvercommitWithinTicket)
BY PollingImplementsSubQueue, EveryPassHasElement, OvercommitAssertion, PTL
--------------------------------------------------------------------------------
(***************************************************************************)
(* What the workers' sleep is good for.                                    *)
(***************************************************************************)

(* What a consumer has sampled and loaded was so once, and it sleeps only  *)
(* outside of try_dequeue().                                               *)
Samples ==
  /\ tail <= MaxElements
  /\ \A c \in Consumers : sample[c] <= tail /\ probeTail[c] <= tail
  /\ \A c \in Consumers : sampling[c] # "done" => cpc[c] = "idle"
  /\ \A c \in resting : sampling[c] = "before"

Basis == IInv /\ PolledTypeOK /\ Samples

LEMMA BasisInit == PolledInit => Basis
<1> SUFFICES ASSUME PolledInit PROVE Basis
  OBVIOUS
<1>1. SubInit
  BY DEF PolledInit
<1>2. IInv
  BY <1>1, IInvInit
<1>3. PolledTypeOK
  BY <1>2, SubQueueBounds DEF PolledInit, PolledTypeOK, IInv, SamplingStates
<1>4. Samples
  BY <1>1, SubQueueBounds DEF PolledInit, SubInit, Samples
<1> QED BY <1>2, <1>3, <1>4 DEF Basis

LEMMA PolledStepIsSubStep ==
  [PolledNext]_polledvars => [SubNext]_subvars
BY DEF PolledNext, PolledStep, SampleTail, SampleHead, Dequeue, SubNext, polledvars

LEMMA TailStep ==
  ASSUME Basis, [SubNext]_subvars
  PROVE  tail' <= MaxElements /\ tail <= tail' /\ tail' \in Nat
BY SubQueueBounds
   DEF Basis, Samples, IInv, SubTypeOK, SubNext, Publish, ConsumerStep, LoadTail,
       LoadOvercommit, Probe, TakeTicket, Compare, Claim, Take, GiveUp, counters,
       subvars

LEMMA BasisNext ==
  ASSUME Basis, [PolledNext]_polledvars
  PROVE  Basis'
<1>1. [SubNext]_subvars
  BY PolledStepIsSubStep
<1>2. IInv'
  BY <1>1, IInvNext DEF Basis
<1>3. tail' <= MaxElements /\ tail <= tail' /\ tail' \in Nat
  BY <1>1, TailStep
<1>4. SubTypeOK /\ SubTypeOK'
  BY <1>2 DEF Basis, IInv
<1> USE DEF Basis, Samples, PolledTypeOK
<1>5. CASE Publish /\ UNCHANGED <<resting, sampling, sample>>
  <2>1. probeTail' = probeTail /\ cpc' = cpc
    BY <1>5 DEF Publish, locals
  <2>2. \A c \in Consumers : sample[c] \in 0 .. MaxElements /\ probeTail[c] \in Nat
    BY <1>4 DEF SubTypeOK
  <2>3. \A c \in Consumers : sample'[c] <= tail' /\ probeTail'[c] <= tail'
    BY <1>3, <1>4, <1>5, <2>1, <2>2 DEF SubTypeOK
  <2> QED BY <1>2, <1>3, <1>4, <1>5, <2>1, <2>3
<1>6. CASE UNCHANGED polledvars
  BY <1>2, <1>4, <1>6 DEF polledvars, subvars
<1>7. ASSUME NEW c \in Consumers, PolledStep(c)
      PROVE  Basis'
  <2>1. resting' \subseteq Consumers
    BY <1>7 DEF PolledStep
  <2>2. resting' \subseteq resting \cup {c}
    BY <1>7 DEF PolledStep
  <2>3. c \in resting' => c \in resting \/ Fails(c)
    BY <1>7 DEF PolledStep
  <2>4. CASE SampleTail(c)
    <3>1. PolledTypeOK'
      BY <1>4, <2>1, <2>4, <1>3 DEF SampleTail, SamplingStates, SubTypeOK, subvars
    <3>2. c \notin resting'
      BY <2>3, <2>4 DEF SampleTail, Fails, Active
    <3> QED BY <1>2, <2>2, <2>4, <3>1, <3>2, <1>4 DEF SampleTail, SubTypeOK, subvars
  <2>5. CASE SampleHead(c)
    <3>1. PolledTypeOK'
      BY <1>4, <2>1, <2>5 DEF SampleHead, SamplingStates, subvars
    <3>2. c \in resting' => sampling'[c] = "before"
      BY <2>3, <2>5 DEF SampleHead, Fails, Active
    <3> QED BY <1>2, <2>2, <2>5, <3>1, <3>2, <1>4 DEF SampleHead, SubTypeOK, subvars
  <2>6. CASE Dequeue(c)
    <3>1. /\ PolledTypeOK'
          /\ \A d \in Consumers : d # c => sampling'[d] = sampling[d]
          /\ sampling'[c] \in {"before", "done"}
          /\ sampling'[c] = "before" => cpc'[c] = "idle"
          /\ sample' = sample
      BY <1>4, <2>1, <2>6 DEF Dequeue, SamplingStates
    <3>2. ConsumerStep(c) /\ sampling[c] = "done"
      BY <2>6 DEF Dequeue
    <3>3. \A d \in Consumers : d # c => cpc'[d] = cpc[d] /\ probeTail'[d] = probeTail[d]
      BY <3>2, <1>4
         DEF ConsumerStep, LoadTail, LoadOvercommit, Probe, TakeTicket, Compare, Claim,
             Take, GiveUp, Goto, SubTypeOK
    <3>4. probeTail'[c] = probeTail[c] \/ probeTail'[c] = tail
      BY <3>2, <1>4
         DEF ConsumerStep, LoadTail, LoadOvercommit, Probe, TakeTicket, Compare, Claim,
             Take, GiveUp, SubTypeOK
    <3>5. tail' = tail
      BY <3>2
         DEF ConsumerStep, LoadTail, LoadOvercommit, Probe, TakeTicket, Compare, Claim,
             Take, GiveUp, counters
    <3>6. \A d \in Consumers : sample'[d] <= tail' /\ probeTail'[d] <= tail'
      BY <3>1, <3>3, <3>4, <3>5, <1>4 DEF SubTypeOK
    <3>7. \A d \in resting' : sampling'[d] = "before"
      BY <2>2, <2>3, <3>1, <3>2 DEF Fails, Active
    <3>8. \A d \in Consumers : sampling'[d] # "done" => cpc'[d] = "idle"
      BY <3>1, <3>3
    <3> QED BY <1>2, <1>3, <3>1, <3>6, <3>7, <3>8
  <2> QED BY <1>7, <2>4, <2>5, <2>6 DEF PolledStep
<1> QED BY <1>5, <1>6, <1>7 DEF PolledNext

LEMMA PolledBasis == PolledSpec => []Basis
BY BasisInit, BasisNext, PTL DEF PolledSpec

(***************************************************************************)
(* Every variable keeps its type while the workers poll.                   *)
(***************************************************************************)
THEOREM PolledQueueTypeOK == PolledSpec => []PolledTypeOK
<1>1. Basis => PolledTypeOK
  BY DEF Basis
<1> QED BY <1>1, PolledBasis, PTL
--------------------------------------------------------------------------------
(***************************************************************************)
(* How many tickets can fail.  Three situations follow each other.         *)
(*                                                                         *)
(* Calm: nobody is between its ticket and its index, and whoever takes the *)
(* next ticket will pass.  No ticket fails.                                *)
(* Led: some ticket will pass or has passed.  Everybody else can fail, and *)
(* then sleeps until an element is claimed.                                *)
(* Late: an element was just claimed, and there are consumers inside whose *)
(* loads are from before.  They can make everybody fail; then all sleep,   *)
(* and the next situation is calm.                                         *)
(*                                                                         *)
(* A claim ends the situations Led and Late.  Either all other consumers   *)
(* have failed, and it is calm, or fewer have, and the claim is late: that *)
(* is the difference of one that the bounds below keep.                    *)
(***************************************************************************)
Workers == Cardinality(Consumers)

(* Twice as many failures as there are others, for each claimed element. *)
Paid == 2 * head * (Workers - 1)

Failures == Cardinality(failed)

(* Whoever failed and will not take a ticket before the sleeps end. *)
Out == resting \cup {c \in Consumers : cpc[c] = "giveup"}

(* Whoever is inside dequeue() and has neither failed nor claimed. *)
Inside ==
  {c \in Consumers : /\ sampling[c] = "done"
                     /\ cpc[c] \notin {"giveup", "take"}}

(* A ticket that passed, or will pass, the second comparison. *)
Winner(c) == cpc[c] = "claim" \/ (cpc[c] = "compare" /\ Passes(c))

Calm ==
  /\ \A c \in Consumers : cpc[c] \notin {"compare", "claim"}
  /\ \A c \in Consumers : cpc[c] = "ticket" => optimistic - seen[c] < tail
  /\ Failures <= Paid
  /\ head = tail /\ head # 0 => Failures <= Paid - (Workers - 1)

Led ==
  /\ \E c \in Consumers : Winner(c)
  /\ Failures <= Paid + Cardinality(Out)

Late ==
  /\ head # 0
  /\ Failures <= Paid - Workers + Cardinality(Out)
  /\ head = tail => Failures + Cardinality(Inside) <= Paid - (Workers - 1)

FailInv == Basis /\ (Calm \/ Led \/ Late)

(* The sizes that the bounds compare are numbers. *)
LEMMA PartOfConsumers ==
  ASSUME NEW S \in SUBSET Consumers
  PROVE  /\ IsFiniteSet(S) /\ Cardinality(S) \in Nat /\ Cardinality(S) <= Workers
         /\ Workers \in Nat
BY ConsumersAssumption, FS_Subset, FS_CardinalityType DEF Workers

LEMMA TwoPartsOfConsumers ==
  ASSUME NEW S \in SUBSET Consumers, NEW T \in SUBSET Consumers, S \cap T = {},
         NEW c \in Consumers, c \notin S, c \notin T
  PROVE  Cardinality(S) + Cardinality(T) <= Workers - 1
<1>1. /\ IsFiniteSet(S) /\ Cardinality(S) \in Nat
      /\ IsFiniteSet(T) /\ Cardinality(T) \in Nat
      /\ Workers \in Nat
  BY PartOfConsumers
<1>2. IsFiniteSet(S \cup T) /\ Cardinality(S \cup T) = Cardinality(S) + Cardinality(T)
  <2>1. Cardinality(S \cap T) = 0
    BY FS_EmptySet
  <2>2. /\ IsFiniteSet(S \cup T)
        /\ Cardinality(S \cup T) = Cardinality(S) + Cardinality(T) - Cardinality(S \cap T)
    BY <1>1, FS_Union
  <2> QED BY <1>1, <2>1, <2>2
<1>3. Cardinality((S \cup T) \cup {c}) = Cardinality(S \cup T) + 1
  BY <1>2, FS_AddElement
<1>4. (S \cup T) \cup {c} \in SUBSET Consumers
  OBVIOUS
<1>5. Cardinality((S \cup T) \cup {c}) <= Workers
  BY <1>4, PartOfConsumers
<1> QED BY <1>1, <1>2, <1>3, <1>5

(* If all but c are out, only c can be elsewhere. *)
LEMMA AllOthersOut ==
  ASSUME NEW S \in SUBSET Consumers, NEW c \in Consumers, c \notin S,
         Cardinality(S) >= Workers - 1
  PROVE  \A d \in Consumers : d # c => d \in S
<1> SUFFICES ASSUME NEW d \in Consumers, d # c, d \notin S PROVE FALSE
  OBVIOUS
<1>1. {d} \in SUBSET Consumers /\ S \cap {d} = {} /\ c \notin {d}
  OBVIOUS
<1>2. Cardinality(S) + Cardinality({d}) <= Workers - 1
  BY <1>1, TwoPartsOfConsumers
<1>3. Cardinality({d}) = 1 /\ Cardinality(S) \in Nat /\ Workers \in Nat
  BY PartOfConsumers, FS_Singleton
<1> QED BY <1>2, <1>3

LEMMA FailNumbers ==
  ASSUME Basis
  PROVE  /\ Failures \in Nat /\ Workers \in Nat /\ Paid \in Int
         /\ head \in Nat /\ tail \in Nat /\ optimistic \in Nat
         /\ seen \in [Consumers -> Nat] /\ ticket \in [Consumers -> Nat]
         /\ Out \in SUBSET Consumers /\ Inside \in SUBSET Consumers
         /\ Cardinality(Out) \in Nat /\ Cardinality(Inside) \in Nat
         /\ Cardinality(Out) <= Workers
         /\ Out \cap Inside = {}
         /\ head <= tail
<1>1. SubTypeOK /\ Fates /\ TopWithinTail
  BY DEF Basis, IInv
<1>2. Failures \in Nat
  BY <1>1, FatesFinite DEF Failures
<1>3. Out \in SUBSET Consumers /\ Inside \in SUBSET Consumers
  BY DEF Basis, PolledTypeOK, Out, Inside
<1>4. /\ Cardinality(Out) \in Nat /\ Cardinality(Inside) \in Nat
      /\ Cardinality(Out) <= Workers /\ Workers \in Nat
  BY <1>3, PartOfConsumers
<1>5. Out \cap Inside = {}
  BY DEF Basis, Samples, Out, Inside
<1>6. head \in Nat /\ tail \in Nat /\ Paid \in Int
  BY <1>1, <1>4 DEF SubTypeOK, Paid
<1>7. head <= tail
  <2>1. /\ IsFiniteSet(passed) /\ Cardinality(passed) \in Nat
        /\ Cardinality(passed) <= tail
    BY <1>1, PassedWithinTail
  <2>2. head <= Cardinality(passed) /\ Cardinality(claimed) \in Nat
    BY <1>1, <2>1, FS_Subset, FS_CardinalityType DEF Fates
  <2> QED BY <1>6, <2>1, <2>2
<1> QED BY <1>1, <1>2, <1>3, <1>4, <1>5, <1>6, <1>7 DEF SubTypeOK

(* The ticket of a winner is for an element that is there. *)
LEMMA WinnerHasElement ==
  ASSUME Basis, NEW c \in Consumers, Winner(c)
  PROVE  head < tail
<1>1. SubTypeOK /\ Tickets /\ Fates /\ SeenFailed /\ TopWithinTail /\ IInv
  BY DEF Basis, IInv
<1>2. CASE cpc[c] = "claim"
  <2> DEFINE claimers == {d \in Consumers : cpc[d] = "claim"}
  <2>1. head + Cardinality(claimers) <= tail /\ IsFiniteSet(claimers)
    BY <1>1, ElementForClaimers DEF ElementForEveryPass
  <2>2. c \in claimers
    BY <1>2
  <2> HIDE DEF claimers
  <2>3. Cardinality(claimers) \in Nat \ {0}
    BY <2>1, <2>2, FS_CardinalityType, FS_EmptySet
  <2> QED BY <1>1, <2>1, <2>3 DEF SubTypeOK
<1>3. CASE cpc[c] = "compare" /\ Passes(c)
  <2> DEFINE m == ticket[c]
             P == passed \cup {m}
             e == IF m + 1 > top THEN m + 1 ELSE top
             F == FailedBelow(e)
  <2>1. m \in Nat /\ m \notin passed \cup failed /\ top \in Nat /\ tail \in Nat
        /\ seen[c] \in Nat /\ passed \subseteq Nat /\ failed \in SUBSET Nat
    BY <1>1, <1>3 DEF SubTypeOK, Tickets
  <2>2. e \in Nat /\ m < e /\ \A t \in passed : t < e
    <3>1. \A t \in passed : t \in Nat /\ t < top
      BY <1>1, <2>1 DEF TopWithinTail
    <3> HIDE DEF m
    <3> QED BY <2>1, <3>1
  <2>3. e - Cardinality(F) <= tail
    <3>1. CASE m + 1 > top
      <4>1. /\ seen[c] <= Cardinality(FailedBelow(m)) /\ m - seen[c] < tail
        BY <1>1, <1>3 DEF SeenFailed, Passes
      <4>2. /\ Cardinality(FailedBelow(m)) \in Nat
            /\ Cardinality(FailedBelow(m + 1)) \in Nat
            /\ Cardinality(FailedBelow(m)) <= Cardinality(FailedBelow(m + 1))
        BY <2>1, FailedBelowBounds
      <4>3. e = m + 1
        BY <3>1
      <4> HIDE DEF m, e
      <4> QED BY <2>1, <4>1, <4>2, <4>3
    <3>2. CASE ~(m + 1 > top)
      BY <1>1, <3>2 DEF TopWithinTail
    <3> QED BY <3>1, <3>2
  <2>4. P \in SUBSET Nat /\ F \in SUBSET Nat /\ (P \cup F) \in SUBSET Nat
        /\ (\A t \in P : t < e) /\ (\A t \in F : t < e) /\ (\A t \in P \cup F : t < e)
        /\ P \cap F = {}
    BY <1>1, <2>1, <2>2 DEF FailedBelow, Fates
  <2> HIDE DEF F, e, m
  <2>5. IsFiniteSet(P) /\ Cardinality(P) \in Nat /\ IsFiniteSet(F) /\ Cardinality(F) \in Nat
    BY <2>2, <2>4, BelowFinite
  <2>6. Cardinality(P \cup F) = Cardinality(P) + Cardinality(F) /\ Cardinality(P \cup F) <= e
    <3>1. Cardinality(P \cup F) <= e
      BY <2>2, <2>4, BelowFinite
    <3>2. Cardinality(P \cap F) = 0
      BY <2>4, FS_EmptySet
    <3>3. Cardinality(P \cup F) = Cardinality(P) + Cardinality(F) - Cardinality(P \cap F)
      BY <2>5, FS_Union
    <3> QED BY <2>5, <3>1, <3>2, <3>3
  <2>7. Cardinality(P) <= tail
    BY <2>1, <2>2, <2>3, <2>5, <2>6
  <2>8. /\ IsFiniteSet(passed) /\ Cardinality(passed) \in Nat
    BY <1>1, PassedWithinTail
  <2>9. Cardinality(P) = Cardinality(passed) + 1
    BY <2>1, <2>8, FS_AddElement
  <2>10. head <= Cardinality(passed)
    BY <1>1, <2>8, FS_Subset DEF Fates
  <2> QED BY <1>1, <2>7, <2>8, <2>9, <2>10 DEF SubTypeOK
<1> QED BY <1>2, <1>3 DEF Winner
--------------------------------------------------------------------------------
LEMMA PartsNext ==
  ASSUME Basis'
  PROVE  /\ Out' \in SUBSET Consumers /\ Inside' \in SUBSET Consumers
         /\ Out' \cap Inside' = {}
         /\ Cardinality(Out') \in Nat /\ Cardinality(Out') <= Workers
         /\ Cardinality(Inside') \in Nat
         /\ tail' \in Nat /\ head' \in Nat /\ optimistic' \in Nat
<1>1. Out' \in SUBSET Consumers /\ Inside' \in SUBSET Consumers /\ Out' \cap Inside' = {}
  BY DEF Basis, PolledTypeOK, Samples, Out, Inside
<1> QED BY <1>1, PartOfConsumers DEF Basis, IInv, SubTypeOK

(* While no ticket fails, none is taken and none is claimed, a calm stays. *)
LEMMA CalmStays ==
  ASSUME Basis, Basis', Calm,
         failed' = failed, head' = head, tail <= tail',
         \A d \in Consumers : cpc'[d] \notin {"compare", "claim"},
         \A d \in Consumers : cpc'[d] = "ticket" =>
            \/ cpc[d] = "ticket" /\ optimistic' = optimistic /\ seen'[d] = seen[d]
            \/ optimistic' - seen'[d] < tail'
  PROVE  Calm'
<1>1. Failures' = Failures /\ Paid' = Paid
  BY DEF Failures, Paid
<1>2. head' = tail' => head = tail
  BY FailNumbers, PartsNext
<1>3. \A d \in Consumers : cpc'[d] = "ticket" => optimistic' - seen'[d] < tail'
  BY FailNumbers, PartsNext DEF Calm
<1> QED BY <1>1, <1>2, <1>3 DEF Calm

(* A winner stays one until it claims, and the others stay out. *)
LEMMA LedStays ==
  ASSUME Basis, Basis', Led,
         failed' = failed, head' = head,
         Out \subseteq Out',
         \A d \in Consumers : Winner(d) => Winner(d)'
  PROVE  Led'
<1>1. Failures' = Failures /\ Paid' = Paid
  BY DEF Failures, Paid
<1>2. Cardinality(Out) <= Cardinality(Out')
  BY PartsNext, PartOfConsumers, FS_Subset
<1>3. Failures' <= Paid' + Cardinality(Out')
  BY <1>1, <1>2, FailNumbers, PartsNext DEF Led
<1>4. \E c \in Consumers : Winner(c)'
  BY DEF Led
<1> QED BY <1>3, <1>4 DEF Led

LEMMA LateStays ==
  ASSUME Basis, Basis', Late,
         failed' = failed, head' = head, tail <= tail',
         Out \subseteq Out',
         head = tail => Inside' \subseteq Inside
  PROVE  Late'
<1>1. Failures' = Failures /\ Paid' = Paid
  BY DEF Failures, Paid
<1>2. Cardinality(Out) <= Cardinality(Out')
  BY PartsNext, PartOfConsumers, FS_Subset
<1>3. Failures' <= Paid' - Workers + Cardinality(Out')
  BY <1>1, <1>2, FailNumbers, PartsNext DEF Late
<1>4. head' = tail' => Failures' + Cardinality(Inside') <= Paid' - (Workers - 1)
  <2>1. head = tail => Cardinality(Inside') <= Cardinality(Inside)
    BY FailNumbers, PartOfConsumers, FS_Subset
  <2>2. head' = tail' => head = tail
    BY FailNumbers, PartsNext
  <2> QED BY <1>1, <2>1, <2>2, FailNumbers, PartsNext DEF Late
<1> QED BY <1>3, <1>4 DEF Late, Workers

(* Everybody is outside: whoever failed late sleeps its sleep out. *)
LEMMA QuietIsCalm ==
  ASSUME Basis, Basis', Calm \/ Late,
         failed' = failed, head' = head, tail' = tail,
         \A d \in Consumers : ~Active(d)'
  PROVE  Calm'
<1>1. Failures' = Failures /\ Paid' = Paid
  BY DEF Failures, Paid
<1>2. \A d \in Consumers : cpc'[d] = "idle"
  BY DEF Active, Basis, Samples
<1>3. Failures <= Paid /\ (head = tail /\ head # 0 => Failures <= Paid - (Workers - 1))
  BY FailNumbers DEF Calm, Late
<1> QED BY <1>1, <1>2, <1>3 DEF Calm, Workers

(* A ticket fails: its consumer is out. *)
LEMMA FailureIsPaid ==
  ASSUME Basis, Basis', Led \/ Late,
         NEW c \in Consumers, Dequeue(c), Compare(c), ~Passes(c), resting' = resting
  PROVE  Led' \/ Late'
<1>1. /\ cpc[c] = "compare" /\ cpc'[c] = "giveup" /\ sampling[c] = "done"
      /\ sampling' = sampling
      /\ \A d \in Consumers : d # c => cpc'[d] = cpc[d]
      /\ failed' = failed \cup {ticket[c]} /\ ticket[c] \notin failed
      /\ UNCHANGED <<head, tail, optimistic, seen, ticket>>
  BY DEF Compare, Dequeue, Goto, counters, Basis, IInv, SubTypeOK, Tickets
<1>2. Failures' = Failures + 1 /\ Paid' = Paid
  BY <1>1, FatesFinite, FS_AddElement DEF Failures, Paid, Basis, IInv
<1>3. c \notin Out /\ Out' = Out \cup {c}
  BY <1>1 DEF Out, Basis, Samples
<1>4. Cardinality(Out') = Cardinality(Out) + 1
  BY <1>3, FailNumbers, PartOfConsumers, FS_AddElement
<1>5. c \in Inside /\ Inside' = Inside \ {c}
  BY <1>1 DEF Inside
<1>6. Cardinality(Inside') = Cardinality(Inside) - 1
  BY <1>5, FailNumbers, PartOfConsumers, FS_RemoveElement
<1>7. CASE Late
  <2>1. /\ head' # 0
        /\ Failures' <= Paid' - Workers + Cardinality(Out')
    BY <1>1, <1>2, <1>4, <1>7, FailNumbers DEF Late
  <2>2. head' = tail' => Failures' + Cardinality(Inside') <= Paid' - (Workers - 1)
    BY <1>1, <1>2, <1>6, <1>7, FailNumbers DEF Late
  <2> QED BY <2>1, <2>2 DEF Late, Workers
<1>8. CASE Led
  <2>1. Failures' <= Paid' + Cardinality(Out')
    BY <1>2, <1>4, <1>8, FailNumbers DEF Led
  <2>2. PICK w \in Consumers : Winner(w)
    BY <1>8 DEF Led
  <2>3. w # c
    BY <1>1, <2>2 DEF Winner
  <2>4. Winner(w)'
    BY <1>1, <2>2, <2>3 DEF Winner, Passes
  <2> QED BY <2>1, <2>4 DEF Led
<1> QED BY <1>7, <1>8

(* The next ticket after a calm is a winner. *)
LEMMA TicketOfCalmWins ==
  ASSUME Basis, Basis', Calm, NEW c \in Consumers, TakeTicket(c)
  PROVE  Led'
<1>1. /\ cpc[c] = "ticket" /\ cpc'[c] = "compare" /\ ticket'[c] = optimistic
      /\ failed' = failed /\ UNCHANGED <<head, tail, seen>>
  BY DEF TakeTicket, Goto, history, Basis, IInv, SubTypeOK
<1>2. Winner(c)'
  BY <1>1 DEF Calm, Winner, Passes
<1>3. Failures' <= Paid' + Cardinality(Out')
  <2>1. Failures' = Failures /\ Paid' = Paid
    BY <1>1 DEF Failures, Paid
  <2> QED BY <2>1, FailNumbers, PartsNext DEF Calm
<1> QED BY <1>2, <1>3 DEF Led

(* A claim wakes everybody up. *)
LEMMA ClaimPays ==
  ASSUME Basis, Basis', Led \/ Late,
         NEW c \in Consumers, Dequeue(c), Claim(c), resting' = {}
  PROVE  Calm' \/ Late'
<1>1. /\ cpc[c] = "claim" /\ cpc'[c] = "take" /\ sampling[c] = "done"
      /\ sampling' = sampling
      /\ \A d \in Consumers : d # c => cpc'[d] = cpc[d]
      /\ head' = head + 1
      /\ UNCHANGED <<tail, optimistic, seen, ticket, failed>>
  BY DEF Claim, Dequeue, Goto, Basis, IInv, SubTypeOK
<1>2. Failures' = Failures /\ Paid' = Paid + (Workers - 1) + (Workers - 1)
  <2>1. \A h \in Int, n \in Int : 2 * (h + 1) * n = 2 * h * n + n + n
    BY Z3T(30)
  <2>2. head \in Int /\ Workers - 1 \in Int
    BY FailNumbers
  <2> QED BY <1>1, <2>1, <2>2 DEF Failures, Paid
<1>3. c \notin Out /\ c \notin Inside' /\ Inside' \cap Out = {}
  BY <1>1 DEF Out, Inside, Basis, Samples
<1>4. Cardinality(Out) + Cardinality(Inside') <= Workers - 1
  BY <1>3, FailNumbers, PartsNext, TwoPartsOfConsumers
<1>5. Cardinality(Out) <= Workers - 1
  BY <1>4, FailNumbers, PartsNext
<1>6. Failures <= Paid + Cardinality(Out)
  BY FailNumbers DEF Led, Late
<1>7. CASE Cardinality(Out) = Workers - 1
  <2>1. \A d \in Consumers : d # c => d \in Out
    <3>1. Cardinality(Out) >= Workers - 1
      BY <1>7, FailNumbers
    <3> QED BY <1>3, <3>1, FailNumbers, AllOthersOut
  <2>2. \A d \in Consumers : cpc'[d] \in {"take", "giveup", "idle"}
    BY <1>1, <2>1 DEF Out, Basis, Samples
  <2>3. Failures' <= Paid' - (Workers - 1)
    BY <1>2, <1>6, <1>7, FailNumbers
  <2>4. Failures' <= Paid'
    BY <1>2, <1>5, <2>3, FailNumbers
  <2>5. \A d \in Consumers : cpc'[d] \notin {"compare", "claim", "ticket"}
    BY <2>2
  <2> QED BY <2>3, <2>4, <2>5 DEF Calm, Workers
<1>8. CASE Cardinality(Out) # Workers - 1
  <2>1. Failures' <= Paid' - Workers + Cardinality(Out')
    BY <1>2, <1>5, <1>6, <1>8, FailNumbers, PartsNext
  <2>2. Failures' + Cardinality(Inside') <= Paid' - (Workers - 1)
    BY <1>2, <1>4, <1>6, FailNumbers, PartsNext
  <2>3. head' # 0
    BY <1>1, FailNumbers
  <2> QED BY <2>1, <2>2, <2>3 DEF Late, Workers
<1> QED BY <1>7, <1>8

(* Consumers that neither take a ticket nor compare or claim it. *)
LEMMA OtherSteps ==
  ASSUME Basis, Basis', Calm \/ Led \/ Late, NEW c \in Consumers, PolledStep(c),
         ~TakeTicket(c), ~Compare(c), ~Claim(c)
  PROVE  Calm' \/ Led' \/ Late'
<1>0. /\ SubTypeOK /\ sampling \in [Consumers -> SamplingStates]
      /\ cpc \in [Consumers -> ConsumerStates] /\ seen \in [Consumers -> Nat]
  BY DEF Basis, PolledTypeOK, SubTypeOK
<1>1. \/ SampleTail(c)
      \/ SampleHead(c)
      \/ Dequeue(c) /\ (LoadTail(c) \/ LoadOvercommit(c) \/ Probe(c) \/ Take(c) \/ GiveUp(c))
  BY DEF PolledStep, Dequeue, ConsumerStep
<1>2. /\ UNCHANGED <<failed, head, tail, optimistic, ticket>>
      /\ cpc[c] \notin {"compare", "claim"}
      /\ cpc'[c] \notin {"compare", "claim"}
      /\ \A d \in Consumers : d # c => cpc'[d] = cpc[d] /\ seen'[d] = seen[d]
      /\ \A d \in Consumers : d # c => sampling'[d] = sampling[d]
  <2>1. CASE SampleTail(c) \/ SampleHead(c)
    <3>1. cpc[c] = "idle"
      BY <2>1 DEF SampleTail, SampleHead, Basis, Samples
    <3> QED BY <1>0, <2>1, <3>1 DEF SampleTail, SampleHead, subvars
  <2>2. CASE Dequeue(c) /\ (LoadTail(c) \/ LoadOvercommit(c) \/ Probe(c) \/ Take(c) \/ GiveUp(c))
    <3>1. \A d \in Consumers : d # c => sampling'[d] = sampling[d]
      BY <1>0, <2>2 DEF Dequeue
    <3>2. /\ UNCHANGED <<failed, head, tail, optimistic, ticket>>
          /\ cpc[c] \notin {"compare", "claim"}
          /\ cpc'[c] \notin {"compare", "claim"}
          /\ \A d \in Consumers : d # c => cpc'[d] = cpc[d] /\ seen'[d] = seen[d]
      BY <1>0, <2>2
         DEF LoadTail, LoadOvercommit, Probe, Take, GiveUp, Goto, counters, history
    <3> QED BY <3>1, <3>2
  <2> QED BY <1>1, <2>1, <2>2
<1>3. CASE Quiet
  <2>1. \A d \in Consumers : ~Active(d)'
    BY <1>2, <1>3 DEF Quiet
  <2>2. ~Led
    <3> SUFFICES ASSUME NEW w \in Consumers, Winner(w) PROVE FALSE
      BY DEF Led
    <3>1. cpc[w] \in {"compare", "claim"}
      BY DEF Winner
    <3>2. w # c /\ cpc'[w] # "idle"
      BY <1>2, <3>1
    <3> QED BY <2>1, <3>2 DEF Active, Basis, Samples
  <2> QED BY <1>2, <2>1, <2>2, QuietIsCalm
<1>4. CASE ~Quiet
  <2>1. resting' = resting \cup {d \in {c} : Fails(d)}
    BY <1>4 DEF PolledStep
  <2>2. Out \subseteq Out'
    <3>1. ASSUME cpc[c] = "giveup" PROVE cpc'[c] = "idle" /\ sampling'[c] = "before"
                                         /\ sampling[c] = "done"
      BY <1>0, <1>1, <3>1
         DEF SampleTail, SampleHead, Basis, Samples, Dequeue, LoadTail, LoadOvercommit,
             Probe, Take, GiveUp, Goto
    <3>2. cpc[c] = "giveup" => c \in resting'
      BY <2>1, <3>1 DEF Fails, Active
    <3> QED BY <1>2, <2>1, <3>2 DEF Out
  <2>3. \A d \in Consumers : Winner(d) => Winner(d)'
    BY <1>2 DEF Winner, Passes
  <2>4. head = tail => Inside' \subseteq Inside
    <3>1. ASSUME head = tail, c \in Inside' PROVE c \in Inside
      <4>1. CASE SampleTail(c)
        BY <1>0, <3>1, <4>1 DEF SampleTail, Inside
      <4>2. CASE SampleHead(c)
        <5>1. sample[c] <= tail /\ sample[c] \in Int
          BY DEF Basis, Samples, PolledTypeOK
        <5>2. ~SizeAboveZero(c)
          BY <3>1, <5>1, FailNumbers DEF SizeAboveZero
        <5> QED BY <1>0, <3>1, <4>2, <5>2 DEF SampleHead, Inside
      <4>3. CASE Dequeue(c) /\ (LoadTail(c) \/ LoadOvercommit(c) \/ Probe(c))
        BY <1>0, <4>3 DEF Dequeue, LoadTail, LoadOvercommit, Probe, Goto, Inside
      <4>4. CASE Dequeue(c) /\ (Take(c) \/ GiveUp(c))
        BY <1>0, <3>1, <4>4 DEF Dequeue, Take, GiveUp, Goto, Inside
      <4> QED BY <1>1, <4>1, <4>2, <4>3, <4>4
    <3> QED BY <1>2, <3>1 DEF Inside
  <2>5. CASE Calm
    <3>1. \A d \in Consumers : cpc'[d] \notin {"compare", "claim"}
      BY <1>2, <2>5 DEF Calm
    <3>2. ASSUME cpc'[c] = "ticket" PROVE optimistic' - seen'[c] < tail'
      <4>1. Probe(c) /\ optimistic - seen[c] < probeTail[c]
        BY <1>0, <1>1, <2>5, <3>2
           DEF SampleTail, SampleHead, subvars, LoadTail, LoadOvercommit, Probe, Take,
               GiveUp, Goto, Basis, Samples
      <4>2. seen' = seen /\ probeTail[c] <= tail /\ probeTail[c] \in Nat
        BY <1>0, <4>1 DEF Probe, Basis, Samples, SubTypeOK
      <4> QED BY <1>2, <4>1, <4>2, FailNumbers
    <3>3. \A d \in Consumers : cpc'[d] = "ticket" =>
            \/ cpc[d] = "ticket" /\ optimistic' = optimistic /\ seen'[d] = seen[d]
            \/ optimistic' - seen'[d] < tail'
      BY <1>2, <3>2
    <3>4. failed' = failed /\ head' = head /\ tail <= tail'
      BY <1>2, FailNumbers
    <3> QED BY <2>5, <3>1, <3>3, <3>4, CalmStays
  <2>6. CASE Led
    BY <1>2, <2>2, <2>3, <2>6, LedStays
  <2>7. CASE Late
    <3>1. failed' = failed /\ head' = head /\ tail <= tail'
      BY <1>2, FailNumbers
    <3> QED BY <2>2, <2>4, <2>7, <3>1, LateStays
  <2> QED BY <2>5, <2>6, <2>7
<1> QED BY <1>3, <1>4

(* A ticket is taken while it is not calm, or passes. *)
LEMMA TicketSteps ==
  ASSUME Basis, Basis', Led \/ Late, NEW c \in Consumers, Dequeue(c), resting' = resting,
         TakeTicket(c) \/ (Compare(c) /\ Passes(c))
  PROVE  Led' \/ Late'
<1>1. /\ UNCHANGED <<failed, head, tail, seen>>
      /\ sampling[c] = "done"
      /\ sampling' = sampling
      /\ cpc[c] \in {"ticket", "compare"} /\ cpc'[c] \in {"compare", "claim"}
      /\ \A d \in Consumers : d # c => cpc'[d] = cpc[d] /\ ticket'[d] = ticket[d]
      /\ cpc[c] = "compare" => cpc'[c] = "claim"
  BY DEF TakeTicket, Compare, Dequeue, Goto, counters, history, Basis, IInv, SubTypeOK
<1>2. Out' = Out /\ Inside' = Inside
  BY <1>1 DEF Out, Inside
<1>3. \A d \in Consumers : Winner(d) => Winner(d)'
  BY <1>1 DEF Winner, Passes
<1>4. failed' = failed /\ head' = head /\ tail <= tail'
  BY <1>1, FailNumbers
<1>5. CASE Led
  BY <1>2, <1>3, <1>4, <1>5, LedStays
<1>6. CASE Late
  BY <1>2, <1>4, <1>6, LateStays
<1> QED BY <1>5, <1>6

LEMMA FailInvInit == PolledInit => FailInv
<1> SUFFICES ASSUME PolledInit PROVE FailInv
  OBVIOUS
<1>1. Basis
  BY BasisInit
<1>2. Failures = 0 /\ Paid = 0
  <2>1. failed = {} /\ head = 0
    BY DEF PolledInit, SubInit
  <2>2. Workers - 1 \in Int
    BY <1>1, FailNumbers
  <2> QED BY <2>1, <2>2, FS_EmptySet DEF Failures, Paid
<1>3. Calm
  BY <1>2 DEF PolledInit, SubInit, Calm
<1> QED BY <1>1, <1>3 DEF FailInv

LEMMA FailInvNext ==
  ASSUME FailInv, [PolledNext]_polledvars
  PROVE  FailInv'
<1>1. Basis /\ Basis' /\ (Calm \/ Led \/ Late)
  BY BasisNext DEF FailInv
<1>2. ASSUME NEW c \in Consumers, PolledStep(c)
      PROVE  Calm' \/ Led' \/ Late'
  <2>1. ASSUME TakeTicket(c) \/ Compare(c)
        PROVE  Dequeue(c) /\ resting' = resting
    <3>1. /\ cpc[c] # "idle" /\ cpc'[c] # "idle" /\ head' = head
      BY <1>1, <2>1 DEF TakeTicket, Compare, Goto, counters, Basis, IInv, SubTypeOK
    <3>2. sampling[c] = "done"
      BY <1>1, <3>1 DEF Basis, Samples
    <3>3. Dequeue(c)
      BY <1>2, <3>2 DEF PolledStep, SampleTail, SampleHead
    <3>4. sampling'[c] = "done"
      BY <3>1, <3>2, <3>3 DEF Dequeue
    <3>5. ~Fails(c) /\ ~Quiet
      BY <3>1, <3>4 DEF Fails, Active, Quiet
    <3> QED BY <1>2, <3>3, <3>5 DEF PolledStep
  <2>2. CASE TakeTicket(c)
    BY <1>1, <2>1, <2>2, TicketOfCalmWins, TicketSteps
  <2>3. CASE Compare(c)
    <3>1. ~Calm
      BY <2>3 DEF Compare, Goto, Calm
    <3> QED BY <1>1, <2>1, <2>3, <3>1, TicketSteps, FailureIsPaid
  <2>4. CASE Claim(c)
    <3>1. cpc[c] = "claim" /\ head' = head + 1
      BY <2>4 DEF Claim, Goto
    <3>2. ~Calm /\ Quiet
      BY <1>1, <3>1, FailNumbers DEF Calm, Quiet
    <3>3. Dequeue(c) /\ resting' = {}
      BY <1>1, <1>2, <3>1, <3>2
         DEF PolledStep, SampleTail, SampleHead, Basis, Samples
    <3> QED BY <1>1, <2>4, <3>2, <3>3, ClaimPays
  <2> QED BY <1>1, <1>2, <2>2, <2>3, <2>4, OtherSteps
<1>3. CASE \/ Publish /\ UNCHANGED <<resting, sampling, sample>>
           \/ UNCHANGED polledvars
  <2>1. /\ failed' = failed /\ head' = head /\ optimistic' = optimistic
        /\ cpc' = cpc /\ seen' = seen /\ ticket' = ticket
        /\ resting' = resting /\ sampling' = sampling
        /\ tail <= tail' /\ tail' \in Nat
    BY <1>1, <1>3, FailNumbers DEF Publish, locals, history, polledvars, subvars
  <2>2. Out' = Out /\ Inside' = Inside
    BY <2>1 DEF Out, Inside
  <2>3. \A d \in Consumers : Winner(d) => Winner(d)'
    BY <1>1, <2>1, FailNumbers DEF Winner, Passes
  <2>4. CASE Calm
    <3>1. \A d \in Consumers : cpc'[d] \notin {"compare", "claim"}
      BY <2>1, <2>4 DEF Calm
    <3>2. \A d \in Consumers : cpc'[d] = "ticket" =>
            \/ cpc[d] = "ticket" /\ optimistic' = optimistic /\ seen'[d] = seen[d]
            \/ optimistic' - seen'[d] < tail'
      BY <2>1
    <3> QED BY <1>1, <2>1, <2>4, <3>1, <3>2, CalmStays DEF FailInv
  <2>5. CASE Led
    BY <1>1, <2>1, <2>2, <2>3, <2>5, LedStays DEF FailInv
  <2>6. CASE Late
    BY <1>1, <2>1, <2>2, <2>6, LateStays DEF FailInv
  <2> QED BY <1>1, <2>4, <2>5, <2>6
<1> QED BY <1>1, <1>2, <1>3 DEF PolledNext, FailInv

(***************************************************************************)
(* For any number of workers and elements: the workers' failures do not    *)
(* feed on each other, there are never more than the elements account for  *)
(* (976-998, 2387-2395, server.cpp:220-221).                               *)
(***************************************************************************)
THEOREM FailuresStayBounded == PolledSpec => []FailuresAreBounded
<1>1. FailInv => FailuresAreBounded
  <2> SUFFICES ASSUME FailInv, failed # {}
               PROVE  Failures <= (2 * tail - 1) * (Workers - 1)
    BY DEF FailuresAreBounded, Failures, Workers
  <2>1. Basis /\ (Calm \/ Led \/ Late)
    BY DEF FailInv
  <2>2. Failures \in Nat \ {0} /\ Workers \in Nat
    <3>1. IsFiniteSet(failed)
      BY <2>1, FatesFinite DEF Basis, IInv
    <3>2. Failures # 0
      BY <3>1, FS_EmptySet DEF Failures
    <3> QED BY <2>1, <3>2, FailNumbers
  <2>5. Failures <= Paid + Cardinality(Out)
    BY <2>1, FailNumbers DEF Calm, Led, Late
  <2>6. Workers # 0
    <3> SUFFICES ASSUME Workers = 0 PROVE FALSE
      OBVIOUS
    <3>1. Workers - 1 = -1
      OBVIOUS
    <3>2. \A h \in Nat : 2 * h * (-1) <= 0
      OBVIOUS
    <3>3. Paid <= 0
      BY <2>1, <3>1, <3>2, FailNumbers DEF Paid
    <3> QED BY <2>1, <2>2, <2>5, <3>3, FailNumbers
  <2> DEFINE bound == (2 * tail - 1) * (Workers - 1)
  <2>3. head < tail => bound >= Paid + (Workers - 1)
    <3>1. ASSUME NEW h \in Nat, NEW t \in Nat, NEW n \in Nat, h < t
          PROVE  (2 * t - 1) * n >= 2 * h * n + n
      <4>1. PICK k \in Nat : t = h + 1 + k
        BY <3>1
      <4>2. (2 * t - 1) * n = 2 * h * n + n + 2 * k * n
        BY <4>1, Z3T(30)
      <4>3. 2 * k * n \in Nat /\ 2 * h * n \in Nat
        OBVIOUS
      <4> QED BY <4>2, <4>3
    <3>2. ASSUME head < tail, Workers - 1 \in Nat
          PROVE  (2 * tail - 1) * (Workers - 1)
                   >= 2 * head * (Workers - 1) + (Workers - 1)
      BY <2>1, <3>1, <3>2, FailNumbers
    <3>3. Workers - 1 \in Nat
      BY <2>2, <2>6
    <3> QED BY ONLY <3>2, <3>3 DEF Paid
  <2>4. head = tail => bound = Paid - (Workers - 1)
    <3>1. \A t \in Nat, n \in Int : (2 * t - 1) * n = 2 * t * n - n
      BY Z3T(30)
    <3> QED BY <2>1, <3>1, FailNumbers DEF Paid
  <2> HIDE DEF bound
  <2>7. CASE Calm
    <3>1. head = 0 => Paid = 0
      <4>1. \A n \in Int : 2 * 0 * n = 0
        OBVIOUS
      <4> QED BY <2>2, <4>1 DEF Paid
    <3> QED BY <2>1, <2>2, <2>3, <2>4, <2>6, <2>7, <3>1, FailNumbers
            DEF Calm, bound
  <2>8. CASE Led
    <3>1. PICK c \in Consumers : Winner(c)
      BY <2>8 DEF Led
    <3>2. head < tail
      BY <2>1, <3>1, WinnerHasElement
    <3>3. c \notin Out
      BY <2>1, <3>1 DEF Winner, Out, Basis, Samples
    <3>4. Cardinality(Out) + Cardinality({}) <= Workers - 1
      BY <2>1, <3>3, FailNumbers, TwoPartsOfConsumers
    <3> QED BY <2>1, <2>2, <2>3, <2>5, <3>2, <3>4, FailNumbers, FS_EmptySet DEF bound
  <2>9. CASE Late
    BY <2>1, <2>2, <2>3, <2>4, <2>6, <2>9, FailNumbers DEF Late, bound
  <2> QED BY <2>1, <2>7, <2>8, <2>9
<1> QED BY <1>1, FailInvInit, FailInvNext, PTL DEF PolledSpec
================================================================================
