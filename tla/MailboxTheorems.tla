-------------------------- MODULE MailboxTheorems ---------------------------
(***************************************************************************)
(* What posting to a mailbox and taking from it do to what is queued.      *)
(***************************************************************************)
EXTENDS Mailbox, FiniteSetTheorems, TLAPS

\* An empty mailbox is a mailbox of any type, and nothing is queued in it.
LEMMA EmptyMailbox ==
    ASSUME NEW S
    PROVE  IsMailboxOf(EmptyBag, S) /\ Queued(EmptyBag) = {}
BY DEF IsMailboxOf, Queued, BagToSet, EmptyBag, SetToBag, IsABag

\* Posting a set of messages adds one copy of each of them, and keeps the
\* mailbox's type.
LEMMA PostAllKeepsMailbox ==
    ASSUME NEW S, NEW box, IsMailboxOf(box, S), NEW M \in SUBSET S
    PROVE  /\ IsMailboxOf(PostAll(box, M), S)
           /\ Queued(PostAll(box, M)) = Queued(box) \cup M
           /\ \A n \in Queued(box) \ M : PostAll(box, M)[n] = box[n]
           /\ \A n \in M \ Queued(box) : PostAll(box, M)[n] = 1
<1> DEFINE new == PostAll(box, M)
<1>1. new = [e \in DOMAIN box \cup M |->
                (IF e \in DOMAIN box THEN box[e] ELSE 0)
                    + (IF e \in M THEN 1 ELSE 0)]
    BY DEF PostAll, (+), SetToBag
<1>2. Queued(new) = Queued(box) \cup M
    BY <1>1 DEF Queued, BagToSet
<1>3. \A e \in DOMAIN box : box[e] \in Nat /\ box[e] > 0
    BY DEF IsMailboxOf, IsABag
<1>4. \A e \in DOMAIN new : new[e] \in Nat /\ new[e] > 0
    <2> HIDE DEF new
    <2> SUFFICES ASSUME NEW e \in DOMAIN new
                 PROVE  new[e] \in Nat /\ new[e] > 0
        OBVIOUS
    <2>1. CASE e \in DOMAIN box
        BY <1>1, <1>3, <2>1
    <2>2. CASE e \notin DOMAIN box
        BY <1>1, <2>2
    <2> QED BY <2>1, <2>2
<1>5. IsABag(new)
    <2> HIDE DEF new
    <2>1. new = [e \in DOMAIN new |-> new[e]]
        BY <1>1
    <2> QED BY <1>4, <2>1 DEF IsABag
<1> HIDE DEF new
<1>6. IsMailboxOf(new, S)
    BY <1>2, <1>5 DEF IsMailboxOf
<1>7. \A n \in DOMAIN box : box[n] \in Nat
    BY <1>3
<1>8. \A n \in DOMAIN box : n \notin M => new[n] = box[n]
    BY <1>1, <1>7
<1>9. \A n \in M : n \notin DOMAIN box => new[n] = 1
    BY <1>1
<1> QED BY <1>2, <1>6, <1>8, <1>9 DEF new, Queued, BagToSet

LEMMA PostKeepsMailbox ==
    ASSUME NEW S, NEW box, IsMailboxOf(box, S), NEW m \in S
    PROVE  /\ IsMailboxOf(Post(box, m), S)
           /\ Queued(Post(box, m)) = Queued(box) \cup {m}
BY PostAllKeepsMailbox DEF Post, PostAll

\* Taking a message leaves the others; the message itself is gone unless
\* there is another copy of it.
LEMMA TakeKeepsMailbox ==
    ASSUME NEW S, NEW box, IsMailboxOf(box, S), NEW m
    PROVE  /\ IsMailboxOf(Take(box, m), S)
           /\ Queued(Take(box, m)) \subseteq Queued(box)
           /\ \A n \in Queued(box) : n # m => /\ n \in Queued(Take(box, m))
                                              /\ Take(box, m)[n] = box[n]
           /\ m \in Queued(box) /\ box[m] = 1 => m \notin Queued(Take(box, m))
<1> DEFINE B == [e \in DOMAIN box |-> IF e \in {m} THEN box[e] - 1
                                      ELSE box[e]]
           new == Take(box, m)
<1>1. new = [e \in {d \in DOMAIN B : B[d] > 0} |-> B[e]]
    BY DEF Take, (-), SetToBag
<1>2. \A e \in DOMAIN box : box[e] \in Nat /\ box[e] > 0
    BY DEF IsMailboxOf, IsABag
<1>3. DOMAIN new = {e \in DOMAIN box : B[e] > 0}
    BY <1>1
<1>4. \A e \in DOMAIN new : new[e] = B[e] /\ new[e] \in Nat /\ new[e] > 0
    BY <1>1, <1>2
<1>5. \A n \in DOMAIN box : n # m => n \in DOMAIN new /\ new[n] = box[n]
    BY <1>1, <1>2
<1>6. m \in DOMAIN box /\ box[m] = 1 => m \notin DOMAIN new
    BY <1>3
<1>7. new = [e \in DOMAIN new |-> new[e]]
    BY <1>1
<1> HIDE DEF new, B
<1>8. IsABag(new)
    BY <1>4, <1>7 DEF IsABag
<1>9. IsMailboxOf(new, S)
    BY <1>3, <1>8 DEF IsMailboxOf, Queued, BagToSet
<1> QED BY <1>3, <1>5, <1>6, <1>9 DEF new, Queued, BagToSet

-----------------------------------------------------------------------------
(***************************************************************************)
(* What is queued afterwards, whatever the type of the mailbox.            *)
(***************************************************************************)
LEMMA PostAllQueued ==
    ASSUME NEW box, IsABag(box), NEW M
    PROVE  /\ IsABag(PostAll(box, M))
           /\ Queued(PostAll(box, M)) = Queued(box) \cup M
<1>1. IsMailboxOf(box, Queued(box) \cup M)
    BY DEF IsMailboxOf
<1> QED
    BY <1>1, PostAllKeepsMailbox DEF IsMailboxOf

LEMMA PostQueued ==
    ASSUME NEW box, IsABag(box), NEW m
    PROVE  /\ IsABag(Post(box, m))
           /\ Queued(Post(box, m)) = Queued(box) \cup {m}
BY PostAllQueued DEF Post, PostAll

LEMMA TakeQueued ==
    ASSUME NEW box, IsABag(box), NEW m
    PROVE  /\ IsABag(Take(box, m))
           /\ Queued(Take(box, m)) \subseteq Queued(box)
           /\ Queued(box) \ {m} \subseteq Queued(Take(box, m))
<1>1. IsMailboxOf(box, Queued(box))
    BY DEF IsMailboxOf
<1> QED
    BY <1>1, TakeKeepsMailbox DEF IsMailboxOf

-----------------------------------------------------------------------------
(***************************************************************************)
(* The same in terms of copies: how often a message waits in a mailbox.    *)
(***************************************************************************)
CopiesOf(m, box) == IF m \in Queued(box) THEN box[m] ELSE 0

\* A message is queued if there is a copy of it.
LEMMA CopiesOfQueued ==
    ASSUME NEW box, IsABag(box), NEW m
    PROVE  /\ CopiesOf(m, box) \in Nat
           /\ m \in Queued(box) <=> CopiesOf(m, box) > 0
BY DEF CopiesOf, BagToSet, Queued, IsABag

LEMMA EmptyHasNoCopies ==
    /\ IsABag(EmptyBag)
    /\ \A m : CopiesOf(m, EmptyBag) = 0
BY DEF EmptyBag, SetToBag, IsABag, CopiesOf, Queued, BagToSet

\* Posting a set adds one copy of each of its members.
LEMMA PostAllAddsCopies ==
    ASSUME NEW box, IsABag(box), NEW M
    PROVE  /\ IsABag(PostAll(box, M))
           /\ \A m : CopiesOf(m, PostAll(box, M))
                        = CopiesOf(m, box) + (IF m \in M THEN 1 ELSE 0)
<1>1. IsMailboxOf(box, Queued(box) \cup M)
    BY DEF IsMailboxOf
<1>2. /\ IsABag(PostAll(box, M))
      /\ Queued(PostAll(box, M)) = Queued(box) \cup M
    BY <1>1, PostAllKeepsMailbox DEF IsMailboxOf
<1> SUFFICES ASSUME NEW m
             PROVE  CopiesOf(m, PostAll(box, M))
                        = CopiesOf(m, box) + (IF m \in M THEN 1 ELSE 0)
    BY <1>2
<1>3. PostAll(box, M)
        = [e \in DOMAIN box \cup M |->
                (IF e \in DOMAIN box THEN box[e] ELSE 0)
                    + (IF e \in M THEN 1 ELSE 0)]
    BY DEF PostAll, (+), SetToBag
<1>4. CopiesOf(m, box) = IF m \in DOMAIN box THEN box[m] ELSE 0
    BY DEF CopiesOf, BagToSet, Queued
<1>5. CopiesOf(m, PostAll(box, M))
        = IF m \in DOMAIN box \cup M THEN PostAll(box, M)[m] ELSE 0
    BY <1>2 DEF CopiesOf, BagToSet, Queued
<1>6. CASE m \in DOMAIN box \cup M
    BY <1>3, <1>4, <1>5, <1>6
<1>7. CASE m \notin DOMAIN box \cup M
    BY <1>4, <1>5, <1>7
<1> QED
    BY <1>6, <1>7

\* Taking a message that is queued removes one copy of it.
LEMMA TakeRemovesCopy ==
    ASSUME NEW box, IsABag(box), NEW n \in Queued(box)
    PROVE  /\ IsABag(Take(box, n))
           /\ \A m : CopiesOf(m, Take(box, n))
                        = CopiesOf(m, box) - (IF m = n THEN 1 ELSE 0)
<1>1. IsMailboxOf(box, Queued(box))
    BY DEF IsMailboxOf
<1>2. /\ IsABag(Take(box, n))
      /\ Queued(Take(box, n)) \subseteq Queued(box)
      /\ \A m \in Queued(box) : m # n => /\ m \in Queued(Take(box, n))
                                         /\ Take(box, n)[m] = box[m]
    BY <1>1, TakeKeepsMailbox DEF IsMailboxOf
<1> SUFFICES ASSUME NEW m
             PROVE  CopiesOf(m, Take(box, n))
                        = CopiesOf(m, box) - (IF m = n THEN 1 ELSE 0)
    BY <1>2
<1>3. CopiesOf(m, box) \in Nat
    BY CopiesOfQueued
<1>4. CASE m # n
    <2>1. CopiesOf(m, Take(box, n)) = CopiesOf(m, box)
        BY <1>2, <1>4 DEF CopiesOf, BagToSet, Queued
    <2> QED
        BY <1>3, <1>4, <2>1
<1>5. CASE m = n
    <2> DEFINE B == [e \in DOMAIN box |-> IF e \in {n} THEN box[e] - 1
                                          ELSE box[e]]
    <2>1. Take(box, n) = [e \in {d \in DOMAIN B : B[d] > 0} |-> B[e]]
        BY DEF Take, (-), SetToBag
    <2>2. n \in DOMAIN box /\ box[n] \in Nat /\ box[n] > 0
        BY DEF Queued, BagToSet, IsABag
    <2>3. B[n] = box[n] - 1
        BY <2>2
    <2>4. DOMAIN Take(box, n) = {d \in DOMAIN box : B[d] > 0}
        BY <2>1
    <2>5. n \in DOMAIN Take(box, n) => Take(box, n)[n] = box[n] - 1
        BY <2>1, <2>3
    <2>6. n \in DOMAIN Take(box, n) <=> box[n] - 1 > 0
        BY <2>2, <2>3, <2>4
    <2> HIDE DEF B
    <2>7. CopiesOf(n, Take(box, n)) = box[n] - 1
        BY <2>2, <2>5, <2>6 DEF CopiesOf, BagToSet, Queued
    <2>8. CopiesOf(n, box) = box[n]
        BY <2>2 DEF CopiesOf, BagToSet, Queued
    <2> QED
        BY <1>5, <2>7, <2>8
<1> QED
    BY <1>4, <1>5

-----------------------------------------------------------------------------
(***************************************************************************)
(* How many copies of the members of a set wait in a mailbox: one token    *)
(* stands for each copy, and what posting and taking do to the tokens      *)
(* bounds what they do to their number.                                    *)
(***************************************************************************)
Tokens(K, box) == {t \in K \X Nat : t[2] \in 1 .. CopiesOf(t[1], box)}

\* The tokens can be counted, and there are n of them at most.
AtMost(n, K, box) ==
    IsFiniteSet(Tokens(K, box)) /\ Cardinality(Tokens(K, box)) <= n

LEMMA PostAllTokens ==
    ASSUME NEW box, IsABag(box), NEW M, NEW K
    PROVE  Tokens(K, PostAll(box, M))
                \subseteq Tokens(K, box)
                    \cup {<<m, CopiesOf(m, box) + 1>> : m \in M \cap K}
<1> SUFFICES ASSUME NEW m \in K, NEW k \in Nat,
                    k \in 1 .. CopiesOf(m, PostAll(box, M)),
                    k \notin 1 .. CopiesOf(m, box)
             PROVE  m \in M /\ k = CopiesOf(m, box) + 1
    BY DEF Tokens
<1>1. CopiesOf(m, PostAll(box, M))
            = CopiesOf(m, box) + (IF m \in M THEN 1 ELSE 0)
    BY PostAllAddsCopies
<1>2. CopiesOf(m, box) \in Nat
    BY CopiesOfQueued
<1> QED
    BY <1>1, <1>2

LEMMA TakeTokens ==
    ASSUME NEW box, IsABag(box), NEW n \in Queued(box), NEW K
    PROVE  /\ Tokens(K, Take(box, n))
                \subseteq Tokens(K, box) \ {<<n, CopiesOf(n, box)>>}
           /\ n \in K => <<n, CopiesOf(n, box)>> \in Tokens(K, box)
<1>1. CopiesOf(n, box) \in Nat /\ CopiesOf(n, box) > 0
    BY CopiesOfQueued
<1>2. n \in K => <<n, CopiesOf(n, box)>> \in Tokens(K, box)
    BY <1>1 DEF Tokens
<1>3. ASSUME NEW m \in K, NEW k \in Nat,
             k \in 1 .. CopiesOf(m, Take(box, n))
      PROVE  k \in 1 .. CopiesOf(m, box) /\ <<m, k>> # <<n, CopiesOf(n, box)>>
    <2>1. CopiesOf(m, Take(box, n))
            = CopiesOf(m, box) - (IF m = n THEN 1 ELSE 0)
        BY TakeRemovesCopy
    <2>2. CopiesOf(m, box) \in Nat
        BY CopiesOfQueued
    <2> QED
        BY <1>3, <2>1, <2>2
<1> QED
    BY <1>2, <1>3 DEF Tokens

LEMMA NoTokens == \A K : AtMost(0, K, EmptyBag)
<1> SUFFICES ASSUME NEW K PROVE AtMost(0, K, EmptyBag)
    OBVIOUS
<1>1. Tokens(K, EmptyBag) = {}
    BY EmptyHasNoCopies DEF Tokens
<1> QED
    BY <1>1, FS_EmptySet DEF AtMost

\* Sets that are not larger, larger by one at most, or smaller by one.
LEMMA SmallerSet ==
    ASSUME NEW S, IsFiniteSet(S), NEW n \in Nat, Cardinality(S) <= n,
           NEW T \in SUBSET S
    PROVE  IsFiniteSet(T) /\ Cardinality(T) <= n
<1>1. IsFiniteSet(T) /\ Cardinality(T) <= Cardinality(S)
    BY FS_Subset
<1>2. Cardinality(T) \in Nat /\ Cardinality(S) \in Nat
    BY <1>1, FS_CardinalityType
<1> QED
    BY <1>1, <1>2

LEMMA LargerSet ==
    ASSUME NEW S, IsFiniteSet(S), NEW n \in Nat, Cardinality(S) <= n,
           NEW x, NEW T \in SUBSET (S \cup {x})
    PROVE  IsFiniteSet(T) /\ Cardinality(T) <= n + 1
<1>1. Cardinality(S) \in Nat
    BY FS_CardinalityType
<1>2. IsFiniteSet(S \cup {x}) /\ Cardinality(S \cup {x}) <= n + 1
    BY <1>1, FS_AddElement
<1> QED
    BY <1>2, SmallerSet

LEMMA StrictlySmallerSet ==
    ASSUME NEW S, IsFiniteSet(S), NEW n \in Nat, Cardinality(S) <= n,
           NEW x \in S, NEW T \in SUBSET (S \ {x})
    PROVE  n > 0 /\ IsFiniteSet(T) /\ Cardinality(T) <= n - 1
<1>1. Cardinality(S) \in Nat
    BY FS_CardinalityType
<1>2. IsFiniteSet(S \ {x}) /\ Cardinality(S \ {x}) = Cardinality(S) - 1
    BY FS_RemoveElement
<1>3. Cardinality(S \ {x}) \in Nat
    BY <1>2, FS_CardinalityType
<1>4. n - 1 \in Nat /\ Cardinality(S \ {x}) <= n - 1
    BY <1>1, <1>2, <1>3
<1> QED
    BY <1>2, <1>4, SmallerSet

LEMMA PostAllAtMost ==
    ASSUME NEW box, IsABag(box), NEW n \in Nat, NEW K, AtMost(n, K, box),
           NEW M
    PROVE  /\ M \cap K = {} => AtMost(n, K, PostAll(box, M))
           /\ \A m : M \cap K \subseteq {m} => AtMost(n + 1, K, PostAll(box, M))
<1> DEFINE S == Tokens(K, box)
           T == Tokens(K, PostAll(box, M))
<1>1. T \subseteq S \cup {<<m, CopiesOf(m, box) + 1>> : m \in M \cap K}
    BY PostAllTokens
<1>2. IsFiniteSet(S) /\ Cardinality(S) <= n
    BY DEF AtMost
<1> HIDE DEF S, T
<1>3. ASSUME M \cap K = {} PROVE IsFiniteSet(T) /\ Cardinality(T) <= n
    BY <1>1, <1>2, <1>3, SmallerSet
<1>4. ASSUME NEW m, M \cap K \subseteq {m}
      PROVE  IsFiniteSet(T) /\ Cardinality(T) <= n + 1
    <2>1. T \subseteq S \cup {<<m, CopiesOf(m, box) + 1>>}
        BY <1>1, <1>4
    <2> QED
        BY <1>2, <2>1, LargerSet
<1> QED
    BY <1>3, <1>4 DEF T, AtMost

LEMMA TakeAtMost ==
    ASSUME NEW box, IsABag(box), NEW n \in Nat, NEW K, AtMost(n, K, box),
           NEW m \in Queued(box)
    PROVE  /\ AtMost(n, K, Take(box, m))
           /\ m \in K => n > 0 /\ AtMost(n - 1, K, Take(box, m))
<1> DEFINE S == Tokens(K, box)
           T == Tokens(K, Take(box, m))
           x == <<m, CopiesOf(m, box)>>
<1>1. T \subseteq S \ {x} /\ (m \in K => x \in S)
    BY TakeTokens
<1>2. IsFiniteSet(S) /\ Cardinality(S) <= n
    BY DEF AtMost
<1> HIDE DEF S, T, x
<1>3. IsFiniteSet(T) /\ Cardinality(T) <= n
    BY <1>1, <1>2, SmallerSet
<1>4. ASSUME m \in K
      PROVE  n > 0 /\ IsFiniteSet(T) /\ Cardinality(T) <= n - 1
    BY <1>1, <1>2, <1>4, StrictlySmallerSet
<1> QED
    BY <1>3, <1>4 DEF T, AtMost
=============================================================================
