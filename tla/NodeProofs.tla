------------------------------ MODULE NodeProofs ------------------------------
(***************************************************************************)
(* Proofs about the headless node: who may do what and who is blocked, its      *)
(* requests for paths and its hub, its calls over the mesh, its services, its    *)
(* discovery, and all of its modules as they are checked together, for any       *)
(* number of members, peers, prefixes, destinations, calls, answers, interfaces, *)
(* announces, threads and restarts.                                              *)
(***************************************************************************)
EXTENDS MCNode, FiniteSetTheorems, SequenceTheorems, TLAPS

-----------------------------------------------------------------------------
(* Sets of numbers and sequences.                                           *)

\* A set of numbers that is not empty has a least one.
LEMMA MinOfNumbers ==
  ASSUME NEW I, I \subseteq Nat, I # {}
  PROVE  Min(I) \in I /\ \A y \in I : Min(I) <= y
<1> DEFINE R == OpToRel(<, Nat)
<1>1. \A x, y \in Nat : y < x => <<y, x>> \in R
  BY DEF OpToRel
<1>2. IsWellFoundedOn(R, Nat) BY NatLessThanWellFounded
<1> HIDE DEF R
<1>3. PICK x \in I : \A y \in I : ~ (<<y, x>> \in R)
  BY <1>2, WFMin
<1>4. ASSUME NEW y \in I PROVE x <= y
  <2>1. x \in Nat /\ y \in Nat OBVIOUS
  <2>2. ~(y < x) BY <1>1, <1>3, <2>1
  <2> QED BY <2>1, <2>2
<1> QED BY <1>4 DEF Min

\* t is s without its element at i, and what follows is moved up.
Without(t, s, i) ==
    /\ Len(t) = Len(s) - 1
    /\ \A j \in 1..(Len(s) - 1) : t[j] = IF j < i THEN s[j] ELSE s[j + 1]

\* RemoveFirst takes an element that is there out at one place, and moves up what follows.
LEMMA RemoveFirstShifts ==
  ASSUME NEW S, NEW s \in Seq(S), NEW e, NEW k \in 1..Len(s), s[k] = e
  PROVE  \E i \in 1..Len(s) :
            /\ s[i] = e
            /\ RemoveFirst(s, e) \in Seq(S)
            /\ Without(RemoveFirst(s, e), s, i)
<1> DEFINE I == {i \in 1..Len(s) : s[i] = e}
           i == Min(I)
<1>1. i \in I
  <2>1. I \subseteq Nat /\ I # {} OBVIOUS
  <2> HIDE DEF I
  <2> QED BY <2>1, MinOfNumbers
<1>2. RemoveFirst(s, e) = SubSeq(s, 1, i - 1) \o SubSeq(s, i + 1, Len(s))
  BY <1>1 DEF RemoveFirst, RemoveAt, SelectInSeq
<1> HIDE DEF i
<1>3. i \in 1..Len(s) /\ s[i] = e /\ Len(s) \in Nat BY <1>1
<1> DEFINE a == SubSeq(s, 1, i - 1)
           b == SubSeq(s, i + 1, Len(s))
<1>4. a \in Seq(S) /\ Len(a) = i - 1 /\ \A j \in 1..(i - 1) : a[j] = s[j]
  BY <1>3, SubSeqProperties
<1>5. b \in Seq(S) /\ Len(b) = Len(s) - i /\ \A j \in 1..(Len(s) - i) : b[j] = s[i + j]
  BY <1>3, SubSeqProperties
<1> HIDE DEF a, b
<1>6. a \o b \in Seq(S) /\ Len(a \o b) = Len(s) - 1
  <2>1. a \in Seq(S) /\ b \in Seq(S) BY <1>4, <1>5
  <2>2. a \o b \in Seq(S) /\ Len(a \o b) = Len(a) + Len(b) BY <2>1, ConcatProperties
  <2>3. i \in Nat /\ (i - 1) + (Len(s) - i) = Len(s) - 1 BY <1>3
  <2> QED BY <1>4, <1>5, <2>2, <2>3
<1>7. \A j \in 1..(Len(s) - 1) : (a \o b)[j] = IF j < i THEN s[j] ELSE s[j + 1]
  <2> SUFFICES ASSUME NEW j \in 1..(Len(s) - 1)
               PROVE  (a \o b)[j] = IF j < i THEN s[j] ELSE s[j + 1]
    OBVIOUS
  <2>1. (a \o b)[j] = IF j <= Len(a) THEN a[j] ELSE b[j - Len(a)]
    BY <1>3, <1>4, <1>5, ConcatProperties
  <2>2. i \in Nat /\ j \in Nat BY <1>3
  <2>3. CASE j < i
    <3>1. j \in 1..(i - 1) /\ j <= Len(a) BY <1>3, <1>4, <2>2, <2>3
    <3> QED BY <1>4, <2>1, <2>3, <3>1
  <2>4. CASE ~(j < i)
    <3>1. j - Len(a) \in 1..(Len(s) - i) /\ i + (j - Len(a)) = j + 1 /\ ~(j <= Len(a))
      BY <1>3, <1>4, <2>2, <2>4
    <3>2. b[j - Len(a)] = s[i + (j - Len(a))] BY <1>5, <3>1
    <3> QED BY <2>1, <2>4, <3>1, <3>2
  <2> QED BY <2>3, <2>4
<1>8. RemoveFirst(s, e) = a \o b BY <1>2 DEF a, b
<1> QED BY <1>3, <1>6, <1>7, <1>8 DEF Without

\* Of a sequence without the element it leaves everything.
LEMMA RemoveFirstOfOther ==
  ASSUME NEW S, NEW s \in Seq(S), NEW e, \A k \in 1..Len(s) : s[k] # e
  PROVE  RemoveFirst(s, e) = s
BY DEF RemoveFirst

\* A finite set in a sequence: every element once.
LEMMA SetToSeqLists ==
  ASSUME NEW S, IsFiniteSet(S)
  PROVE  /\ SetToSeq(S) \in Seq(S)
         /\ ToSet(SetToSeq(S)) = S
         /\ IsInjective(SetToSeq(S))
<1> DEFINE n == Cardinality(S)
           f == SetToSeq(S)
<1>1. n \in Nat /\ ExistsBijection(1..n, S) BY FS_CardinalityType
<1>2. \E g : g \in [1..n -> S] /\ IsInjective(g)
  BY <1>1 DEF ExistsBijection, Bijection, Injection
<1>3. f \in [1..n -> S] /\ IsInjective(f)
  BY <1>2 DEF SetToSeq
<1>4. f \in Surjection(1..n, S)
  <2>1. f \in Injection(1..n, S) BY <1>3 DEF Injection
  <2>2. IsFiniteSet(1..n) /\ Cardinality(1..n) = n
    <3>1. IsFiniteSet(1..n) /\ Cardinality(1..n) = IF 1 > n THEN 0 ELSE n - 1 + 1
      BY <1>1, FS_Interval
    <3> QED BY <1>1, <3>1
  <2> QED BY <2>1, <2>2, FS_Injection
<1>5. f \in Seq(S) BY <1>1, <1>3
<1>6. ToSet(f) = S BY <1>3, <1>4 DEF ToSet, Surjection
<1> QED BY <1>3, <1>5, <1>6

\* What begins a sequence stays where it is in it.
LEMMA PrefixStays ==
  ASSUME NEW S, NEW s \in Seq(S), NEW t \in Seq(S), IsPrefix(s, t)
  PROVE  Len(s) <= Len(t) /\ \A j \in 1..Len(s) : t[j] = s[j]
<1>1. Len(s) <= Len(t) /\ Len(s) \in Nat /\ Len(t) \in Nat BY DEF IsPrefix
<1>2. SubSeq(s, 1, Len(s)) = SubSeq(t, 1, Len(s)) BY DEF IsPrefix
<1>3. \A j \in 1..Len(s) : SubSeq(s, 1, Len(s))[j] = s[j]
  BY <1>1, SubSeqProperties
<1>4. \A j \in 1..Len(s) : SubSeq(t, 1, Len(s))[j] = t[j]
  BY <1>1, SubSeqProperties
<1> QED BY <1>1, <1>2, <1>3, <1>4

\* One of a sequence's places has a last one.
LEMMA MaxOfPlaces ==
  ASSUME NEW n \in Nat, NEW I, I \subseteq 1..n, I # {}
  PROVE  \E i \in I : \A j \in I : j <= i
<1> DEFINE J == {n - i : i \in I}
<1>1. J \subseteq Nat /\ J # {}
  <2>1. \A i \in I : i \in 1..n OBVIOUS
  <2>2. \A i \in 1..n : n - i \in Nat OBVIOUS
  <2> QED BY <2>1, <2>2
<1>2. Min(J) \in J /\ \A y \in J : Min(J) <= y
  <2> HIDE DEF J
  <2> QED BY <1>1, MinOfNumbers
<1>3. PICK i \in I : Min(J) = n - i BY <1>2
<1>4. ASSUME NEW j \in I PROVE j <= i
  <2>1. n - i <= n - j BY <1>2, <1>3
  <2>2. i \in Nat /\ j \in Nat OBVIOUS
  <2> QED BY <2>1, <2>2
<1> QED BY <1>4

-----------------------------------------------------------------------------
(* The lists the policy keeps for Reticulum.                                 *)

\* A policy keeps its three parts, and a list is kept only while it is right.
IsPolicy(p) == p = [default_role |-> p.default_role, roster |-> p.roster, blocked |-> p.blocked]
CacheInv == IsPolicy(policy) /\ ListsAreCurrent

\* What is read from a file is a policy.
LEMMA ParsedIsPolicy == ASSUME NEW t PROVE IsPolicy(ParseRBAC(t))
BY DEF IsPolicy, ParseRBAC

\* A policy stays one when a part is replaced.
LEMMA ReplacedIsPolicy ==
  ASSUME NEW p, IsPolicy(p), NEW x
  PROVE  IsPolicy([p EXCEPT !.roster = x]) /\ IsPolicy([p EXCEPT !.blocked = x])
<1>1. [p EXCEPT !.roster = x] = [default_role |-> p.default_role, roster |-> x, blocked |-> p.blocked]
  BY DEF IsPolicy
<1>2. [p EXCEPT !.blocked = x] = [default_role |-> p.default_role, roster |-> p.roster, blocked |-> x]
  BY DEF IsPolicy
<1> QED BY <1>1, <1>2 DEF IsPolicy

\* Where no list is kept, none is wrong.
LEMMA InvalidatedIsCurrent ==
  ASSUME cache' = Invalidated
  PROVE  ListsAreCurrent'
BY DEF Invalidated, ListsAreCurrent

\* A step that replaces a part and drops the lists keeps the invariant.
LEMMA ReplacedStep ==
  ASSUME IsPolicy(policy), cache' = Invalidated, NEW x,
         policy' = [policy EXCEPT !.roster = x] \/ policy' = [policy EXCEPT !.blocked = x]
  PROVE  CacheInv'
<1>1. IsPolicy(policy)'
  <2>1. IsPolicy([policy EXCEPT !.roster = x]) /\ IsPolicy([policy EXCEPT !.blocked = x])
    BY ReplacedIsPolicy
  <2> QED BY <2>1 DEF IsPolicy
<1> QED BY <1>1, InvalidatedIsCurrent DEF CacheInv

LEMMA CacheInit == PolicyInit => CacheInv
<1> SUFFICES ASSUME PolicyInit PROVE CacheInv
  OBVIOUS
<1>1. IsPolicy(policy) BY ParsedIsPolicy DEF PolicyInit
<1>2. ListsAreCurrent BY DEF PolicyInit, Invalidated, ListsAreCurrent
<1> QED BY <1>1, <1>2 DEF CacheInv

\* Every change of roster or prefixes drops the lists; what changes the file leaves
\* policy and lists alone.
LEMMA CacheStep ==
  ASSUME CacheInv, [PolicyNext]_policyVars
  PROVE  CacheInv'
<1>1. CASE LoadsPolicy
  BY <1>1, ParsedIsPolicy, InvalidatedIsCurrent DEF LoadsPolicy, CacheInv
<1>2. ASSUME NEW e \in Line, AddRosterEntry(e) PROVE CacheInv'
  <2> DEFINE x == With(policy.roster, e.identity, [role |-> e.role, grants |-> e.grants \cap Capability])
  <2>1. policy' = [policy EXCEPT !.roster = x] BY <1>2 DEF AddRosterEntry
  <2>2. cache' = Invalidated BY <1>2 DEF AddRosterEntry
  <2> HIDE DEF x
  <2> QED BY <2>1, <2>2, ReplacedStep DEF CacheInv
<1>3. ASSUME NEW m \in Member, RemoveRosterEntry(m) PROVE CacheInv'
  <2> DEFINE x == [n \in DOMAIN policy.roster \ {m} |-> policy.roster[n]]
  <2>1. policy' = [policy EXCEPT !.roster = x] BY <1>3 DEF RemoveRosterEntry
  <2>2. cache' = Invalidated BY <1>3 DEF RemoveRosterEntry
  <2> HIDE DEF x
  <2> QED BY <2>1, <2>2, ReplacedStep DEF CacheInv
<1>4. ASSUME NEW q \in Prefix, Block(q) \/ Unblock(q) PROVE CacheInv'
  <2>1. PICK x : policy' = [policy EXCEPT !.blocked = x] BY <1>4 DEF Block, Unblock
  <2>2. cache' = Invalidated BY <1>4 DEF Block, Unblock
  <2> QED BY <2>1, <2>2, ReplacedStep DEF CacheInv
<1>5. CASE \E c \in Asked : GetAllowList(c)
  BY <1>5 DEF GetAllowList, CacheInv, ListsAreCurrent, Holders
<1>6. CASE UNCHANGED <<policy, cache>>
  BY <1>6 DEF CacheInv, ListsAreCurrent, Holders
<1>7. ASSUME \/ \E e \in Line : OwnerWrites(e)
             \/ \E m \in Member : WebAuthAdd(m) \/ WebAuthRemove(m)
             \/ \E q \in Prefix : OwnerBlocks(q)
      PROVE  UNCHANGED <<policy, cache>>
  BY <1>7 DEF OwnerWrites, WebAuthAdd, Adds, WebAuthRemove, OwnerBlocks
<1> QED
  BY <1>1, <1>2, <1>3, <1>4, <1>5, <1>6, <1>7 DEF PolicyNext, policyVars

\* A list that is kept is the one that would be made now, however the roster has been
\* changed, and whenever it was asked for.
THEOREM AllowListsAreCurrent == PolicySpec => []ListsAreCurrent
<1>1. CacheInv => ListsAreCurrent BY DEF CacheInv
<1> QED BY <1>1, CacheInit, CacheStep, PTL DEF PolicySpec

\* Without its prefixes a policy gives a member of its roster what the lists say.
LEMMA HoldersHave ==
  ASSUME IsPolicy(policy), NEW c, NEW m \in DOMAIN policy.roster
  PROVE  m \in Holders(policy, c) <=> HasCapability([policy EXCEPT !.blocked = {}], m, c)
<1> DEFINE p == [policy EXCEPT !.blocked = {}]
<1>1. p.roster = policy.roster /\ p.blocked = {}
  BY DEF IsPolicy
<1>2. ResolveRole(p, m) = policy.roster[m].role
  BY <1>1 DEF ResolveRole
<1> QED BY <1>1, <1>2 DEF HasCapability, Holders

\* A policy whose prefixes do not cover a member decides as if it had none.
LEMMA UncoveredDecidesAlike ==
  ASSUME IsPolicy(policy), NEW c, NEW m \in DOMAIN policy.roster,
         ~ \E q \in policy.blocked : Covers(q, m)
  PROVE  HasCapability(policy, m, c) <=> HasCapability([policy EXCEPT !.blocked = {}], m, c)
<1> DEFINE p == [policy EXCEPT !.blocked = {}]
<1>1. p.roster = policy.roster /\ p.blocked = {}
  BY DEF IsPolicy
<1>2. ResolveRole(p, m) = ResolveRole(policy, m)
  BY <1>1 DEF ResolveRole
<1> QED BY <1>1, <1>2 DEF HasCapability

LEMMA ListsFollow == CacheInv => ListsAgree
<1> SUFFICES ASSUME CacheInv, NEW c \in DOMAIN cache, NEW m \in DOMAIN policy.roster
             PROVE  (m \in cache[c]) <=>
                       \/ HasCapability(policy, m, c)
                       \/ /\ \E q \in policy.blocked : Covers(q, m)
                          /\ HasCapability([policy EXCEPT !.blocked = {}], m, c)
  BY DEF ListsAgree
<1>1. m \in cache[c] <=> HasCapability([policy EXCEPT !.blocked = {}], m, c)
  BY HoldersHave DEF CacheInv, ListsAreCurrent
<1>2. CASE \E q \in policy.blocked : Covers(q, m)
  <2>1. ~HasCapability(policy, m, c) BY <1>2 DEF HasCapability, ResolveRole
  <2> QED BY <1>1, <1>2, <2>1
<1>3. CASE ~ \E q \in policy.blocked : Covers(q, m)
  BY <1>1, <1>3, UncoveredDecidesAlike DEF CacheInv
<1> QED BY <1>2, <1>3

\* So the lists and the single answers differ only for members that a prefix blocks.
THEOREM AllowListsAgree == PolicySpec => []ListsAgree
<1> QED BY ListsFollow, CacheInit, CacheStep, PTL DEF PolicySpec

-----------------------------------------------------------------------------
(* The policy and the file it is read from and written to.                    *)

\* Who is in the roster the text gives.
Known(t) == {t.roster[i].identity : i \in Readable(t)}

\* The parts of a section and of a policy.
LEMMA SectionParts ==
  ASSUME NEW t \in Section
  PROVE  /\ t.default_role \in Role \cup {"typo"} /\ t.blocked \subseteq Prefix
         /\ t.roster \in Seq(FileEntry) /\ Len(t.roster) \in Nat
         /\ Readable(t) \subseteq 1..Len(t.roster)
         /\ \A i \in Readable(t) :
               /\ t.roster[i] \in FileEntry
               /\ t.roster[i].identity \in Member /\ t.roster[i].role \in Role
         /\ Known(t) \subseteq Member
<1>1. t.default_role \in Role \cup {"typo"} /\ t.blocked \subseteq Prefix /\ t.roster \in Seq(FileEntry)
  BY DEF Section
<1>2. Len(t.roster) \in Nat /\ \A i \in 1..Len(t.roster) : t.roster[i] \in FileEntry
  BY <1>1
<1>3. \A i \in Readable(t) :
          /\ i \in 1..Len(t.roster) /\ t.roster[i] \in FileEntry
          /\ t.roster[i].identity \in Member /\ t.roster[i].role \in Role
  BY <1>2 DEF Readable, FileEntry
<1> QED BY <1>1, <1>2, <1>3 DEF Known

LEMMA PolicyParts ==
  ASSUME NEW p \in Policy
  PROVE  /\ p = [default_role |-> p.default_role, roster |-> p.roster, blocked |-> p.blocked]
         /\ p.default_role \in Role /\ p.blocked \subseteq Prefix
         /\ DOMAIN p.roster \subseteq Member /\ p.roster \in [DOMAIN p.roster -> Entry]
         /\ IsFiniteSet(DOMAIN p.roster)
<1>1. PICK M \in SUBSET Member : p.roster \in [M -> Entry] BY DEF Policy
<1>2. IsFiniteSet(M) BY PolicyAssumption, FS_Subset
<1> QED BY <1>1, <1>2 DEF Policy

LEMMA PolicyOf ==
  ASSUME NEW d \in Role, NEW M \in SUBSET Member, NEW f \in [M -> Entry], NEW b \in SUBSET Prefix
  PROVE  [default_role |-> d, roster |-> f, blocked |-> b] \in Policy
BY DEF Policy

\* Of the entries of one identity the text has a last one.
LEMMA LastOfKnown ==
  ASSUME NEW t \in Section, NEW m \in Known(t)
  PROVE  /\ LastOf(t, m) \in Readable(t) /\ t.roster[LastOf(t, m)].identity = m
         /\ \A j \in Readable(t) : t.roster[j].identity = m => j <= LastOf(t, m)
<1> DEFINE I == {i \in Readable(t) : t.roster[i].identity = m}
<1>1. I \subseteq 1..Len(t.roster) /\ I # {} /\ Len(t.roster) \in Nat
  BY SectionParts DEF Known
<1>2. \E i \in I : \A j \in I : j <= i
  <2> HIDE DEF I
  <2> QED BY <1>1, MaxOfPlaces
<1> QED BY <1>2 DEF LastOf

\* There is only one.
LEMMA LastOfIs ==
  ASSUME NEW t \in Section, NEW m, NEW k \in Readable(t), t.roster[k].identity = m,
         \A j \in Readable(t) : t.roster[j].identity = m => j <= k
  PROVE  m \in Known(t) /\ LastOf(t, m) = k
<1>1. m \in Known(t) BY DEF Known
<1>2. LastOf(t, m) \in Readable(t) /\ k <= LastOf(t, m) /\ LastOf(t, m) <= k
  BY <1>1, LastOfKnown
<1>3. LastOf(t, m) \in Nat /\ k \in Nat BY <1>2, SectionParts
<1> QED BY <1>1, <1>2, <1>3

\* What parsing makes of a section.
LEMMA ParsedParts ==
  ASSUME NEW t \in Section
  PROVE  /\ DOMAIN ParseRBAC(t).roster = Known(t)
         /\ \A m \in Known(t) :
               ParseRBAC(t).roster[m] = [role |-> t.roster[LastOf(t, m)].role,
                                         grants |-> t.roster[LastOf(t, m)].grants \cap Capability]
         /\ ParseRBAC(t).blocked = t.blocked
         /\ ParseRBAC(t) \in Policy
<1> DEFINE f == [m \in Known(t) |-> [role |-> t.roster[LastOf(t, m)].role,
                                     grants |-> t.roster[LastOf(t, m)].grants \cap Capability]]
           d == IF t.default_role \in Role THEN t.default_role ELSE "peer"
<1>1. ParseRBAC(t) = [default_role |-> d, roster |-> f, blocked |-> t.blocked]
  BY DEF ParseRBAC, Known
<1>2. "peer" \in Role BY DEF Role, Tier
<1>3. d \in Role BY <1>2
<1>4. f \in [Known(t) -> Entry]
  <2>1. ASSUME NEW m \in Known(t)
        PROVE  [role |-> t.roster[LastOf(t, m)].role,
                grants |-> t.roster[LastOf(t, m)].grants \cap Capability] \in Entry
    <3>1. t.roster[LastOf(t, m)].role \in Role BY LastOfKnown, SectionParts
    <3> QED BY <3>1 DEF Entry
  <2> QED BY <2>1
<1>5. Known(t) \in SUBSET Member /\ t.blocked \in SUBSET Prefix BY SectionParts
<1>6. DOMAIN f = Known(t) OBVIOUS
<1>7. \A m \in Known(t) : f[m] = [role |-> t.roster[LastOf(t, m)].role,
                                  grants |-> t.roster[LastOf(t, m)].grants \cap Capability]
  OBVIOUS
<1> HIDE DEF f, d
<1>8. ParseRBAC(t) \in Policy BY <1>1, <1>3, <1>4, <1>5, PolicyOf
<1> QED BY <1>1, <1>6, <1>7, <1>8

\* x says what p has of a member of its roster.
IsEntryOf(p, x) ==
    /\ x.identity \in DOMAIN p.roster
    /\ x.role = p.roster[x.identity].role /\ x.grants = p.roster[x.identity].grants

LEMMA ParsedRole ==
  ASSUME NEW t \in Section, NEW m \in Known(t)
  PROVE  ParseRBAC(t).roster[m].role = t.roster[LastOf(t, m)].role
<1>1. ParseRBAC(t).roster[m] = [role |-> t.roster[LastOf(t, m)].role,
                                grants |-> t.roster[LastOf(t, m)].grants \cap Capability]
  BY ParsedParts
<1> QED BY <1>1

\* What is written of a policy is a section with one entry of every member of the roster.
LEMMA WrittenParts ==
  ASSUME NEW p \in Policy
  PROVE  /\ Written(p) \in Section
         /\ Written(p).default_role = p.default_role /\ Written(p).blocked = p.blocked
         /\ \A m \in DOMAIN p.roster : \E i \in 1..Len(Written(p).roster) : Written(p).roster[i].identity = m
         /\ \A i \in 1..Len(Written(p).roster) : IsEntryOf(p, Written(p).roster[i])
<1> DEFINE M == DOMAIN p.roster
           e(m) == [identity |-> m, role |-> p.roster[m].role, grants |-> p.roster[m].grants]
           E == {e(m) : m \in M}
           s == SetToSeq(E)
<1>1. /\ p.default_role \in Role /\ p.blocked \subseteq Prefix /\ M \subseteq Member
      /\ IsFiniteSet(M) /\ p.roster \in [M -> Entry]
  BY PolicyParts
<1>2. Written(p) = [default_role |-> p.default_role, roster |-> s, blocked |-> p.blocked]
  BY DEF Written
<1>3. IsFiniteSet(E)
  <2> DEFINE g == [m \in M |-> e(m)]
  <2>1. g \in Surjection(M, E) BY DEF Surjection
  <2> HIDE DEF g, E, M
  <2> QED BY <1>1, <2>1, FS_Surjection
<1>4. E \subseteq FileEntry
  <2>1. \A m \in M : m \in Member /\ p.roster[m].role \in Role /\ p.roster[m].grants \subseteq Capability
    BY <1>1 DEF Entry
  <2> QED BY <2>1 DEF FileEntry
<1>5. s \in Seq(E) /\ ToSet(s) = E /\ IsInjective(s)
  <2> HIDE DEF E
  <2> QED BY <1>3, SetToSeqLists
<1> HIDE DEF s
<1>6. s \in Seq(FileEntry) /\ DOMAIN s = 1..Len(s)
  <2>1. Len(s) \in Nat /\ s \in [1..Len(s) -> E] BY <1>5
  <2>2. s \in [1..Len(s) -> FileEntry] BY <1>4, <2>1
  <2> QED BY <2>1, <2>2
<1>7. Written(p) \in Section BY <1>1, <1>2, <1>6 DEF Section
<1>8. \A m \in M : \E i \in 1..Len(s) : s[i].identity = m
  <2>1. ASSUME NEW m \in M PROVE \E i \in 1..Len(s) : s[i].identity = m
    <3>1. e(m) \in ToSet(s) /\ e(m).identity = m BY <1>5
    <3> HIDE DEF e
    <3>2. PICK i \in 1..Len(s) : s[i] = e(m) BY <1>6, <3>1 DEF ToSet
    <3> QED BY <3>1, <3>2
  <2> QED BY <2>1
<1>9. \A i \in 1..Len(s) : IsEntryOf(p, s[i])
  <2>1. ASSUME NEW i \in 1..Len(s) PROVE IsEntryOf(p, s[i])
    <3>1. s[i] \in E BY <1>5, <1>6 DEF ToSet
    <3>2. PICK m \in M : s[i] = e(m) BY <3>1
    <3> QED BY <3>2 DEF IsEntryOf
  <2> QED BY <2>1
<1>10. Written(p).roster = s /\ Written(p).default_role = p.default_role /\ Written(p).blocked = p.blocked
  BY <1>2
<1> QED BY <1>7, <1>8, <1>9, <1>10

\* A policy that is written and read again is the same one.
LEMMA ReadsBack == ASSUME NEW p \in Policy PROVE ParseRBAC(Written(p)) = p
<1> DEFINE t == Written(p)
<1>1. /\ p = [default_role |-> p.default_role, roster |-> p.roster, blocked |-> p.blocked]
      /\ p.default_role \in Role /\ p.roster \in [DOMAIN p.roster -> Entry]
  BY PolicyParts
<1>2. /\ t \in Section /\ t.default_role = p.default_role /\ t.blocked = p.blocked
      /\ \A m \in DOMAIN p.roster : \E i \in 1..Len(t.roster) : t.roster[i].identity = m
      /\ \A i \in 1..Len(t.roster) : IsEntryOf(p, t.roster[i])
  BY WrittenParts
<1> HIDE DEF t
<1>3. \A m \in DOMAIN p.roster : /\ p.roster[m].role \in Role /\ p.roster[m].grants \subseteq Capability
                                 /\ p.roster[m] = [role |-> p.roster[m].role, grants |-> p.roster[m].grants]
  BY <1>1 DEF Entry
<1>4. Readable(t) = 1..Len(t.roster)
  BY <1>2, <1>3 DEF Readable, IsEntryOf
<1>5. Known(t) = DOMAIN p.roster
  <2>1. ASSUME NEW x \in Known(t) PROVE x \in DOMAIN p.roster
    <3>1. PICK i \in 1..Len(t.roster) : t.roster[i].identity = x BY <1>4 DEF Known
    <3> QED BY <1>2, <3>1 DEF IsEntryOf
  <2>2. ASSUME NEW x \in DOMAIN p.roster PROVE x \in Known(t)
    <3>1. PICK i \in 1..Len(t.roster) : t.roster[i].identity = x BY <1>2
    <3> QED BY <1>4, <3>1 DEF Known
  <2> QED BY <2>1, <2>2
<1>6. ASSUME NEW m \in DOMAIN p.roster
      PROVE  ParseRBAC(t).roster[m] = p.roster[m]
  <2>1. LastOf(t, m) \in 1..Len(t.roster) /\ t.roster[LastOf(t, m)].identity = m
    BY <1>2, <1>4, <1>5, LastOfKnown
  <2>2. t.roster[LastOf(t, m)].role = p.roster[m].role /\ t.roster[LastOf(t, m)].grants = p.roster[m].grants
    BY <1>2, <2>1 DEF IsEntryOf
  <2>3. ParseRBAC(t).roster[m] = [role |-> p.roster[m].role, grants |-> p.roster[m].grants \cap Capability]
    BY <1>2, <1>5, <2>2, ParsedParts
  <2>4. p.roster[m].grants \cap Capability = p.roster[m].grants BY <1>3
  <2> QED BY <1>3, <2>3, <2>4
<1>7. ParseRBAC(t).roster = p.roster
  <2>1. ParseRBAC(t).roster \in [DOMAIN p.roster -> Entry]
    BY <1>2, <1>5, ParsedParts, PolicyParts
  <2> QED BY <1>1, <1>6, <2>1
<1>8. ParseRBAC(t).default_role = p.default_role /\ ParseRBAC(t).blocked = p.blocked
  BY <1>1, <1>2 DEF ParseRBAC
<1>9. ParseRBAC(t) = [default_role |-> ParseRBAC(t).default_role, roster |-> ParseRBAC(t).roster,
                      blocked |-> ParseRBAC(t).blocked]
  BY DEF ParseRBAC
<1> QED BY <1>1, <1>7, <1>8, <1>9 DEF t

\* Whom the command has made a monitor is one in the file.
SaidInv ==
    \A m \in DOMAIN said : said[m] = "new" =>
        m \in DOMAIN ParseRBAC(text).roster /\ ParseRBAC(text).roster[m].role = "monitor"

\* A policy with another entry, or without one.
LEMMA RosterWith ==
  ASSUME NEW p \in Policy, NEW m \in Member, NEW x \in Entry
  PROVE  /\ DOMAIN With(p.roster, m, x) = DOMAIN p.roster \cup {m}
         /\ With(p.roster, m, x)[m] = x
         /\ \A n \in DOMAIN p.roster \ {m} : With(p.roster, m, x)[n] = p.roster[n]
         /\ [p EXCEPT !.roster = With(p.roster, m, x)] \in Policy
         /\ [p EXCEPT !.roster = With(p.roster, m, x)].roster = With(p.roster, m, x)
<1> DEFINE f == With(p.roster, m, x)
           M == DOMAIN p.roster
<1>1. f = [n \in M \cup {m} |-> IF n = m THEN x ELSE p.roster[n]]
  BY DEF With
<1>2. p.roster \in [M -> Entry] /\ M \cup {m} \in SUBSET Member BY PolicyParts
<1>3. f \in [M \cup {m} -> Entry] BY <1>1, <1>2
<1>4. [p EXCEPT !.roster = f] = [default_role |-> p.default_role, roster |-> f, blocked |-> p.blocked]
  <2> HIDE DEF f
  <2> QED BY PolicyParts
<1>5. DOMAIN f = M \cup {m} /\ f[m] = x /\ \A n \in M \ {m} : f[n] = p.roster[n]
  BY <1>1
<1> HIDE DEF f
<1>6. [default_role |-> p.default_role, roster |-> f, blocked |-> p.blocked] \in Policy
  <2>1. p.default_role \in Role /\ p.blocked \in SUBSET Prefix BY PolicyParts
  <2> HIDE DEF M
  <2> QED BY <1>2, <1>3, <2>1, PolicyOf
<1> QED BY <1>4, <1>5, <1>6 DEF f

LEMMA RosterWithout ==
  ASSUME NEW p \in Policy, NEW m
  PROVE  /\ [p EXCEPT !.roster = [n \in DOMAIN p.roster \ {m} |-> p.roster[n]]] \in Policy
         /\ [p EXCEPT !.roster = [n \in DOMAIN p.roster \ {m} |-> p.roster[n]]].roster
               = [n \in DOMAIN p.roster \ {m} |-> p.roster[n]]
<1> DEFINE M == DOMAIN p.roster
           f == [n \in M \ {m} |-> p.roster[n]]
<1>1. p.roster \in [M -> Entry] /\ M \ {m} \in SUBSET Member BY PolicyParts
<1>2. f \in [M \ {m} -> Entry] BY <1>1
<1>3. [p EXCEPT !.roster = f] = [default_role |-> p.default_role, roster |-> f, blocked |-> p.blocked]
  <2> HIDE DEF f
  <2> QED BY PolicyParts
<1> HIDE DEF f
<1>4. [default_role |-> p.default_role, roster |-> f, blocked |-> p.blocked] \in Policy
  <2>1. p.default_role \in Role /\ p.blocked \in SUBSET Prefix BY PolicyParts
  <2> HIDE DEF M
  <2> QED BY <1>1, <1>2, <2>1, PolicyOf
<1> QED BY <1>3, <1>4 DEF f

\* An entry that is added at the end of the file changes no other identity's.
LEMMA AppendOther ==
  ASSUME NEW t \in Section, NEW x \in FileEntry, NEW m \in Known(t), m # x.identity
  PROVE  LET u == [t EXCEPT !.roster = Append(t.roster, x)]
         IN  u \in Section /\ m \in Known(u) /\ ParseRBAC(u).roster[m].role = ParseRBAC(t).roster[m].role
<1> DEFINE u == [t EXCEPT !.roster = Append(t.roster, x)]
           k == LastOf(t, m)
<1>1. /\ t.roster \in Seq(FileEntry) /\ Len(t.roster) \in Nat /\ Readable(t) \subseteq 1..Len(t.roster)
      /\ t.default_role \in Role \cup {"typo"} /\ t.blocked \subseteq Prefix
  BY SectionParts
<1>2. /\ Append(t.roster, x) \in Seq(FileEntry) /\ Len(Append(t.roster, x)) = Len(t.roster) + 1
      /\ \A i \in 1..Len(t.roster) : Append(t.roster, x)[i] = t.roster[i]
      /\ Append(t.roster, x)[Len(t.roster) + 1] = x
  BY <1>1
<1>3. u = [default_role |-> t.default_role, roster |-> Append(t.roster, x), blocked |-> t.blocked]
  BY DEF Section
<1>4. u \in Section /\ u.roster = Append(t.roster, x) BY <1>1, <1>2, <1>3 DEF Section
<1> HIDE DEF u
<1>5. k \in Readable(t) /\ t.roster[k].identity = m
      /\ \A j \in Readable(t) : t.roster[j].identity = m => j <= k
  BY LastOfKnown
<1> HIDE DEF k
<1>6. k \in Readable(u) /\ u.roster[k].identity = m /\ u.roster[k] = t.roster[k]
  BY <1>1, <1>2, <1>4, <1>5 DEF Readable
<1>7. ASSUME NEW j \in Readable(u), u.roster[j].identity = m PROVE j <= k
  <2>1. j \in 1..(Len(t.roster) + 1) BY <1>2, <1>4 DEF Readable
  <2>2. j # Len(t.roster) + 1 BY <1>2, <1>4, <1>7
  <2>3. j \in 1..Len(t.roster) BY <1>1, <2>1, <2>2
  <2>4. j \in Readable(t) /\ t.roster[j].identity = m BY <1>2, <1>4, <1>7, <2>3 DEF Readable
  <2> QED BY <1>5, <2>4
<1>8. m \in Known(u) /\ LastOf(u, m) = k BY <1>4, <1>6, <1>7, LastOfIs
<1>9. ParseRBAC(u).roster[m].role = u.roster[k].role BY <1>4, <1>8, ParsedRole
<1>10. ParseRBAC(t).roster[m].role = t.roster[k].role BY ParsedRole DEF k
<1> QED BY <1>4, <1>6, <1>8, <1>9, <1>10 DEF u

LEMMA PolicyStart == PolicyInit => PolicyTypeOK /\ SaidInv
<1> SUFFICES ASSUME PolicyInit PROVE PolicyTypeOK /\ SaidInv
  OBVIOUS
<1>1. PICK d \in {"none", "monitor", "typo"}, r \in {<<>>} \cup {<<e>> : e \in Line} \cup (Line \X Line) :
          text = [default_role |-> d, roster |-> r, blocked |-> {}]
  BY DEF PolicyInit
<1>2. d \in Role \cup {"typo"} BY DEF Role, Tier
<1>3. r \in Seq(FileEntry)
  <2>1. CASE r = <<>> BY <2>1
  <2>2. ASSUME NEW e \in Line, r = <<e>> PROVE r \in Seq(FileEntry)
    <3>1. e \in FileEntry BY PolicyAssumption
    <3> QED BY <2>2, <3>1
  <2>3. ASSUME NEW e \in Line, NEW f \in Line, r = <<e, f>> PROVE r \in Seq(FileEntry)
    <3>1. e \in FileEntry /\ f \in FileEntry BY PolicyAssumption
    <3> QED BY <2>3, <3>1
  <2> QED BY <2>1, <2>2, <2>3
<1>4. text \in Section BY <1>1, <1>2, <1>3 DEF Section
<1>5. policy \in Policy BY <1>4, ParsedParts DEF PolicyInit
<1>6. DOMAIN cache = {} /\ DOMAIN said = {} /\ moves \in 0..MaxPolicyChanges
  BY PolicyAssumption DEF PolicyInit, Invalidated
<1> QED BY <1>4, <1>5, <1>6 DEF PolicyTypeOK, SaidInv

\* The steps of the node leave the file and what was said alone.
LEMMA NodePolicyStep ==
  ASSUME PolicyTypeOK, SaidInv,
         \/ LoadsPolicy
         \/ \E e \in Line : AddRosterEntry(e)
         \/ \E m \in Member : RemoveRosterEntry(m)
         \/ \E q \in Prefix : Block(q) \/ Unblock(q)
         \/ \E c \in Asked : GetAllowList(c)
  PROVE  PolicyTypeOK' /\ SaidInv'
<1>1. text' = text /\ said' = said
  BY DEF LoadsPolicy, AddRosterEntry, RemoveRosterEntry, Block, Unblock, GetAllowList
<1>2. SaidInv' BY <1>1 DEF SaidInv
<1>3. ASSUME policy' \in Policy, moves' \in 0..MaxPolicyChanges,
             DOMAIN cache' \subseteq Capability, \A c \in DOMAIN cache' : cache'[c] \subseteq Member
      PROVE  PolicyTypeOK' /\ SaidInv'
  BY <1>1, <1>2, <1>3 DEF PolicyTypeOK
<1>4. policy \in Policy /\ moves \in 0..MaxPolicyChanges BY DEF PolicyTypeOK
<1>5. ASSUME cache' = Invalidated
      PROVE  DOMAIN cache' \subseteq Capability /\ \A c \in DOMAIN cache' : cache'[c] \subseteq Member
  BY <1>5 DEF Invalidated
<1>6. ASSUME PolicyMoves PROVE moves' \in 0..MaxPolicyChanges
  BY <1>4, <1>6, PolicyAssumption DEF PolicyMoves
<1>7. CASE LoadsPolicy
  <2>1. text \in Section BY DEF PolicyTypeOK
  <2>2. policy' \in Policy BY <1>7, <2>1, ParsedParts DEF LoadsPolicy
  <2> QED BY <1>3, <1>4, <1>5, <1>7, <2>2 DEF LoadsPolicy
<1>8. ASSUME NEW e \in Line, AddRosterEntry(e) PROVE PolicyTypeOK' /\ SaidInv'
  <2> DEFINE x == [role |-> e.role, grants |-> e.grants \cap Capability]
             m == e.identity
  <2>1. policy' = [policy EXCEPT !.roster = With(policy.roster, m, x)] BY <1>8 DEF AddRosterEntry
  <2>2. m \in Member BY PolicyAssumption DEF FileEntry
  <2>3. x \in Entry BY <1>8 DEF AddRosterEntry, Entry
  <2> HIDE DEF x, m
  <2>4. policy' \in Policy BY <1>4, <2>1, <2>2, <2>3, RosterWith
  <2> QED BY <1>3, <1>5, <1>6, <1>8, <2>4 DEF AddRosterEntry
<1>9. ASSUME NEW m \in Member, RemoveRosterEntry(m) PROVE PolicyTypeOK' /\ SaidInv'
  <2>1. policy' = [policy EXCEPT !.roster = [n \in DOMAIN policy.roster \ {m} |-> policy.roster[n]]]
    BY <1>9 DEF RemoveRosterEntry
  <2>2. policy' \in Policy BY <1>4, <2>1, RosterWithout
  <2> QED BY <1>3, <1>5, <1>6, <1>9, <2>2 DEF RemoveRosterEntry
<1>10. ASSUME NEW q \in Prefix, Block(q) \/ Unblock(q) PROVE PolicyTypeOK' /\ SaidInv'
  <2>1. PICK b \in SUBSET Prefix : policy' = [policy EXCEPT !.blocked = b]
    <3>1. policy.blocked \subseteq Prefix BY <1>4, PolicyParts
    <3> QED BY <1>10, <3>1 DEF Block, Unblock
  <2>2. policy' = [default_role |-> policy.default_role, roster |-> policy.roster, blocked |-> b]
    BY <1>4, <2>1, PolicyParts
  <2>3. policy.default_role \in Role /\ DOMAIN policy.roster \in SUBSET Member
        /\ policy.roster \in [DOMAIN policy.roster -> Entry]
    BY <1>4, PolicyParts
  <2>4. policy' \in Policy BY <2>2, <2>3, PolicyOf
  <2> QED BY <1>3, <1>5, <1>6, <1>10, <2>4 DEF Block, Unblock
<1>11. ASSUME NEW c \in Asked, GetAllowList(c) PROVE PolicyTypeOK' /\ SaidInv'
  <2>1. policy' = policy /\ moves' = moves
        /\ cache' = [d \in DOMAIN cache \cup {c} |-> IF d = c THEN Holders(policy, c) ELSE cache[d]]
    BY <1>11 DEF GetAllowList
  <2>2. Holders(policy, c) \subseteq Member
    <3>1. DOMAIN policy.roster \subseteq Member BY <1>4, PolicyParts
    <3> QED BY <3>1 DEF Holders
  <2>3. DOMAIN cache' \subseteq Capability BY <2>1, PolicyAssumption DEF PolicyTypeOK
  <2>4. \A d \in DOMAIN cache' : cache'[d] \subseteq Member BY <2>1, <2>2 DEF PolicyTypeOK
  <2> QED BY <1>3, <1>4, <2>1, <2>3, <2>4
<1> QED BY <1>7, <1>8, <1>9, <1>10, <1>11

\* The steps of the command and of the owner leave the node alone.
LEMMA FileStep ==
  ASSUME PolicyTypeOK, SaidInv,
         \/ \E e \in Line : OwnerWrites(e)
         \/ \E m \in Member : WebAuthAdd(m) \/ WebAuthRemove(m)
         \/ \E q \in Prefix : OwnerBlocks(q)
  PROVE  PolicyTypeOK' /\ SaidInv'
<1> DEFINE p == ParseRBAC(text)
<1>1. policy' = policy /\ cache' = cache /\ PolicyMoves
  BY DEF OwnerWrites, WebAuthAdd, Adds, WebAuthRemove, OwnerBlocks
<1>2. text \in Section /\ moves \in 0..MaxPolicyChanges /\ DOMAIN said \subseteq Member
      /\ \A m \in DOMAIN said : said[m] \in {"had", "new"}
  BY DEF PolicyTypeOK
<1>3. moves' \in 0..MaxPolicyChanges
  BY <1>1, <1>2, PolicyAssumption DEF PolicyMoves
<1>4. ASSUME text' \in Section, DOMAIN said' \subseteq Member,
             \A m \in DOMAIN said' : said'[m] \in {"had", "new"}
      PROVE  PolicyTypeOK'
  BY <1>1, <1>3, <1>4 DEF PolicyTypeOK
<1>5. p \in Policy /\ DOMAIN p.roster = Known(text) BY <1>2, ParsedParts
<1>6. ASSUME NEW e \in Line, OwnerWrites(e) PROVE PolicyTypeOK' /\ SaidInv'
  <2> DEFINE u == [text EXCEPT !.roster = Append(text.roster, e)]
  <2>1. text' = u /\ said' = [n \in DOMAIN said \ {e.identity} |-> said[n]]
    BY <1>6 DEF OwnerWrites
  <2>2. e \in FileEntry BY PolicyAssumption
  <2>3. text' \in Section
    <3>1. text.roster \in Seq(FileEntry) BY <1>2, SectionParts
    <3>2. Append(text.roster, e) \in Seq(FileEntry) BY <2>2, <3>1
    <3> QED BY <1>2, <2>1, <3>2 DEF Section
  <2>4. PolicyTypeOK' BY <1>2, <1>4, <2>1, <2>3
  <2>5. ASSUME NEW m \in DOMAIN said', said'[m] = "new"
        PROVE  m \in DOMAIN ParseRBAC(text').roster /\ ParseRBAC(text').roster[m].role = "monitor"
    <3>1. m \in DOMAIN said /\ said[m] = "new" /\ m # e.identity BY <2>1, <2>5
    <3>2. m \in Known(text) /\ p.roster[m].role = "monitor" BY <1>5, <3>1 DEF SaidInv
    <3>3. u \in Section /\ m \in Known(u) /\ ParseRBAC(u).roster[m].role = ParseRBAC(text).roster[m].role
      BY <1>2, <2>2, <3>1, <3>2, AppendOther
    <3>4. DOMAIN ParseRBAC(u).roster = Known(u) BY <3>3, ParsedParts
    <3> QED BY <2>1, <3>2, <3>3, <3>4
  <2> QED BY <2>4, <2>5 DEF SaidInv
<1>7. ASSUME NEW x \in Policy, text' = Written(x) PROVE text' \in Section /\ ParseRBAC(text') = x
  BY <1>7, WrittenParts, ReadsBack
<1>8. ASSUME NEW m \in Member, WebAuthAdd(m) PROVE PolicyTypeOK' /\ SaidInv'
  <2> DEFINE had == m \in DOMAIN p.roster
             x == [role |-> "monitor", grants |-> {}]
             y == IF had THEN p ELSE [p EXCEPT !.roster = With(p.roster, m, x)]
  <2>1. /\ text' = Written(y)
        /\ said' = IF m \in DOMAIN said THEN said ELSE With(said, m, IF had THEN "had" ELSE "new")
    BY <1>8 DEF WebAuthAdd, Adds
  <2>2. x \in Entry /\ x.role = "monitor" BY DEF Entry, Role, Tier
  <2> HIDE DEF p, x
  <2>3. /\ y \in Policy /\ m \in DOMAIN y.roster
        /\ \A n \in DOMAIN p.roster : n \in DOMAIN y.roster /\ y.roster[n] = p.roster[n]
        /\ ~had => y.roster[m].role = "monitor"
    <3>1. CASE had BY <1>5, <3>1
    <3>2. CASE ~had
      <4>1. y = [p EXCEPT !.roster = With(p.roster, m, x)] BY <3>2
      <4> HIDE DEF y
      <4>2. /\ y \in Policy /\ y.roster = With(p.roster, m, x)
            /\ DOMAIN y.roster = DOMAIN p.roster \cup {m} /\ y.roster[m] = x
            /\ \A n \in DOMAIN p.roster \ {m} : y.roster[n] = p.roster[n]
        <5>1. p \in Policy /\ m \in Member /\ x \in Entry BY <1>5, <2>2
        <5>2. y \in Policy /\ y.roster = With(p.roster, m, x) BY <4>1, <5>1, RosterWith
        <5>3. /\ DOMAIN With(p.roster, m, x) = DOMAIN p.roster \cup {m}
              /\ With(p.roster, m, x)[m] = x
              /\ \A n \in DOMAIN p.roster \ {m} : With(p.roster, m, x)[n] = p.roster[n]
          BY <5>1, RosterWith
        <5> QED BY <5>2, <5>3
      <4> QED BY <2>2, <3>2, <4>2
    <3> QED BY <3>1, <3>2
  <2> HIDE DEF y
  <2>4. text' \in Section /\ ParseRBAC(text') = y BY <1>7, <2>1, <2>3
  <2>5. /\ DOMAIN said' = DOMAIN said \cup {m}
        /\ \A n \in DOMAIN said : said'[n] = said[n]
        /\ m \notin DOMAIN said => said'[m] = IF had THEN "had" ELSE "new"
    BY <2>1 DEF With
  <2>6. PolicyTypeOK' BY <1>2, <1>4, <2>4, <2>5
  <2>7. ASSUME NEW n \in DOMAIN said', said'[n] = "new"
        PROVE  n \in DOMAIN y.roster /\ y.roster[n].role = "monitor"
    <3>1. CASE n \in DOMAIN said
      <4>1. n \in DOMAIN p.roster /\ p.roster[n].role = "monitor" BY <2>5, <2>7, <3>1 DEF SaidInv, p
      <4> QED BY <2>3, <4>1
    <3>2. CASE n \notin DOMAIN said BY <2>3, <2>5, <2>7, <3>2
    <3> QED BY <3>1, <3>2
  <2> QED BY <2>4, <2>6, <2>7 DEF SaidInv
<1>9. ASSUME NEW m \in Member, WebAuthRemove(m) PROVE PolicyTypeOK' /\ SaidInv'
  <2> DEFINE y == [p EXCEPT !.roster = [n \in DOMAIN p.roster \ {m} |-> p.roster[n]]]
  <2>1. text' = Written(y) /\ said' = [n \in DOMAIN said \ {m} |-> said[n]]
    BY <1>9 DEF WebAuthRemove
  <2> HIDE DEF p
  <2>2. y \in Policy /\ y.roster = [n \in DOMAIN p.roster \ {m} |-> p.roster[n]]
    BY <1>5, RosterWithout
  <2> HIDE DEF y
  <2>3. text' \in Section /\ ParseRBAC(text') = y BY <1>7, <2>1, <2>2
  <2>4. PolicyTypeOK' BY <1>2, <1>4, <2>1, <2>3
  <2>5. ASSUME NEW n \in DOMAIN said', said'[n] = "new"
        PROVE  n \in DOMAIN y.roster /\ y.roster[n].role = "monitor"
    <3>1. n \in DOMAIN said /\ n # m /\ said[n] = "new" BY <2>1, <2>5
    <3>2. n \in DOMAIN p.roster /\ p.roster[n].role = "monitor" BY <3>1 DEF SaidInv, p
    <3> QED BY <2>2, <3>1, <3>2
  <2> QED BY <2>3, <2>4, <2>5 DEF SaidInv
<1>10. ASSUME NEW q \in Prefix, OwnerBlocks(q) PROVE PolicyTypeOK' /\ SaidInv'
  <2>1. text' = [text EXCEPT !.blocked = text.blocked \cup {q}] /\ said' = said
    BY <1>10 DEF OwnerBlocks
  <2>2. text' = [default_role |-> text.default_role, roster |-> text.roster, blocked |-> text.blocked \cup {q}]
    BY <1>2, <2>1 DEF Section
  <2>3. text' \in Section BY <1>2, <2>2 DEF Section
  <2>4. PolicyTypeOK' BY <1>2, <1>4, <2>1, <2>3
  <2>5. ParseRBAC(text').roster = p.roster
    <3>1. text'.roster = text.roster BY <2>2
    <3>2. Readable(text') = Readable(text) BY <3>1 DEF Readable
    <3> QED BY <3>1, <3>2 DEF ParseRBAC, LastOf
  <2>6. SaidInv' BY <2>1, <2>5 DEF SaidInv
  <2> QED BY <2>4, <2>6
<1> QED BY <1>6, <1>8, <1>9, <1>10

LEMMA PolicyStepKeeps ==
  ASSUME PolicyTypeOK, SaidInv, [PolicyNext]_policyVars
  PROVE  PolicyTypeOK' /\ SaidInv'
<1>1. CASE UNCHANGED policyVars BY <1>1 DEF policyVars, PolicyTypeOK, SaidInv
<1> QED BY <1>1, NodePolicyStep, FileStep DEF PolicyNext

\* The policy and the file have their types: what is read is a policy, what is written a section.
THEOREM PolicyTypes == PolicySpec => []PolicyTypeOK
<1> QED BY PolicyStart, PolicyStepKeeps, PTL DEF PolicySpec

LEMMA TypesReadBack == PolicyTypeOK => PolicyReadsBack
BY ReadsBack, ParsedParts DEF PolicyTypeOK, PolicyReadsBack

\* A policy that is written and read again is the same one, the node's and the file's.
THEOREM PoliciesReadBack == PolicySpec => []PolicyReadsBack
<1> QED BY TypesReadBack, PolicyTypes, PTL

\* A monitor of the file may read, unless a prefix blocks it.
LEMMA MonitorsRead == ASSUME PolicyTypeOK, SaidInv PROVE AddedMayRead
<1> SUFFICES ASSUME NEW m \in DOMAIN said, said[m] # "had",
                    ~ \E q \in ParseRBAC(text).blocked : Covers(q, m)
             PROVE  HasCapability(ParseRBAC(text), m, "web.read")
  BY DEF AddedMayRead
<1> DEFINE p == ParseRBAC(text)
<1>1. m \in DOMAIN p.roster /\ p.roster[m].role = "monitor"
  BY DEF PolicyTypeOK, SaidInv
<1> HIDE DEF p
<1>2. ResolveRole(p, m) = "monitor" BY <1>1 DEF ResolveRole, p
<1>3. "web.read" \in RoleCapabilities("monitor")
  <2>1. "monitor" \in DOMAIN FromTier /\ FromTier["monitor"] = "web.read" BY DEF FromTier
  <2>2. Rank("monitor") = 4
    <3>1. \A i \in 1..Len(Tier) : Tier[i] = "monitor" <=> i = 4 BY DEF Tier
    <3>2. 4 \in 1..Len(Tier) BY DEF Tier
    <3> QED BY <3>1, <3>2 DEF Rank
  <2>3. Rank("monitor") <= Rank("monitor") BY <2>2
  <2> QED BY <2>1, <2>3 DEF RoleCapabilities
<1> QED BY <1>2, <1>3 DEF HasCapability, p

\* Whom the command says it has made a monitor may read, whatever it, the owner and the node do
\* later, but for whom a prefix blocks.
THEOREM AddedMembersRead == PolicySpec => []AddedMayRead
<1> QED BY PolicyStart, PolicyStepKeeps, MonitorsRead, PTL DEF PolicySpec

-----------------------------------------------------------------------------
(* The blocks of peers.                                                      *)

\* What a call of block_peer or unblock_peer has still to write: the table knows already.
ToWrite == IF call # NoBlocking /\ call[1] = "policy" THEN {call[3]} ELSE {}
BlockingInv ==
    call # NoBlocking /\ call[1] = "policy" => (call[2] = "block" <=> call[3] \in table)

\* A prefix that the configuration does not have is in the list once.
OnceInv ==
    \A i, j \in 1..Len(blocked) :
        blocked[i] = blocked[j] /\ blocked[i] \notin ToSet(Configured) => i = j

\* Whoever the list blocks the table does, or the configuration, or the call under way
\* is about to take out; and the other way round once it was seeded.
BlockedInv ==
    /\ ToSet(blocked) \subseteq table \cup ToSet(Configured) \cup ToWrite
    /\ service = "seeded" => \A p \in table \ ToWrite : IsBlocked(p)

\* Until something is removed, a prefix that blocks the sender lies ahead of the loop.
CheckInv ==
    check # NoCheck =>
        /\ \A q \in check.kept : check.key # "destination" /\ Matches(q, check.key)
        /\ check.at = "loop" /\ check.quiet =>
               \A q \in check.kept : \E j \in 1..Len(blocked) : j >= check.i /\ blocked[j] = q
        /\ check.at = "dispatch" /\ check.quiet => check.kept = {}

BlocksInv == BlockingInv /\ OnceInv /\ BlockedInv /\ CheckInv

LEMMA BlocksStart == BlocksInit => BlocksTypeOK /\ BlocksInv
<1> SUFFICES ASSUME BlocksInit PROVE BlocksTypeOK /\ BlocksInv
  OBVIOUS
<1> USE BlocksAssumption DEF BlocksInit
<1>1. blocked \in Seq(Peer \cup ToSet(Configured))
  <2>1. Len(Configured) \in Nat /\ Configured \in [1..Len(Configured) -> ToSet(Configured)]
    OBVIOUS
  <2>2. Configured \in [1..Len(Configured) -> Peer \cup ToSet(Configured)] BY <2>1
  <2> QED BY <2>1, <2>2
<1>2. ToSet(blocked) = ToSet(Configured) OBVIOUS
<1>3. BlocksTypeOK BY <1>1 DEF BlocksTypeOK
<1>4. BlockingInv /\ BlockedInv /\ CheckInv
  BY <1>2 DEF BlockingInv, BlockedInv, CheckInv, ToWrite
<1>5. OnceInv BY DEF OnceInv, ToSet
<1> QED BY <1>3, <1>4, <1>5 DEF BlocksInv

\* What becomes of the check when the list does: a prefix of it is as good as the list.
LEMMA ListChanges ==
  ASSUME BlocksTypeOK, CheckInv, NEW s \in Seq(Peer \cup ToSet(Configured)), ListBecomes(s)
  PROVE  /\ check' = NoCheck \/ check' \in Check
         /\ CheckInv'
<1> USE DEF BlocksTypeOK, ListBecomes
<1>1. CASE check = NoCheck
  BY <1>1 DEF CheckInv, NoCheck
<1>2. CASE check \in Check
  <2>1. check # NoCheck /\ check.at \in {"loop", "dispatch"} /\ check.i \in Nat /\ check.quiet \in BOOLEAN
    BY <1>2 DEF Check, NoCheck
  <2>2. check' = [check EXCEPT !.kept = check.kept \cap ToSet(s),
                               !.quiet = check.quiet /\ IsPrefix(blocked, s)]
    BY <2>1
  <2>3. IsPrefix(blocked, s) \in BOOLEAN BY DEF IsPrefix
  <2>4. check' \in Check BY <1>2, <2>2, <2>3 DEF Check
  <2>5. /\ check'.at = check.at /\ check'.i = check.i /\ check'.key = check.key
        /\ check'.kept = check.kept \cap ToSet(s)
        /\ check'.quiet = (check.quiet /\ IsPrefix(blocked, s))
    BY <1>2, <2>2, <2>3 DEF Check
  <2>6. ASSUME check'.at = "loop", check'.quiet, NEW q \in check'.kept
        PROVE  \E j \in 1..Len(s) : j >= check'.i /\ s[j] = q
    <3>1. PICK j \in 1..Len(blocked) : j >= check.i /\ blocked[j] = q
      BY <2>1, <2>5, <2>6 DEF CheckInv
    <3>2. blocked \in Seq(Peer \cup ToSet(Configured)) /\ IsPrefix(blocked, s)
      BY <2>5, <2>6
    <3> HIDE DEF BlocksTypeOK, ListBecomes
    <3>3. Len(blocked) <= Len(s) /\ s[j] = blocked[j]
      BY <3>1, <3>2, PrefixStays
    <3>4. j \in 1..Len(s) BY <3>2, <3>3
    <3> QED BY <2>5, <3>1, <3>3, <3>4
  <2>7. CheckInv'
    <3>1. blocked' = s OBVIOUS
    <3>2. \A q \in check'.kept : check'.key # "destination" /\ Matches(q, check'.key)
      BY <2>1, <2>5 DEF CheckInv
    <3>3. check'.at = "dispatch" /\ check'.quiet => check'.kept = {}
      BY <2>1, <2>5 DEF CheckInv
    <3> QED BY <2>6, <3>1, <3>2, <3>3 DEF CheckInv
  <2> QED BY <2>4, <2>7
<1> QED BY <1>1, <1>2

\* The policy's list takes a blocked peer once, and lets go of an unblocked one unless the
\* configuration has it as well.
LEMMA PolicyStep ==
  ASSUME BlocksTypeOK, BlocksInv, WritesPolicy
  PROVE  BlocksTypeOK' /\ BlocksInv'
<1> DEFINE S == Peer \cup ToSet(Configured)
           p == call[3]
<1>1. /\ call[1] = "policy" /\ call[2] \in {"block", "unblock"} /\ p \in Peer
      /\ call # NoBlocking /\ blocked \in Seq(S) /\ Len(blocked) \in Nat
  BY DEF WritesPolicy, BlocksTypeOK, NoBlocking
<1>2. /\ call' = <<"contacts", call[2], p>>
      /\ table' = table /\ service' = service /\ known' = known /\ contacts' = contacts
  BY DEF WritesPolicy
<1>3. BlockingInv' /\ ToWrite' = {}
  BY <1>2 DEF BlockingInv, ToWrite, NoBlocking
<1>4. ToWrite = {p} BY <1>1 DEF ToWrite
<1>5. ASSUME blocked' \in Seq(S), ListBecomes(blocked'), IsInjective(blocked) => IsInjective(blocked')
      PROVE  BlocksTypeOK' /\ CheckInv'
  <2>1. (check' = NoCheck \/ check' \in Check) /\ CheckInv'
    BY <1>5, ListChanges DEF BlocksInv
  <2>2. call' \in {"policy", "contacts"} \X {"block", "unblock"} \X Peer
    BY <1>1, <1>2
  <2> QED BY <1>2, <1>5, <2>1, <2>2 DEF BlocksTypeOK
<1>6. CASE call[2] = "block" /\ ~Contains(blocked, p)
  <2>1. blocked' = Append(blocked, p) /\ ListBecomes(blocked')
    BY <1>1, <1>6 DEF WritesPolicy, ListBecomes
  <2>2. /\ blocked' \in Seq(S) /\ Len(blocked') = Len(blocked) + 1
        /\ \A i \in 1..Len(blocked) : blocked'[i] = blocked[i]
        /\ blocked'[Len(blocked) + 1] = p
    BY <1>1, <2>1
  <2>3. \A i \in 1..Len(blocked) : blocked[i] # p BY <1>6 DEF Contains
  <2>4. \A i, j \in 1..Len(blocked') : blocked'[i] = blocked'[j] =>
            i = j \/ (i \in 1..Len(blocked) /\ j \in 1..Len(blocked))
    BY <1>1, <2>2, <2>3
  <2>5. DOMAIN blocked = 1..Len(blocked) /\ DOMAIN blocked' = 1..Len(blocked')
    BY <1>1, <2>2
  <2>6. IsInjective(blocked) => IsInjective(blocked')
    BY <2>2, <2>4, <2>5 DEF IsInjective
  <2>7. OnceInv' BY <2>2, <2>4 DEF BlocksInv, OnceInv
  <2>8. ToSet(blocked') = ToSet(blocked) \cup {p}
    BY <1>1, <2>2, <2>5 DEF ToSet
  <2>9. p \in table BY <1>1, <1>6 DEF BlocksInv, BlockingInv
  <2>10. BlockedInv'
    BY <1>1, <1>2, <1>3, <1>4, <2>8, <2>9, BlocksAssumption DEF BlocksInv, BlockedInv, IsBlocked
  <2> QED BY <1>3, <1>5, <2>1, <2>2, <2>6, <2>7, <2>10 DEF BlocksInv
<1>7. CASE call[2] = "block" /\ Contains(blocked, p)
  <2>1. blocked' = blocked /\ ListBecomes(blocked')
    BY <1>1, <1>7 DEF WritesPolicy, ListBecomes
  <2>2. p \in table BY <1>1, <1>7 DEF BlocksInv, BlockingInv
  <2>3. p \in ToSet(blocked) BY <1>1, <1>7 DEF Contains, ToSet
  <2>4. BlockedInv'
    BY <1>1, <1>2, <1>3, <1>4, <2>1, <2>2, <2>3, BlocksAssumption DEF BlocksInv, BlockedInv, IsBlocked
  <2>5. OnceInv' BY <2>1 DEF BlocksInv, OnceInv
  <2> QED BY <1>1, <1>3, <1>5, <2>1, <2>4, <2>5 DEF BlocksInv
<1>8. CASE call[2] = "unblock" /\ p \in ToSet(blocked)
  <2>1. blocked' = RemoveFirst(blocked, p) /\ ListBecomes(blocked')
    BY <1>1, <1>8 DEF WritesPolicy, ListBecomes
  <2>2. DOMAIN blocked = 1..Len(blocked) BY <1>1
  <2>3. PICK k \in 1..Len(blocked) : blocked[k] = p BY <1>8, <2>2 DEF ToSet
  <2>4. PICK i \in 1..Len(blocked) :
            /\ blocked[i] = p /\ blocked' \in Seq(S) /\ Len(blocked') = Len(blocked) - 1
            /\ \A j \in 1..(Len(blocked) - 1) :
                  blocked'[j] = IF j < i THEN blocked[j] ELSE blocked[j + 1]
    <3>1. blocked \in Seq(S) BY <1>1
    <3> HIDE DEF S, p
    <3>2. PICK i \in 1..Len(blocked) :
            /\ blocked[i] = p
            /\ RemoveFirst(blocked, p) \in Seq(S)
            /\ Without(RemoveFirst(blocked, p), blocked, i)
      BY <2>3, <3>1, RemoveFirstShifts
    <3> QED BY <2>1, <3>2 DEF Without
  <2> DEFINE Old(j) == IF j < i THEN j ELSE j + 1
  <2>5. \A j \in 1..Len(blocked') :
            Old(j) \in 1..Len(blocked) /\ Old(j) # i /\ blocked'[j] = blocked[Old(j)]
    BY <1>1, <2>4
  <2>6. \A j, l \in 1..Len(blocked') : Old(j) = Old(l) => j = l
    BY <1>1, <2>4
  <2>7. \A j \in 1..Len(blocked) : j # i => \E l \in 1..Len(blocked') : Old(l) = j
    <3> SUFFICES ASSUME NEW j \in 1..Len(blocked), j # i
                 PROVE  \E l \in 1..Len(blocked') : Old(l) = j
      OBVIOUS
    <3>1. CASE j < i BY <1>1, <2>4, <3>1
    <3>2. CASE j > i
      <4>1. j - 1 \in 1..Len(blocked') /\ Old(j - 1) = j BY <1>1, <2>4, <3>2
      <4> QED BY <4>1
    <3> QED BY <1>1, <3>1, <3>2
  <2> HIDE DEF Old
  <2>8. DOMAIN blocked' = 1..Len(blocked') BY <2>4
  <2>9. IsInjective(blocked) => IsInjective(blocked')
    BY <2>2, <2>5, <2>6, <2>8 DEF IsInjective
  <2>10. OnceInv' BY <2>5, <2>6 DEF BlocksInv, OnceInv
  <2>11. ToSet(blocked') \subseteq ToSet(blocked) /\ ToSet(blocked) \ {p} \subseteq ToSet(blocked')
    <3>1. \A x \in ToSet(blocked') : x \in ToSet(blocked) BY <2>2, <2>5, <2>8 DEF ToSet
    <3>2. ASSUME NEW x \in ToSet(blocked), x # p PROVE x \in ToSet(blocked')
      <4>1. PICK j \in 1..Len(blocked) : blocked[j] = x BY <2>2, <3>2 DEF ToSet
      <4>2. PICK l \in 1..Len(blocked') : Old(l) = j BY <2>4, <2>7, <3>2, <4>1
      <4>3. blocked'[l] = x BY <2>5, <4>1, <4>2
      <4> QED BY <2>8, <4>2, <4>3 DEF ToSet
    <3> QED BY <3>1, <3>2
  <2>12. p \in ToSet(blocked') => p \in ToSet(Configured)
    <3> SUFFICES ASSUME p \in ToSet(blocked'), p \notin ToSet(Configured) PROVE FALSE
      OBVIOUS
    <3>1. PICK l \in 1..Len(blocked') : blocked'[l] = p BY <2>8 DEF ToSet
    <3>2. blocked[Old(l)] = blocked[i] /\ Old(l) # i /\ Old(l) \in 1..Len(blocked)
      BY <2>4, <2>5, <3>1
    <3>3. blocked[i] = p BY <2>4
    <3> QED BY <3>2, <3>3 DEF BlocksInv, OnceInv
  <2>13. p \notin table BY <1>1, <1>8 DEF BlocksInv, BlockingInv
  <2>14. table \subseteq Peer BY DEF BlocksTypeOK
  <2>15. ASSUME service = "seeded", NEW q \in table PROVE IsBlocked(q)'
    <3>1. PICK r \in ToSet(blocked) : Matches(r, q)
      BY <1>4, <2>13, <2>15 DEF BlocksInv, BlockedInv, IsBlocked
    <3>2. r # p BY <1>1, <2>13, <2>14, <3>1, BlocksAssumption
    <3> QED BY <2>11, <3>1, <3>2 DEF IsBlocked
  <2>16. BlockedInv'
    <3>1. ToSet(blocked') \subseteq table \cup ToSet(Configured)
      BY <1>4, <2>11, <2>12 DEF BlocksInv, BlockedInv
    <3> QED BY <1>2, <1>3, <2>15, <3>1 DEF BlockedInv, IsBlocked
  <2> QED BY <1>3, <1>5, <2>1, <2>4, <2>9, <2>10, <2>16 DEF BlocksInv
<1>9. CASE call[2] = "unblock" /\ p \notin ToSet(blocked)
  <2>1. blocked' = RemoveFirst(blocked, p) /\ ListBecomes(blocked')
    BY <1>1, <1>9 DEF WritesPolicy, ListBecomes
  <2>2. \A k \in 1..Len(blocked) : blocked[k] # p BY <1>1, <1>9 DEF ToSet
  <2>3. blocked' = blocked BY <1>1, <2>1, <2>2, RemoveFirstOfOther
  <2>4. p \notin table BY <1>1, <1>9 DEF BlocksInv, BlockingInv
  <2>5. BlockedInv'
    BY <1>2, <1>3, <1>4, <1>9, <2>3, <2>4 DEF BlocksInv, BlockedInv, IsBlocked
  <2>6. OnceInv' BY <2>3 DEF BlocksInv, OnceInv
  <2> QED BY <1>1, <1>3, <1>5, <2>1, <2>3, <2>5, <2>6 DEF BlocksInv
<1> QED BY <1>1, <1>6, <1>7, <1>8, <1>9

\* Seeding appends the blocked peers the list does not block yet.
LEMMA SeedsStep ==
  ASSUME BlocksTypeOK, BlocksInv, Seeds
  PROVE  BlocksTypeOK' /\ BlocksInv'
<1> DEFINE S == Peer \cup ToSet(Configured)
           new == {p \in table : ~IsBlocked(p)}
           q == SetToSeq(new)
<1>1. /\ call = NoBlocking /\ service' = "seeded"
      /\ table' = table /\ contacts' = contacts /\ known' = known /\ call' = call
      /\ blocked' = blocked \o q /\ ListBecomes(blocked')
  BY DEF Seeds, ListBecomes
<1>2. blocked \in Seq(S) /\ table \subseteq Peer /\ Len(blocked) \in Nat
  BY DEF BlocksTypeOK
<1>3. q \in Seq(new) /\ ToSet(q) = new /\ IsInjective(q)
  <2>1. IsFiniteSet(new) BY <1>2, BlocksAssumption, FS_Subset
  <2> HIDE DEF new
  <2> QED BY <2>1, SetToSeqLists
<1>4. \A p \in new : p \in Peer /\ p \notin ToSet(blocked)
  BY <1>2, BlocksAssumption DEF IsBlocked
<1>5. new \subseteq table /\ \A p \in table \ new : IsBlocked(p)
  OBVIOUS
<1> HIDE DEF new, q
<1>6. q \in Seq(S) /\ Len(q) \in Nat
  <2>1. Len(q) \in Nat /\ q \in [1..Len(q) -> new] BY <1>3
  <2>2. q \in [1..Len(q) -> S] BY <1>4, <2>1
  <2> QED BY <2>1, <2>2
<1>7. /\ blocked' \in Seq(S) /\ Len(blocked') = Len(blocked) + Len(q)
      /\ \A i \in 1..(Len(blocked) + Len(q)) :
            blocked'[i] = IF i <= Len(blocked) THEN blocked[i] ELSE q[i - Len(blocked)]
  <2> HIDE DEF S
  <2> QED BY <1>1, <1>2, <1>6, ConcatProperties
<1>8. /\ DOMAIN blocked = 1..Len(blocked) /\ DOMAIN q = 1..Len(q)
      /\ DOMAIN blocked' = 1..(Len(blocked) + Len(q))
  BY <1>2, <1>6, <1>7
<1>9. /\ \A i \in 1..Len(blocked) : i \in 1..Len(blocked') /\ blocked'[i] = blocked[i]
      /\ \A i \in 1..Len(q) :
            Len(blocked) + i \in 1..Len(blocked') /\ blocked'[Len(blocked) + i] = q[i]
      /\ \A i \in 1..Len(blocked') :
            i \in 1..Len(blocked) \/ \E k \in 1..Len(q) : i = Len(blocked) + k
  <2>1. \A i \in 1..Len(blocked) : i \in 1..Len(blocked') /\ blocked'[i] = blocked[i]
    BY <1>2, <1>6, <1>7
  <2>2. ASSUME NEW i \in 1..Len(q)
        PROVE  Len(blocked) + i \in 1..Len(blocked') /\ blocked'[Len(blocked) + i] = q[i]
    <3>1. Len(blocked) + i \in 1..(Len(blocked) + Len(q)) /\ ~(Len(blocked) + i <= Len(blocked))
          /\ (Len(blocked) + i) - Len(blocked) = i
      BY <1>2, <1>6
    <3> QED BY <1>7, <3>1
  <2>3. ASSUME NEW i \in 1..Len(blocked'), i \notin 1..Len(blocked)
        PROVE  \E k \in 1..Len(q) : i = Len(blocked) + k
    <3>1. i - Len(blocked) \in 1..Len(q) /\ i = Len(blocked) + (i - Len(blocked))
      BY <1>2, <1>6, <1>7, <2>3
    <3> QED BY <3>1
  <2> QED BY <2>1, <2>2, <2>3
<1>10. ToSet(blocked') = ToSet(blocked) \cup new
  <2>1. ASSUME NEW x \in ToSet(blocked') PROVE x \in ToSet(blocked) \cup new
    <3>1. PICK i \in 1..Len(blocked') : blocked'[i] = x BY <1>7, <1>8 DEF ToSet
    <3>2. CASE i \in 1..Len(blocked) BY <1>8, <1>9, <3>1, <3>2 DEF ToSet
    <3>3. ASSUME NEW k \in 1..Len(q), i = Len(blocked) + k PROVE x \in new
      <4>1. q[k] = x BY <1>9, <3>1, <3>3
      <4> QED BY <1>3, <1>8, <4>1 DEF ToSet
    <3> QED BY <1>9, <3>2, <3>3
  <2>2. ASSUME NEW x \in ToSet(blocked) PROVE x \in ToSet(blocked')
    BY <1>7, <1>8, <1>9, <2>2 DEF ToSet
  <2>3. ASSUME NEW x \in new PROVE x \in ToSet(blocked')
    <3>1. PICK k \in 1..Len(q) : q[k] = x BY <1>3, <1>8, <2>3 DEF ToSet
    <3> QED BY <1>7, <1>8, <1>9, <3>1 DEF ToSet
  <2> QED BY <2>1, <2>2, <2>3
<1>11. ASSUME NEW i \in 1..Len(blocked'), NEW j \in 1..Len(blocked'), blocked'[i] = blocked'[j]
       PROVE  i = j \/ (i \in 1..Len(blocked) /\ j \in 1..Len(blocked))
  <2>1. ASSUME NEW a \in 1..Len(blocked), NEW k \in 1..Len(q), blocked'[a] = blocked'[Len(blocked) + k]
        PROVE  FALSE
    <3>1. blocked[a] = q[k] BY <1>9, <2>1
    <3>2. q[k] \in new BY <1>3, <1>8 DEF ToSet
    <3>3. blocked[a] \in ToSet(blocked) BY <1>8 DEF ToSet
    <3> QED BY <1>4, <3>1, <3>2, <3>3
  <2>2. ASSUME NEW k \in 1..Len(q), NEW l \in 1..Len(q), i = Len(blocked) + k, j = Len(blocked) + l
        PROVE  i = j
    <3>1. q[k] = q[l] BY <1>9, <1>11, <2>2
    <3>2. k = l BY <1>3, <1>8, <3>1 DEF IsInjective
    <3> QED BY <2>2, <3>2
  <2>3. CASE i \in 1..Len(blocked) BY <1>9, <1>11, <2>1, <2>3
  <2>4. CASE j \in 1..Len(blocked) BY <1>9, <1>11, <2>1, <2>4
  <2> QED BY <1>9, <2>2, <2>3, <2>4
<1>12. IsInjective(blocked) => IsInjective(blocked')
  BY <1>7, <1>8, <1>9, <1>11 DEF IsInjective
<1>13. OnceInv' BY <1>9, <1>11 DEF BlocksInv, OnceInv
<1>14. (check' = NoCheck \/ check' \in Check) /\ CheckInv'
  BY <1>1, <1>7, ListChanges DEF BlocksInv
<1>15. ToWrite = {} /\ ToWrite' = {} /\ BlockingInv' BY <1>1 DEF ToWrite, BlockingInv
<1>16. BlockedInv'
  <2>1. ASSUME NEW p \in table PROVE IsBlocked(p)'
    <3>1. CASE p \in new
      <4>1. p \in ToSet(blocked') /\ p \in Peer BY <1>2, <1>10, <3>1
      <4> QED BY <4>1, BlocksAssumption DEF IsBlocked
    <3>2. CASE p \notin new BY <1>5, <1>10, <3>2 DEF IsBlocked
    <3> QED BY <3>1, <3>2
  <2>2. ToSet(blocked') \subseteq table \cup ToSet(Configured)
    BY <1>5, <1>10, <1>15 DEF BlocksInv, BlockedInv
  <2> QED BY <1>1, <1>15, <2>1, <2>2 DEF BlockedInv, IsBlocked
<1>17. BlocksTypeOK' BY <1>1, <1>7, <1>12, <1>14 DEF BlocksTypeOK
<1> QED BY <1>13, <1>14, <1>15, <1>16, <1>17 DEF BlocksInv

\* A turn of the loop passes over an entry that does not block the sender.
LEMMA CheckStep ==
  ASSUME BlocksTypeOK, BlocksInv,
         Compares \/ Dispatches \/ \E p \in Peer : Receives(p)
  PROVE  BlocksTypeOK' /\ BlocksInv'
<1> DEFINE S == Peer \cup ToSet(Configured)
<1>1. /\ table' = table /\ blocked' = blocked /\ contacts' = contacts /\ known' = known
      /\ service' = service /\ call' = call
  BY DEF Compares, Dispatches, Receives
<1>2. BlockingInv' /\ OnceInv' /\ BlockedInv'
  BY <1>1 DEF BlocksInv, BlockingInv, OnceInv, BlockedInv, IsBlocked, ToWrite
<1>3. ASSUME check' = NoCheck \/ check' \in Check, CheckInv' PROVE BlocksTypeOK' /\ BlocksInv'
  BY <1>1, <1>2, <1>3 DEF BlocksTypeOK, BlocksInv
<1>4. /\ blocked \in Seq(S) /\ Len(blocked) \in Nat /\ DOMAIN blocked = 1..Len(blocked)
      /\ ToSet(blocked) \subseteq S
  BY DEF BlocksTypeOK, ToSet
<1>5. CASE Compares
  <2>1. check \in Check /\ check.at = "loop" /\ check # NoCheck
    BY <1>5 DEF Compares, BlocksTypeOK, NoCheck
  <2>2. /\ check.i \in Nat /\ check.quiet \in BOOLEAN /\ check.kept \subseteq S
        /\ check.key \in Peer \cup {"destination"} /\ check.peer \in Peer
    BY <2>1 DEF Check
  <2>3. CASE check.i > Len(blocked)
    <3>1. check' = [check EXCEPT !.at = "dispatch"] BY <1>5, <2>3 DEF Compares
    <3>2. check' \in Check BY <2>1, <3>1 DEF Check
    <3>3. check'.at = "dispatch" /\ check'.kept = check.kept /\ check'.key = check.key
          /\ check'.quiet = check.quiet
      BY <2>1, <3>1 DEF Check
    <3>4. check.quiet => check.kept = {}
      BY <1>4, <2>1, <2>2, <2>3 DEF BlocksInv, CheckInv
    <3>5. CheckInv' BY <2>1, <3>3, <3>4 DEF BlocksInv, CheckInv
    <3> QED BY <1>3, <3>2, <3>5
  <2>4. CASE ~(check.i > Len(blocked)) /\ check.key # "destination" /\ Matches(blocked[check.i], check.key)
    <3>1. check' = NoCheck BY <1>5, <2>4 DEF Compares
    <3>2. CheckInv' BY <3>1 DEF CheckInv
    <3> QED BY <1>3, <3>1, <3>2
  <2>5. CASE ~(check.i > Len(blocked)) /\ ~(check.key # "destination" /\ Matches(blocked[check.i], check.key))
    <3>1. check' = [check EXCEPT !.i = check.i + 1] BY <1>5, <2>5 DEF Compares
    <3>2. check' \in Check BY <2>1, <2>2, <3>1 DEF Check
    <3>3. check'.at = "loop" /\ check'.kept = check.kept /\ check'.key = check.key
          /\ check'.quiet = check.quiet /\ check'.i = check.i + 1
      BY <2>1, <3>1 DEF Check
    <3>4. ASSUME check.quiet, NEW q \in check.kept
          PROVE  \E j \in 1..Len(blocked) : j >= check.i + 1 /\ blocked[j] = q
      <4>1. PICK j \in 1..Len(blocked) : j >= check.i /\ blocked[j] = q
        BY <2>1, <3>4 DEF BlocksInv, CheckInv
      <4>2. check.key # "destination" /\ Matches(q, check.key)
        BY <2>1, <3>4 DEF BlocksInv, CheckInv
      <4>3. j # check.i BY <2>5, <4>1, <4>2
      <4>4. j >= check.i + 1 BY <2>2, <4>1, <4>3
      <4> QED BY <4>1, <4>4
    <3>5. CheckInv' BY <1>1, <2>1, <3>3, <3>4 DEF BlocksInv, CheckInv
    <3> QED BY <1>3, <3>2, <3>5
  <2> QED BY <2>3, <2>4, <2>5
<1>6. CASE Dispatches
  <2>1. check' = NoCheck BY <1>6 DEF Dispatches
  <2> QED BY <1>3, <2>1 DEF CheckInv
<1>7. ASSUME NEW p \in Peer, Receives(p) PROVE BlocksTypeOK' /\ BlocksInv'
  <2> DEFINE key == IF p \in known THEN p ELSE "destination"
             kept == {q \in ToSet(blocked) : p \in known /\ Matches(q, p)}
  <2>1. check' = [at |-> "loop", peer |-> p, key |-> key, i |-> 1, kept |-> kept, quiet |-> TRUE]
    BY <1>7 DEF Receives
  <2>2. key \in Peer \cup {"destination"} /\ kept \subseteq S BY <1>4
  <2>3. \A q \in kept : key # "destination" /\ Matches(q, key) BY BlocksAssumption
  <2>4. \A q \in kept : \E j \in 1..Len(blocked) : j >= 1 /\ blocked[j] = q
    BY <1>4 DEF ToSet
  <2> HIDE DEF key, kept
  <2>5. check' \in Check BY <2>1, <2>2 DEF Check
  <2>6. CheckInv' BY <1>1, <2>1, <2>3, <2>4 DEF CheckInv
  <2> QED BY <1>3, <2>5, <2>6
<1> QED BY <1>5, <1>6, <1>7

\* The writes to the table, the contacts and what else leaves the list and the check alone.
LEMMA TableStep ==
  ASSUME BlocksTypeOK, BlocksInv,
         \/ \E p \in Peer : BlockWrites(p) \/ UnblockDeletes(p) \/ Learns(p)
         \/ \E fails \in BOOLEAN : WritesContacts(fails)
         \/ RegistersDelivery
  PROVE  BlocksTypeOK' /\ BlocksInv'
<1>1. blocked' = blocked /\ check' = check
  BY DEF BlockWrites, UnblockDeletes, Learns, WritesContacts, RegistersDelivery
<1>2. OnceInv' /\ CheckInv' BY <1>1 DEF BlocksInv, OnceInv, CheckInv
<1>3. ASSUME NEW p \in Peer, BlockWrites(p) PROVE BlocksTypeOK' /\ BlocksInv'
  <2>1. /\ call = NoBlocking /\ call' = <<"policy", "block", p>> /\ table' = table \cup {p}
        /\ contacts' = contacts /\ known' = known /\ service' = service
    BY <1>3 DEF BlockWrites
  <2>2. call' # NoBlocking /\ call'[1] = "policy" /\ call'[2] = "block" /\ call'[3] = p
    BY <2>1 DEF NoBlocking
  <2>3. ToWrite = {} /\ ToWrite' = {p} BY <2>1, <2>2 DEF ToWrite
  <2>4. BlockingInv' BY <2>1, <2>2 DEF BlockingInv
  <2>5. BlockedInv' BY <1>1, <2>1, <2>3 DEF BlocksInv, BlockedInv, IsBlocked
  <2>6. call' \in {"policy", "contacts"} \X {"block", "unblock"} \X Peer BY <2>1
  <2>7. BlocksTypeOK' BY <1>1, <2>1, <2>6 DEF BlocksTypeOK
  <2> QED BY <1>2, <2>4, <2>5, <2>7 DEF BlocksInv
<1>4. ASSUME NEW p \in Peer, UnblockDeletes(p) PROVE BlocksTypeOK' /\ BlocksInv'
  <2>1. /\ call = NoBlocking /\ call' = <<"policy", "unblock", p>> /\ table' = table \ {p}
        /\ contacts' = contacts /\ known' = known /\ service' = service
    BY <1>4 DEF UnblockDeletes
  <2>2. call' # NoBlocking /\ call'[1] = "policy" /\ call'[2] = "unblock" /\ call'[3] = p
    BY <2>1 DEF NoBlocking
  <2>3. ToWrite = {} /\ ToWrite' = {p} BY <2>1, <2>2 DEF ToWrite
  <2>4. BlockingInv' BY <2>1, <2>2 DEF BlockingInv
  <2>5. BlockedInv' BY <1>1, <2>1, <2>3 DEF BlocksInv, BlockedInv, IsBlocked
  <2>6. call' \in {"policy", "contacts"} \X {"block", "unblock"} \X Peer BY <2>1
  <2>7. BlocksTypeOK' BY <1>1, <2>1, <2>6 DEF BlocksTypeOK
  <2> QED BY <1>2, <2>4, <2>5, <2>7 DEF BlocksInv
<1>5. ASSUME NEW fails \in BOOLEAN, WritesContacts(fails) PROVE BlocksTypeOK' /\ BlocksInv'
  <2>1. /\ call # NoBlocking /\ call[1] = "contacts" /\ call' = NoBlocking /\ table' = table
        /\ known' = known /\ service' = service
    BY <1>5 DEF WritesContacts
  <2>2. call[3] \in Peer BY <2>1 DEF BlocksTypeOK
  <2>3. ToWrite = {} /\ ToWrite' = {} /\ BlockingInv' BY <2>1 DEF ToWrite, BlockingInv
  <2>4. BlockedInv' BY <1>1, <2>1, <2>3 DEF BlocksInv, BlockedInv, IsBlocked
  <2>5. contacts' \subseteq Peer BY <1>5, <2>2 DEF WritesContacts, BlocksTypeOK
  <2>6. BlocksTypeOK' BY <1>1, <2>1, <2>5 DEF BlocksTypeOK
  <2> QED BY <1>2, <2>3, <2>4, <2>6 DEF BlocksInv
<1>6. CASE RegistersDelivery \/ \E p \in Peer : Learns(p)
  <2>1. /\ table' = table /\ call' = call /\ contacts' = contacts
        /\ service' \in {service, "open"} /\ known' \subseteq Peer
    BY <1>6 DEF RegistersDelivery, Learns, BlocksTypeOK
  <2>2. ToWrite' = ToWrite /\ BlockingInv' BY <2>1 DEF ToWrite, BlocksInv, BlockingInv
  <2>3. BlockedInv' BY <1>1, <2>1, <2>2 DEF BlocksInv, BlockedInv, IsBlocked
  <2>4. BlocksTypeOK' BY <1>1, <2>1 DEF BlocksTypeOK
  <2> QED BY <1>2, <2>2, <2>3, <2>4 DEF BlocksInv
<1> QED BY <1>3, <1>4, <1>5, <1>6

\* A restart leaves the table to the seeding.
LEMMA RestartsStep ==
  ASSUME BlocksTypeOK, BlocksInv, Restarts
  PROVE  BlocksTypeOK' /\ BlocksInv'
<1>1. /\ blocked' = Configured /\ service' = "down" /\ call' = NoBlocking /\ check' = NoCheck
      /\ table' = table /\ contacts' = contacts /\ known' = known
  BY DEF Restarts
<1>2. blocked' \in Seq(Peer \cup ToSet(Configured))
  <2>1. Len(Configured) \in Nat /\ Configured \in [1..Len(Configured) -> ToSet(Configured)]
    BY BlocksAssumption
  <2>2. Configured \in [1..Len(Configured) -> Peer \cup ToSet(Configured)] BY <2>1
  <2> QED BY <1>1, <2>1, <2>2
<1>3. BlocksTypeOK' BY <1>1, <1>2 DEF BlocksTypeOK
<1>4. BlockingInv' /\ BlockedInv' /\ CheckInv' BY <1>1 DEF BlockingInv, BlockedInv, CheckInv, ToWrite
<1>5. OnceInv'
  <2>1. DOMAIN Configured = 1..Len(Configured) BY BlocksAssumption
  <2> QED BY <1>1, <2>1 DEF OnceInv, ToSet
<1> QED BY <1>3, <1>4, <1>5 DEF BlocksInv

LEMMA BlocksStep ==
  ASSUME BlocksTypeOK, BlocksInv, [BlocksNext]_blocksVars
  PROVE  BlocksTypeOK' /\ BlocksInv'
<1>1. CASE UNCHANGED blocksVars
  BY <1>1 DEF blocksVars, BlocksTypeOK, BlocksInv, BlockingInv, OnceInv, BlockedInv, CheckInv, ToWrite, IsBlocked
<1> QED BY <1>1, PolicyStep, SeedsStep, CheckStep, TableStep, RestartsStep DEF BlocksNext

\* The state of table, list, contacts and check has its types.
THEOREM BlocksTypes == BlocksSpec => []BlocksTypeOK
<1> QED BY BlocksStart, BlocksStep, PTL DEF BlocksSpec

\* What the database blocks is blocked in memory between calls (BlocksSurvive), nobody else
\* is (NothingElseBlocked), and no message of whom the list blocked at its arrival is
\* dispatched unless something was taken out of the list meanwhile (BlockedIsDropped).
LEMMA BlocksFollow ==
  BlocksTypeOK /\ BlocksInv => BlocksSurvive /\ NothingElseBlocked /\ BlockedIsDropped
<1> SUFFICES ASSUME BlocksTypeOK, BlocksInv
             PROVE  BlocksSurvive /\ NothingElseBlocked /\ BlockedIsDropped
  OBVIOUS
<1>1. BlocksSurvive /\ NothingElseBlocked
  BY DEF BlocksInv, BlockedInv, ToWrite, BlocksSurvive, NothingElseBlocked
<1>2. BlockedIsDropped
  BY DEF BlocksInv, CheckInv, BlockedIsDropped, NoCheck
<1> QED BY <1>1, <1>2

LEMMA BlocksInvariant == BlocksSpec => [](BlocksTypeOK /\ BlocksInv)
<1> QED BY BlocksStart, BlocksStep, PTL DEF BlocksSpec

\* Whom the database blocks is blocked in memory between calls, after any block, unblock
\* and restart, and whatever the configuration blocks besides.
THEOREM BlocksAlwaysSurvive == BlocksSpec => []BlocksSurvive
<1> QED BY BlocksInvariant, BlocksFollow, PTL

\* Nobody else is.
THEOREM NobodyElseIsBlocked == BlocksSpec => []NothingElseBlocked
<1> QED BY BlocksInvariant, BlocksFollow, PTL

\* No message of a sender the list blocked when it arrived is dispatched, unless an entry was
\* taken out while the check went through the list.
THEOREM BlockedAreDropped == BlocksSpec => []BlockedIsDropped
<1> QED BY BlocksInvariant, BlocksFollow, PTL

-----------------------------------------------------------------------------
(* Requests for paths, and the hub connection that makes them.               *)


\* The table remembers, for every destination requested within the window, a request
\* at least as late: what is pruned is older than anything that still counts.
Remembered ==
    \A r \in issued : r[2] + PATH_REQUEST_WINDOW >= now =>
        r[1] \in DOMAIN last_requests /\ r[2] <= last_requests[r[1]]

LimiterInv ==
    /\ LimiterTypeOK /\ IsFiniteSet(DOMAIN last_requests)
    /\ \A r \in issued : r[2] <= now
    /\ Remembered
    /\ RequestsBounded

\* A request within the window is of an entry that is kept.
LEMMA RecentIsFresh ==
  ASSUME LimiterInv
  PROVE  /\ Recent \subseteq Fresh /\ Fresh \subseteq DOMAIN last_requests
         /\ IsFiniteSet(Fresh) /\ IsFiniteSet(Recent)
<1>1. Fresh \subseteq DOMAIN last_requests BY DEF Fresh
<1>2. Recent \subseteq Fresh
  <2> SUFFICES ASSUME NEW r \in issued, r[2] + PATH_REQUEST_WINDOW >= now
               PROVE  r[1] \in Fresh
    BY DEF Recent
  <2>1. r[1] \in DOMAIN last_requests /\ r[2] <= last_requests[r[1]]
    BY DEF LimiterInv, Remembered
  <2>2. r[2] \in Nat /\ last_requests[r[1]] \in Nat /\ now \in Nat
    BY <2>1 DEF LimiterInv, LimiterTypeOK
  <2>3. last_requests[r[1]] + PATH_REQUEST_WINDOW >= now
    BY <2>1, <2>2, LimiterAssumption
  <2> QED BY <2>1, <2>3 DEF Fresh
<1>3. IsFiniteSet(Fresh) BY <1>1, FS_Subset DEF LimiterInv
<1>4. IsFiniteSet(Recent) BY <1>2, <1>3, FS_Subset
<1> QED BY <1>1, <1>2, <1>3, <1>4

\* At the start nothing has been requested.
LEMMA InitLimiter ==
  ASSUME NEW t \in Nat, LimiterInit(t)
  PROVE  LimiterInv
<1> USE DEF LimiterInit
<1>1. LimiterTypeOK BY DEF LimiterTypeOK
<1>2. DOMAIN last_requests = {} /\ IsFiniteSet({}) BY FS_EmptySet
<1>3. Recent = {} BY DEF Recent
<1>4. BudgetKept BY <1>3, FS_EmptySet, LimiterAssumption DEF BudgetKept
<1>5. Spaced /\ Remembered BY DEF Spaced, Remembered
<1> QED BY <1>1, <1>2, <1>4, <1>5 DEF LimiterInv, RequestsBounded

\* Time moves requests out of the window, never into it.
LEMMA TickKeeps ==
  ASSUME LimiterInv, Tick
  PROVE  LimiterInv'
<1> USE DEF Tick
<1>1. LimiterTypeOK' /\ IsFiniteSet(DOMAIN last_requests)' BY DEF LimiterInv, LimiterTypeOK
<1>2. \A r \in issued : r[2] \in Nat BY DEF LimiterInv, LimiterTypeOK
<1>3. now \in Nat BY DEF LimiterInv, LimiterTypeOK
<1>4. (\A r \in issued : r[2] <= now)' BY <1>2, <1>3 DEF LimiterInv
<1>5. Remembered' BY <1>2, <1>3, LimiterAssumption DEF LimiterInv, Remembered
<1>6. Recent' \subseteq Recent BY <1>2, <1>3, LimiterAssumption DEF Recent
<1>7. BudgetKept'
  <2>1. IsFiniteSet(Recent) BY RecentIsFresh
  <2>2. Cardinality(Recent') <= Cardinality(Recent) /\ IsFiniteSet(Recent') BY <1>6, <2>1, FS_Subset
  <2>3. Cardinality(Recent') \in Nat /\ Cardinality(Recent) \in Nat BY <2>1, <2>2, FS_CardinalityType
  <2>4. Cardinality(Recent) <= MAX_PATH_REQUESTS_PER_WINDOW
    BY DEF LimiterInv, RequestsBounded, BudgetKept
  <2>5. Cardinality(Recent') <= MAX_PATH_REQUESTS_PER_WINDOW BY <2>2, <2>3, <2>4, LimiterAssumption
  <2> QED BY <2>5 DEF BudgetKept
<1>8. Spaced' BY DEF LimiterInv, RequestsBounded, Spaced
<1> QED BY <1>1, <1>4, <1>5, <1>7, <1>8 DEF LimiterInv, RequestsBounded

\* A request that is suppressed only prunes.
LEMMA SuppressedKeeps ==
  ASSUME LimiterInv, NEW d \in Destination, RequestPath(d), ~Allowed(d)
  PROVE  LimiterInv'
<1>1. last_requests' = [k \in Fresh |-> last_requests[k]] /\ UNCHANGED <<issued, now>>
  BY DEF RequestPath
<1>2. Fresh \subseteq DOMAIN last_requests /\ IsFiniteSet(Fresh) BY RecentIsFresh
<1>3. LimiterTypeOK' /\ IsFiniteSet(DOMAIN last_requests')
  BY <1>1, <1>2 DEF LimiterInv, LimiterTypeOK
<1>4. Remembered'
  <2> SUFFICES ASSUME NEW r \in issued, r[2] + PATH_REQUEST_WINDOW >= now
               PROVE  r[1] \in Fresh /\ r[2] <= last_requests[r[1]]
    BY <1>1 DEF Remembered
  <2>1. r[1] \in Recent BY DEF Recent
  <2> QED BY <2>1, RecentIsFresh DEF LimiterInv, Remembered
<1>5. (\A r \in issued : r[2] <= now)' BY <1>1 DEF LimiterInv
<1>6. Recent' = Recent BY <1>1 DEF Recent
<1>7. RequestsBounded' BY <1>1, <1>6 DEF LimiterInv, RequestsBounded, Spaced, BudgetKept
<1> QED BY <1>3, <1>4, <1>5, <1>7 DEF LimiterInv

\* A request that is granted is remembered, is late enough after the last of its
\* destination, and finds room in the window.
LEMMA GrantedKeeps ==
  ASSUME LimiterInv, NEW d \in Destination, RequestPath(d), Allowed(d)
  PROVE  LimiterInv'
<1>1. /\ last_requests' = [k \in Fresh \union {d} |-> IF k = d THEN now ELSE last_requests[k]]
      /\ issued' = issued \union {<<d, now>>} /\ now' = now
  BY DEF RequestPath
<1>2. Recent \subseteq Fresh /\ Fresh \subseteq DOMAIN last_requests /\ IsFiniteSet(Fresh) BY RecentIsFresh
<1>3. now \in Nat /\ \A r \in issued : r \in Destination \X Nat BY DEF LimiterInv, LimiterTypeOK
<1>4. \A k \in Fresh : k \in Destination /\ last_requests[k] \in Nat BY <1>2 DEF LimiterInv, LimiterTypeOK
<1>5. LimiterTypeOK'
  <2>1. DOMAIN last_requests' \subseteq Destination BY <1>1, <1>4
  <2>2. \A k \in DOMAIN last_requests' : last_requests'[k] \in Nat BY <1>1, <1>3, <1>4
  <2>3. issued' \subseteq Destination \X Nat BY <1>1, <1>3
  <2> QED BY <1>1, <1>3, <2>1, <2>2, <2>3 DEF LimiterTypeOK
<1>6. IsFiniteSet(DOMAIN last_requests')
  BY <1>1, <1>2, FS_AddElement
<1>7. (\A r \in issued : r[2] <= now)' BY <1>1, <1>3 DEF LimiterInv
<1>8. Remembered'
  <2> SUFFICES ASSUME NEW r \in issued', r[2] + PATH_REQUEST_WINDOW >= now
               PROVE  r[1] \in DOMAIN last_requests' /\ r[2] <= last_requests'[r[1]]
    BY <1>1 DEF Remembered
  <2>1. CASE r = <<d, now>> BY <1>1, <1>3, <2>1
  <2>2. CASE r \in issued
    <3>1. r[1] \in Recent BY <2>2 DEF Recent
    <3>2. r[1] \in Fresh /\ r[2] <= last_requests[r[1]]
      BY <2>2, <3>1, <1>2 DEF LimiterInv, Remembered
    <3>3. r[2] <= now BY <2>2 DEF LimiterInv
    <3> QED BY <1>1, <3>2, <3>3
  <2> QED BY <1>1, <2>1, <2>2
<1>9. Spaced'
  <2> SUFFICES ASSUME NEW r \in issued', NEW s \in issued', r[1] = s[1], r[2] < s[2]
               PROVE  s[2] - r[2] >= MIN_PATH_REQUEST_INTERVAL
    BY DEF Spaced
  <2>1. CASE r \in issued /\ s \in issued BY <2>1 DEF LimiterInv, RequestsBounded, Spaced
  <2>2. CASE r = <<d, now>>
    <3>1. s[2] <= now BY <1>1, <1>3 DEF LimiterInv
    <3>2. s[2] \in Nat BY <1>1, <1>3
    <3> QED BY <2>2, <3>1, <3>2, <1>3
  <2>3. CASE r \in issued /\ s = <<d, now>>
    <3>1. r[1] = d /\ r[2] \in Nat /\ r[2] < now BY <2>3, <1>3
    <3>2. CASE r[2] + PATH_REQUEST_WINDOW >= now
      <4>1. d \in Fresh /\ r[2] <= last_requests[d]
        BY <2>3, <3>1, <3>2, <1>2 DEF LimiterInv, Remembered, Recent
      <4>2. now - last_requests[d] >= MIN_PATH_REQUEST_INTERVAL BY <4>1 DEF Allowed
      <4>3. last_requests[d] \in Nat BY <4>1, <1>4
      <4> QED BY <2>3, <3>1, <4>1, <4>2, <4>3, <1>3, LimiterAssumption
    <3>3. CASE ~(r[2] + PATH_REQUEST_WINDOW >= now)
      BY <2>3, <3>1, <3>3, <1>3, LimiterAssumption
    <3> QED BY <3>2, <3>3
  <2> QED BY <1>1, <2>1, <2>2, <2>3
<1>10. BudgetKept'
  <2>1. Recent' \subseteq Fresh \union {d} BY <1>1, <1>2 DEF Recent
  <2>2. IsFiniteSet(Fresh \union {d}) /\ Cardinality(Fresh \union {d}) <= Cardinality(Fresh) + 1
    BY <1>2, FS_AddElement, FS_CardinalityType
  <2>3. IsFiniteSet(Recent') /\ Cardinality(Recent') <= Cardinality(Fresh \union {d})
    BY <2>1, <2>2, FS_Subset
  <2>4. Cardinality(Fresh) < MAX_PATH_REQUESTS_PER_WINDOW BY DEF Allowed
  <2>5. /\ Cardinality(Fresh) \in Nat /\ Cardinality(Recent') \in Nat
        /\ Cardinality(Fresh \union {d}) \in Nat
    BY <1>2, <2>2, <2>3, FS_CardinalityType
  <2>6. Cardinality(Recent') <= MAX_PATH_REQUESTS_PER_WINDOW
    BY <2>2, <2>3, <2>4, <2>5, LimiterAssumption
  <2> QED BY <2>6 DEF BudgetKept
<1> QED BY <1>5, <1>6, <1>7, <1>8, <1>9, <1>10 DEF LimiterInv, RequestsBounded

\* One step of the limiter, or none.
LEMMA LimiterStep ==
  ASSUME LimiterInv, [LimiterNext]_limiterVars
  PROVE  LimiterInv'
<1>1. CASE Tick BY <1>1, TickKeeps
<1>2. CASE \E d \in Destination : RequestPath(d)
  <2> PICK d \in Destination : RequestPath(d) BY <1>2
  <2> QED BY GrantedKeeps, SuppressedKeeps
<1>3. CASE UNCHANGED limiterVars
  BY <1>3 DEF limiterVars, LimiterInv, LimiterTypeOK, Remembered, RequestsBounded, Spaced, BudgetKept, Recent
<1> QED BY <1>1, <1>2, <1>3 DEF LimiterNext

\* However often and in whatever order paths are requested: one destination not twice
\* within the minimum interval, and within a window never more destinations than the
\* budget, although the table is pruned at each call.
THEOREM LimiterKeepsBudget == LimiterSpec => []RequestsBounded
<1>1. (\E t \in Nat : LimiterInit(t)) => LimiterInv BY InitLimiter
<1>2. LimiterInv /\ [LimiterNext]_limiterVars => LimiterInv' BY LimiterStep
<1>3. LimiterInv => RequestsBounded BY DEF LimiterInv
<1> QED BY <1>1, <1>2, <1>3, PTL DEF LimiterSpec

\* The hub connection and the other services ask the limiter, or leave it alone.
LEMMA HubAsksLimiter == [HubNext]_allHubVars => [LimiterNext]_limiterVars
<1> SUFFICES ASSUME HubNext PROVE [LimiterNext]_limiterVars
  BY DEF allHubVars, limiterVars
<1>1. CASE SetConfigured \/ IsConnected \/ ForcePathCheck \/ Disconnect \/ PathComesOrGoes
  BY <1>1 DEF SetConfigured, IsConnected, ForcePathCheck, Disconnect, PathComesOrGoes
<1>2. CASE Connect \/ RetryConnection
  BY <1>2, HubAssumption DEF Connect, RetryConnection, LimiterNext
<1>3. CASE TimePasses BY <1>3 DEF TimePasses, LimiterNext
<1>4. CASE \E d \in Destination : RequestOther(d) BY <1>4 DEF RequestOther, LimiterNext
<1> QED BY <1>1, <1>2, <1>3, <1>4 DEF HubNext

LEMMA HubStartsLimiter == HubInit => \E t \in Nat : LimiterInit(t)
BY HubAssumption DEF HubInit

\* What they do to the limiter is what the limiter allows.
THEOREM HubUsesLimiter == HubSpec => LimiterSpec
BY HubStartsLimiter, HubAsksLimiter, PTL DEF HubSpec, LimiterSpec

\* So the requests of the hub connection and of all the other services together are
\* bounded.
THEOREM HubRequestsBounded == HubSpec => []RequestsBounded
BY HubUsesLimiter, LimiterKeepsBudget, PTL

\* A connection has been seen, and not before the check that its age counts from.
SightInv ==
    /\ now \in Nat /\ last_check \in Nat /\ last_check <= now
    /\ seen \in Nat \union {Never}
    /\ connected => seen # Never /\ last_check <= seen

\* At the start, long after time 0, nothing is connected.
LEMMA SightInit == HubInit => SightInv
BY HubAssumption DEF HubInit, LimiterInit, SightInv

\* A look at the path table either sees the hub now or ends the connection.
LEMMA LookKeeps ==
  ASSUME SightInv, PathChecked, now' = now
  PROVE  SightInv'
BY DEF SightInv, PathChecked, Never

LEMMA SightStep ==
  ASSUME SightInv, [HubNext]_allHubVars
  PROVE  SightInv'
<1>1. CASE UNCHANGED allHubVars
  BY <1>1 DEF allHubVars, limiterVars, hubVars, flagVars, SightInv
<1>2. CASE SetConfigured \/ PathComesOrGoes
  BY <1>2 DEF SetConfigured, PathComesOrGoes, limiterVars, flagVars, SightInv
<1>3. CASE IsConnected \/ ForcePathCheck
  BY <1>3, LookKeeps DEF IsConnected, ForcePathCheck, limiterVars
<1>4. CASE Connect \/ RetryConnection
  <2>1. Connect BY <1>4 DEF RetryConnection
  <2>2. now' = now BY <2>1 DEF Connect, RequestPath, limiterVars
  <2>3. last_check' = last_check /\ connected' = has_path /\ (has_path => seen' = now)
        /\ (~has_path => seen' = seen)
    BY <2>1 DEF Connect
  <2> QED BY <2>2, <2>3 DEF SightInv, Never
<1>5. CASE Disconnect
  BY <1>5 DEF Disconnect, limiterVars, SightInv
<1>6. CASE \E d \in Destination : RequestOther(d)
  BY <1>6 DEF RequestOther, RequestPath, hubVars, flagVars, SightInv
<1>7. CASE TimePasses
  BY <1>7 DEF TimePasses, Tick, hubVars, flagVars, SightInv
<1> QED BY <1>1, <1>2, <1>3, <1>4, <1>5, <1>6, <1>7 DEF HubNext

\* What is reported of the connection follows from the invariant.
LEMMA SeenIsReported == SightInv => ConnectedWasSeen
<1> SUFFICES ASSUME SightInv, Status = "connected", ~has_path
             PROVE  seen # Never /\ now - seen <= PATH_CHECK_INTERVAL
  BY DEF ConnectedWasSeen
<1>1. connected /\ ~CheckIsDue BY DEF Status
<1>2. seen \in Nat /\ last_check <= seen BY <1>1 DEF SightInv, Never
<1> QED BY <1>1, <1>2, HubAssumption DEF SightInv, CheckIsDue, Never

\* A hub that is reported connected has a path, or had one when the code last looked,
\* no longer ago than the interval between two looks.
THEOREM ConnectedHubWasSeen == HubSpec => []ConnectedWasSeen
<1> QED BY SeenIsReported, SightInit, SightStep, PTL DEF HubSpec

\* Flags, times and the table of the limiter.
LEMMA HubTypesStart == HubInit => LimiterInv /\ HubTypeOK
<1> SUFFICES ASSUME HubInit PROVE LimiterInv /\ HubTypeOK
  OBVIOUS
<1>1. LimiterInv BY HubStartsLimiter, InitLimiter
<1> QED BY <1>1 DEF HubInit, HubTypeOK, LimiterInv

LEMMA HubTypesStep ==
  ASSUME LimiterInv, HubTypeOK, [HubNext]_allHubVars
  PROVE  LimiterInv' /\ HubTypeOK'
<1>1. LimiterInv' BY HubAsksLimiter, LimiterStep
<1>2. LimiterTypeOK' BY <1>1 DEF LimiterInv
<1>3. now \in Nat BY DEF LimiterInv, LimiterTypeOK
<1>4. CASE UNCHANGED allHubVars BY <1>1, <1>2, <1>4 DEF allHubVars, hubVars, flagVars, HubTypeOK
<1>5. CASE SetConfigured \/ PathComesOrGoes
  BY <1>1, <1>2, <1>5 DEF SetConfigured, PathComesOrGoes, flagVars, HubTypeOK
<1>6. CASE IsConnected \/ ForcePathCheck
  BY <1>1, <1>2, <1>3, <1>6 DEF IsConnected, ForcePathCheck, PathChecked, HubTypeOK
<1>7. CASE Connect \/ RetryConnection
  BY <1>1, <1>2, <1>3, <1>7 DEF Connect, RetryConnection, HubTypeOK
<1>8. CASE Disconnect BY <1>1, <1>2, <1>8 DEF Disconnect, HubTypeOK
<1>9. CASE TimePasses \/ \E d \in Destination : RequestOther(d)
  BY <1>1, <1>2, <1>9 DEF TimePasses, RequestOther, hubVars, flagVars, HubTypeOK
<1> QED BY <1>1, <1>4, <1>5, <1>6, <1>7, <1>8, <1>9 DEF HubNext

\* The types of the hub connection and of the limiter below it.
THEOREM HubTypes == HubSpec => []HubTypeOK
<1> QED BY HubTypesStart, HubTypesStep, PTL DEF HubSpec

-----------------------------------------------------------------------------
(* Calls over the mesh.                                                      *)

\* A future is there from the registration on, and open only while its caller
\* waits; a call that was not made or has timed out is not pending.
FutureInv ==
    \A c \in Calls :
        /\ future[c] = "none" <=> caller[c] \in {"new", "transport"}
        /\ future[c] = "open" => caller[c] = "waiting"
        /\ caller[c] \in {"new", "transport", "timeout"} => c \notin pending

\* The timeout the loop handles is of a call that still waits, and whose
\* future it has not cancelled yet, or which is settled.
LoopInv ==
    loopAt # "idle" =>
        /\ loopCall \in Calls
        /\ caller[loopCall] = "waiting"
        /\ loopAt = "timer" => future[loopCall] # "cancelled"
        /\ loopAt = "remove" => future[loopCall] \in Settled

\* Only the delivery thread settles a future with an answer, and it goes on to
\* remove the entry.
DeliveryInv ==
    /\ lxmfAt # "idle" => lxmfCall \in Calls
    /\ \A c \in pending :
          future[c] \in {"set", "failed"} => lxmfAt = "remove" /\ lxmfCall = c

CallInv ==
    TypeOK /\ NoStalePending /\ OutcomeAgrees /\ FutureInv /\ LoopInv /\ DeliveryInv

LEMMA InitCall == Init => CallInv
<1> SUFFICES ASSUME Init PROVE CallInv
  OBVIOUS
<1> USE CallAssumption DEF Init
<1>1. asleep \in BOOLEAN OBVIOUS
<1>2. TypeOK BY <1>1 DEF TypeOK
<1>3. NoStalePending /\ DeliveryInv BY DEF NoStalePending, DeliveryInv
<1>4. OutcomeAgrees /\ FutureInv BY DEF OutcomeAgrees, FutureInv
<1>5. LoopInv BY DEF LoopInv
<1> QED BY <1>2, <1>3, <1>4, <1>5 DEF CallInv

\* What the loop does with a call, before, during and after its wait.
LEMMA LoopSteps ==
    ASSUME CallInv, NEW c \in Calls,
           \/ Call(c) \/ CallUnsent(c) \/ CallUnrecorded(c)
           \/ Return(c) \/ Timer(c) \/ Cancel(c)
    PROVE  CallInv'
<1> USE DEF CallInv, TypeOK, NoStalePending, OutcomeAgrees, FutureInv, LoopInv, DeliveryInv,
            Settled, Ended, End, loopVars, lxmfVars
<1>1. CASE Call(c) BY <1>1 DEF Call
<1>2. CASE CallUnsent(c) BY <1>2 DEF CallUnsent
<1>3. CASE CallUnrecorded(c) BY <1>3 DEF CallUnrecorded
<1>4. CASE Return(c) BY <1>4 DEF Return
<1>5. CASE Timer(c) BY <1>5 DEF Timer
<1>6. CASE Cancel(c) BY <1>6 DEF Cancel
<1> QED BY <1>1, <1>2, <1>3, <1>4, <1>5, <1>6

LEMMA TimeoutSteps ==
    ASSUME CallInv, Sleep \/ TimeoutStep
    PROVE  CallInv'
<1> USE DEF CallInv, TypeOK, NoStalePending, OutcomeAgrees, FutureInv, LoopInv, DeliveryInv,
            Settled, Ended, End, loopVars, lxmfVars
<1>1. CASE Sleep BY <1>1 DEF Sleep
<1>2. CASE TimerRuns BY <1>2 DEF TimerRuns
<1>3. CASE TimeoutRemoves BY <1>3 DEF TimeoutRemoves
<1> QED BY <1>1, <1>2, <1>3 DEF TimeoutStep

LEMMA DeliverySteps ==
    ASSUME CallInv,
           \/ \E c \in Calls, kind \in {"answer", "error"} : Deliver(c, kind)
           \/ ResponseStep
    PROVE  CallInv'
<1> USE DEF CallInv, TypeOK, NoStalePending, OutcomeAgrees, FutureInv, LoopInv, DeliveryInv,
            Settled, Ended, Moves, loopVars, lxmfVars
<1>1. ASSUME NEW c \in Calls, NEW kind \in {"answer", "error"}, Deliver(c, kind)
      PROVE CallInv'
  BY <1>1, CallAssumption DEF Deliver
<1>2. CASE TestDone BY <1>2 DEF TestDone
<1>3. CASE Resolve BY <1>3 DEF Resolve
<1>4. CASE RemoveEntry BY <1>4 DEF RemoveEntry
<1> QED BY <1>1, <1>2, <1>3, <1>4 DEF ResponseStep

LEMMA NextCall == CallInv /\ [Next]_vars => CallInv'
<1> SUFFICES ASSUME CallInv, [Next]_vars PROVE CallInv'
  OBVIOUS
<1>1. CASE Next BY <1>1, LoopSteps, TimeoutSteps, DeliverySteps DEF Next
<1>2. CASE UNCHANGED vars
  BY <1>2 DEF CallInv, TypeOK, NoStalePending, OutcomeAgrees, FutureInv, LoopInv, DeliveryInv,
     vars, loopVars, lxmfVars
<1> QED BY <1>1, <1>2

LEMMA CallInvariant == Spec => []CallInv
BY InitCall, NextCall, PTL DEF Spec

\* However the loop's timeouts interleave with late, repeated and erroneous
\* answers on the other thread, pending_requests keeps the entry of no call
\* that has ended, but of a cancelled one.
THEOREM PendingIsCleaned == Spec => []NoStalePending
<1>1. CallInv => NoStalePending BY DEF CallInv
<1> QED BY <1>1, CallInvariant, PTL

\* What a caller is told is what its future holds.
THEOREM OutcomesAgree == Spec => []OutcomeAgrees
<1>1. CallInv => OutcomeAgrees BY DEF CallInv
<1> QED BY <1>1, CallInvariant, PTL

\* No thread changes a future the other has settled.
THEOREM FuturesSettleOnce == Spec => SettledOnce
<1>1. CallInv /\ [Next]_vars =>
          [\A c \in Calls : future[c] \in Settled => future'[c] = future[c]]_vars
  <2> SUFFICES ASSUME CallInv, Next, NEW c \in Calls, future[c] \in Settled
               PROVE future'[c] = future[c]
    OBVIOUS
  <2> USE DEF CallInv, TypeOK, FutureInv, Settled, loopVars, lxmfVars
  <2>1. ASSUME NEW d \in Calls,
               \/ Call(d) \/ CallUnsent(d) \/ CallUnrecorded(d)
               \/ Return(d) \/ Timer(d) \/ Cancel(d)
               \/ \E kind \in {"answer", "error"} : Deliver(d, kind)
        PROVE future'[c] = future[c]
    BY <2>1 DEF Call, CallUnsent, CallUnrecorded, Return, Timer, Cancel, Deliver
  <2>2. CASE Sleep \/ TimeoutStep BY <2>2 DEF Sleep, TimeoutStep, TimerRuns, TimeoutRemoves
  <2>3. CASE ResponseStep BY <2>3 DEF ResponseStep, TestDone, Resolve, RemoveEntry
  <2> QED BY <2>1, <2>2, <2>3 DEF Next
<1> QED BY <1>1, CallInvariant, PTL DEF Spec, SettledOnce

-----------------------------------------------------------------------------
(* The services: between the program's thread and the interface monitor, a     *)
(* shutdown is complete, an initialized program knows whether it is offline,    *)
(* and no destination outlives a reconnection.                                  *)

\* A program that is starting up, or joins the monitor, has Reticulum; without it nothing
\* is cached and nobody calls LXMF back.
StartingInv ==
    /\ pc \in {"destination", "lxmf", "callback", "announce", "join"} => rnsUp
    /\ pc \in {"destination", "lxmf", "callback", "announce"} => ~failed
    /\ pc = "clear" => ~rnsUp
    /\ ~rnsUp => ~cached /\ ~callback

\* What a shutdown has stopped stays so until its end.
StoppingInv ==
    /\ pc \in {"stop_lxmf", "stop_rns", "join", "clear"} => ~discovery
    /\ pc \in {"stop_rns", "join", "clear"} => ~lxmfUp

\* The one temporary directory is that of the configuration in use.
DirectoryInv == dirs = tracked /\ dirs \subseteq {configDir} \ {0}

\* A callback that missed a reconnection is in the list the monitor is calling; and
\* there is no callback without a router, which takes an identity once.
CallbackInv ==
    /\ callback \/ pc \in {"callback", "announce"} => listening
    /\ callback /\ handled > since => copied \/ monitor # "call"

ServicesInv ==
    /\ StartingInv /\ StoppingInv /\ DirectoryInv /\ CallbackInv
    /\ OfflineIsKnown /\ ShutdownIsComplete /\ NoStaleDelivery

\* Every reconnection that was handled is an interface that came back after it had been missed,
\* and both are changes: what was handled, is missed, or is gone unnoticed is not more than
\* the changes there were.
FlapInv == handled + Cardinality(missed) + Cardinality(last \ online) <= flaps

\* Every step of either thread keeps the invariant.
LEMMA ServicesStep ==
  ASSUME ServicesTypeOK, ServicesInv, [ServicesNext]_servicesVars
  PROVE  ServicesInv'
  <1> USE ServicesAssumption DEF ServicesTypeOK, LifecycleTypeOK, ServiceTypeOK, MonitorTypeOK,
      ServicesInv, StartingInv, StoppingInv, DirectoryInv,
      CallbackInv, OfflineIsKnown, ShutdownIsComplete, NoStaleDelivery,
      servicesVars, mainVars, lifecycleVars, serviceVars, interfaceVars, monitorVars
  <1>1. ASSUME NEW temporary \in BOOLEAN, FailsEarly(temporary) PROVE ServicesInv'
    BY <1>1 DEF FailsEarly
  <1>2. ASSUME NEW temporary \in BOOLEAN, ReticulumFails(temporary) PROVE ServicesInv'
    BY <1>2 DEF ReticulumFails, TakesConfig
  <1>3. ASSUME NEW temporary \in BOOLEAN, ReticulumStarts(temporary) PROVE ServicesInv'
    BY <1>3 DEF ReticulumStarts, TakesConfig
  <1>4. ASSUME NEW rpc \in BOOLEAN, CreatesDestination(rpc) PROVE ServicesInv'
    BY <1>4 DEF CreatesDestination
  <1>5. CASE InitializeLXMF BY <1>5 DEF InitializeLXMF
  <1>6. CASE LXMFFails BY <1>6 DEF LXMFFails, LXMFReturns
  <1>7. CASE RegistersIdentity BY <1>7 DEF RegistersIdentity
  <1>8. CASE RegistersCallback BY <1>8 DEF RegistersCallback
  <1>9. CASE Announces BY <1>9 DEF Announces, LXMFReturns
  <1>10. CASE StartDiscovery BY <1>10 DEF StartDiscovery
  <1>11. ASSUME NEW shutdown \in BOOLEAN, StopDiscovery(shutdown) PROVE ServicesInv'
    BY <1>11 DEF StopDiscovery
  <1>12. CASE StopLXMF BY <1>12 DEF StopLXMF
  <1>13. CASE StopRNS BY <1>13 DEF StopRNS
  <1>14. CASE Joined BY <1>14 DEF Joined
  <1>15. CASE CleansUp BY <1>15 DEF CleansUp
  <1>16. ASSUME NEW i \in Interface, InterfaceChanges(i) PROVE ServicesInv'
    BY <1>16 DEF InterfaceChanges
  <1>17. CASE MonitorEnds BY <1>17 DEF MonitorEnds
  <1>18. CASE PassBegins BY <1>18 DEF PassBegins
  <1>19. CASE PassEnds BY <1>19 DEF PassEnds
  <1>20. ASSUME NEW i \in Interface, Checks(i) PROVE ServicesInv'
    BY <1>20 DEF Checks
  <1>21. ASSUME NEW i \in Interface, HandlesReconnection(i) PROVE ServicesInv'
    BY <1>21 DEF HandlesReconnection
  <1>22. CASE CallsBack BY <1>22 DEF CallsBack
  <1>23. CASE UNCHANGED servicesVars BY <1>23
  <1> QED
    BY <1>1, <1>2, <1>3, <1>4, <1>5, <1>6, <1>7, <1>8, <1>9, <1>10, <1>11, <1>12, <1>13, <1>14, <1>15, <1>16, <1>17, <1>18, <1>19, <1>20, <1>21, <1>22, <1>23
    DEF ServicesNext, InitializeStep, ShutdownStep, MonitorStep

\* The sets of interfaces are finite.
LEMMA FiniteInterfaces ==
  ASSUME ServicesTypeOK
  PROVE  /\ IsFiniteSet(missed) /\ Cardinality(missed) \in Nat
         /\ IsFiniteSet(last \ online) /\ Cardinality(last \ online) \in Nat
  <1>1. missed \in SUBSET Interface /\ last \ online \in SUBSET Interface
    BY DEF ServicesTypeOK, MonitorTypeOK
  <1>2. IsFiniteSet(missed) /\ IsFiniteSet(last \ online)
    BY <1>1, FS_Subset, ServicesAssumption
  <1> QED BY <1>2, FS_CardinalityType

LEMMA FlapInit == ServicesInit => FlapInv
  BY FS_EmptySet, ServicesAssumption DEF ServicesInit, FlapInv

\* A change adds at most one interface that is gone unnoticed; noticing it makes it missed;
\* handling it makes it neither.
LEMMA FlapStep ==
  ASSUME ServicesTypeOK, FlapInv, [ServicesNext]_servicesVars
  PROVE  FlapInv'
  <1>1. /\ handled \in Nat /\ flaps \in Nat
        /\ IsFiniteSet(missed) /\ Cardinality(missed) \in Nat
        /\ IsFiniteSet(last \ online) /\ Cardinality(last \ online) \in Nat
    BY FiniteInterfaces, ServicesAssumption DEF ServicesTypeOK, MonitorTypeOK
  <1>2. CASE UNCHANGED <<handled, missed, last, online, flaps>>
    BY <1>2 DEF FlapInv
  <1>3. ASSUME NEW temporary \in BOOLEAN, ReticulumStarts(temporary) PROVE FlapInv'
    <2>1. last' \ online' = {}
      BY <1>3 DEF ReticulumStarts, interfaceVars
    <2>2. Cardinality(last' \ online') = 0 BY <2>1, FS_EmptySet
    <2>3. handled' = handled /\ missed' = missed /\ flaps' = flaps
      BY <1>3 DEF ReticulumStarts, interfaceVars
    <2> QED BY <1>1, <2>2, <2>3 DEF FlapInv
  <1>4. ASSUME NEW i \in Interface, InterfaceChanges(i) PROVE FlapInv'
    <2>1. last' = last /\ handled' = handled /\ missed' = missed /\ flaps' = flaps + 1
      BY <1>4 DEF InterfaceChanges, monitorVars
    <2>2. last' \ online' \in SUBSET ((last \ online) \cup {i})
      BY <1>4, <2>1 DEF InterfaceChanges
    <2>3. /\ IsFiniteSet((last \ online) \cup {i})
          /\ Cardinality((last \ online) \cup {i}) \in Nat
          /\ Cardinality((last \ online) \cup {i}) <= Cardinality(last \ online) + 1
      <3>1. IsFiniteSet((last \ online) \cup {i}) BY <1>1, FS_AddElement
      <3>2. Cardinality((last \ online) \cup {i})
              = IF i \in last \ online THEN Cardinality(last \ online)
                ELSE Cardinality(last \ online) + 1
        BY <1>1, FS_AddElement
      <3> QED BY <1>1, <3>1, <3>2
    <2>4. /\ Cardinality(last' \ online') \in Nat
          /\ Cardinality(last' \ online') <= Cardinality((last \ online) \cup {i})
      BY <2>2, <2>3, FS_Subset, FS_CardinalityType
    <2> QED BY <1>1, <2>1, <2>3, <2>4 DEF FlapInv
  <1>5. ASSUME NEW i \in Interface, Checks(i) PROVE FlapInv'
    <2>1. online' = online /\ handled' = handled /\ flaps' = flaps
      BY <1>5 DEF Checks, interfaceVars
    <2>2. CASE i \in last \ online
      <3>1. missed' = missed \cup {i} /\ last' \ online' = (last \ online) \ {i}
        BY <1>5, <2>1, <2>2 DEF Checks
      <3>2. Cardinality(missed') \in Nat /\ Cardinality(missed') <= Cardinality(missed) + 1
        <4>1. Cardinality(missed \cup {i})
                = IF i \in missed THEN Cardinality(missed) ELSE Cardinality(missed) + 1
          BY <1>1, FS_AddElement
        <4> QED BY <1>1, <3>1, <4>1
      <3>3. Cardinality(last' \ online') = Cardinality(last \ online) - 1
        BY <1>1, <2>2, <3>1, FS_RemoveElement
      <3> QED BY <1>1, <2>1, <3>2, <3>3 DEF FlapInv
    <2>3. CASE i \notin last \ online
      <3>1. missed' = missed /\ last' \ online' = last \ online
        BY <1>5, <2>1, <2>3 DEF Checks
      <3> QED BY <1>1, <2>1, <3>1 DEF FlapInv
    <2> QED BY <2>2, <2>3
  <1>6. ASSUME NEW i \in Interface, HandlesReconnection(i) PROVE FlapInv'
    <2>1. online' = online /\ handled' = handled + 1 /\ flaps' = flaps
      BY <1>6 DEF HandlesReconnection, interfaceVars
    <2>2. missed' = missed \ {i} /\ last' \ online' = last \ online
      BY <1>6, <2>1 DEF HandlesReconnection
    <2>3. Cardinality(missed') = Cardinality(missed) - 1
      BY <1>1, <1>6, <2>2, FS_RemoveElement DEF HandlesReconnection
    <2>4. Cardinality(last' \ online') = Cardinality(last \ online) BY <2>2
    <2> QED BY <1>1, <2>1, <2>3, <2>4 DEF FlapInv
  <1>7. CASE UNCHANGED servicesVars
    BY <1>2, <1>7 DEF servicesVars, interfaceVars, monitorVars
  <1>8. ASSUME \/ \E temporary \in BOOLEAN : FailsEarly(temporary) \/ ReticulumFails(temporary)
               \/ \E rpc \in BOOLEAN : CreatesDestination(rpc)
               \/ InitializeLXMF \/ LXMFFails \/ RegistersIdentity \/ RegistersCallback \/ Announces
               \/ ShutdownStep \/ StartDiscovery \/ \E shutdown \in BOOLEAN : StopDiscovery(shutdown)
               \/ MonitorEnds \/ PassBegins \/ PassEnds \/ CallsBack
        PROVE  UNCHANGED <<handled, missed, last, online, flaps>>
    BY <1>8 DEF FailsEarly, ReticulumFails, CreatesDestination, InitializeLXMF, LXMFFails,
       RegistersIdentity, RegistersCallback, Announces, ShutdownStep, StopLXMF, StopRNS, Joined,
       CleansUp, StartDiscovery, StopDiscovery, MonitorEnds, PassBegins, PassEnds, CallsBack,
       interfaceVars, monitorVars
  <1> QED
    BY <1>2, <1>3, <1>4, <1>5, <1>6, <1>7, <1>8
    DEF ServicesNext, InitializeStep, MonitorStep

\* Every step keeps the types: a reconnection is handled only after the changes it takes.
LEMMA TypesStep ==
  ASSUME ServicesTypeOK, FlapInv, [ServicesNext]_servicesVars
  PROVE  ServicesTypeOK'
  <1> USE ServicesAssumption DEF ServicesTypeOK, LifecycleTypeOK, ServiceTypeOK, MonitorTypeOK, Gone,
      servicesVars, mainVars, lifecycleVars, serviceVars, interfaceVars, monitorVars
  <1>1. ASSUME NEW temporary \in BOOLEAN, FailsEarly(temporary) PROVE ServicesTypeOK'
    BY <1>1 DEF FailsEarly
  <1>2. ASSUME NEW temporary \in BOOLEAN, ReticulumFails(temporary) PROVE ServicesTypeOK'
    BY <1>2 DEF ReticulumFails, TakesConfig
  <1>3. ASSUME NEW temporary \in BOOLEAN, ReticulumStarts(temporary) PROVE ServicesTypeOK'
    <2>1. LifecycleTypeOK'
      <3>1. inits + 1 \in 1..MaxInits BY <1>3 DEF ReticulumStarts
      <3>2. inits' \in 0..MaxInits /\ configDir' \in 0..MaxInits
        BY <1>3, <3>1 DEF ReticulumStarts, TakesConfig
      <3>3. dirs' \subseteq 1..MaxInits /\ tracked' \subseteq 1..MaxInits
        BY <1>3, <3>1 DEF ReticulumStarts, TakesConfig
      <3>4. pc' = "destination" /\ initialized' = initialized /\ failed' = FALSE
        BY <1>3 DEF ReticulumStarts
      <3> QED BY <3>2, <3>3, <3>4 DEF LifecycleTypeOK
    <2>2. ServiceTypeOK' BY <1>3 DEF ReticulumStarts, TakesConfig
    <2>3. MonitorTypeOK' BY <1>3 DEF ReticulumStarts, TakesConfig
    <2> QED BY <2>1, <2>2, <2>3 DEF ServicesTypeOK
  <1>4. ASSUME NEW rpc \in BOOLEAN, CreatesDestination(rpc) PROVE ServicesTypeOK'
    BY <1>4 DEF CreatesDestination
  <1>5. CASE InitializeLXMF BY <1>5 DEF InitializeLXMF
  <1>6. CASE LXMFFails BY <1>6 DEF LXMFFails, LXMFReturns
  <1>7. CASE RegistersIdentity BY <1>7 DEF RegistersIdentity
  <1>8. CASE RegistersCallback BY <1>8 DEF RegistersCallback
  <1>9. CASE Announces BY <1>9 DEF Announces, LXMFReturns
  <1>10. CASE StartDiscovery BY <1>10 DEF StartDiscovery
  <1>11. ASSUME NEW shutdown \in BOOLEAN, StopDiscovery(shutdown) PROVE ServicesTypeOK'
    BY <1>11 DEF StopDiscovery
  <1>12. CASE StopLXMF BY <1>12 DEF StopLXMF
  <1>13. CASE StopRNS
    <2>1. LifecycleTypeOK' BY <1>13 DEF StopRNS
    <2>2. ServiceTypeOK' BY <1>13 DEF StopRNS
    <2>3. MonitorTypeOK' BY <1>13 DEF StopRNS
    <2> QED BY <2>1, <2>2, <2>3 DEF ServicesTypeOK
  <1>14. CASE Joined BY <1>14 DEF Joined
  <1>15. CASE CleansUp
    <2>1. LifecycleTypeOK'
      <3>1. configDir' \in 0..MaxInits /\ inits' \in 0..MaxInits BY <1>15 DEF CleansUp
      <3>2. dirs' \subseteq 1..MaxInits /\ tracked' \subseteq 1..MaxInits BY <1>15 DEF CleansUp
      <3>3. pc' = "idle" /\ initialized' = FALSE /\ failed' = failed BY <1>15 DEF CleansUp
      <3> QED BY <3>1, <3>2, <3>3 DEF LifecycleTypeOK
    <2>2. ServiceTypeOK' BY <1>15 DEF CleansUp
    <2>3. MonitorTypeOK' BY <1>15 DEF CleansUp
    <2> QED BY <2>1, <2>2, <2>3 DEF ServicesTypeOK
  <1>16. ASSUME NEW i \in Interface, InterfaceChanges(i) PROVE ServicesTypeOK'
    BY <1>16 DEF InterfaceChanges
  <1>17. CASE MonitorEnds BY <1>17 DEF MonitorEnds
  <1>18. CASE PassBegins BY <1>18 DEF PassBegins
  <1>19. CASE PassEnds BY <1>19 DEF PassEnds
  <1>20. ASSUME NEW i \in Interface, Checks(i) PROVE ServicesTypeOK'
    BY <1>20 DEF Checks
  <1>21. ASSUME NEW i \in Interface, HandlesReconnection(i) PROVE ServicesTypeOK'
    <2>1. missed # {} BY <1>21 DEF HandlesReconnection
    <2>2. Cardinality(missed) \in Nat /\ Cardinality(last \ online) \in Nat
      BY FiniteInterfaces
    <2>3. Cardinality(missed) # 0 BY <2>1, FiniteInterfaces, FS_EmptySet
    <2>4. handled + 1 <= MaxFlaps BY <2>2, <2>3 DEF FlapInv
    <2>5. ServiceTypeOK' BY <1>21 DEF HandlesReconnection
    <2>6. MonitorTypeOK' BY <1>21, <2>4 DEF HandlesReconnection
    <2> QED BY <1>21, <2>5, <2>6 DEF HandlesReconnection
  <1>22. CASE CallsBack BY <1>22 DEF CallsBack
  <1>23. CASE UNCHANGED servicesVars BY <1>23
  <1> QED
    BY <1>1, <1>2, <1>3, <1>4, <1>5, <1>6, <1>7, <1>8, <1>9, <1>10, <1>11, <1>12, <1>13, <1>14, <1>15, <1>16, <1>17, <1>18, <1>19, <1>20, <1>21, <1>22, <1>23
    DEF ServicesNext, InitializeStep, ShutdownStep, MonitorStep

LEMMA TypesInit == ServicesInit => ServicesTypeOK
  <1> SUFFICES ASSUME ServicesInit PROVE ServicesTypeOK
    OBVIOUS
  <1>1. 0 \in 0..MaxInits /\ 0 \in 0..MaxFlaps /\ Gone \in 0..Gone
    BY ServicesAssumption DEF Gone
  <1>2. LifecycleTypeOK BY <1>1, Zenon DEF LifecycleTypeOK, ServicesInit
  <1>3. ServiceTypeOK BY <1>1, Zenon DEF ServiceTypeOK, ServicesInit
  <1>4. MonitorTypeOK BY <1>1, Zenon DEF MonitorTypeOK, ServicesInit
  <1> QED BY <1>2, <1>3, <1>4 DEF ServicesTypeOK

LEMMA ServicesStart == ServicesInit => ServicesInv
  BY DEF ServicesInit, ServicesInv, StartingInv, StoppingInv, DirectoryInv, CallbackInv,
     OfflineIsKnown, ShutdownIsComplete, NoStaleDelivery

\* The types, of which the number of handled reconnections is the one that has to be counted.
THEOREM ServicesTypes == ServicesSpec => []ServicesTypeOK
  <1> QED BY TypesInit, TypesStep, FlapInit, FlapStep, PTL DEF ServicesSpec

LEMMA ServicesInvariant == ServicesSpec => []ServicesInv
  <1> QED BY ServicesStart, ServicesStep, ServicesTypes, PTL DEF ServicesSpec

\* CoreLifecycle.shutdown leaves nothing of LXMF, RNS and discovery up and no directory,
\* whichever step of initialize failed, and whatever the interface monitor did.
THEOREM ShutdownLeavesNothing == ServicesSpec => []ShutdownIsComplete
  <1>1. ServicesInv => ShutdownIsComplete BY DEF ServicesInv
  <1> QED BY <1>1, ServicesInvariant, PTL

\* An initialized program knows whether it is offline, also after a second initialize.
THEOREM OfflineStaysKnown == ServicesSpec => []OfflineIsKnown
  <1>1. ServicesInv => OfflineIsKnown BY DEF ServicesInv
  <1> QED BY <1>1, ServicesInvariant, PTL

\* A destination from before a reconnection is not kept by LXMF, though the registration of
\* its callback and the reconnection are on two threads.
THEOREM DeliveryIsNeverStale == ServicesSpec => []NoStaleDelivery
  <1>1. ServicesInv => NoStaleDelivery BY DEF ServicesInv
  <1> QED BY <1>1, ServicesInvariant, PTL

-----------------------------------------------------------------------------
(* Discovery and the store of nodes.                                         *)

Saves(t, d) == announce[t].at = "save" /\ announce[t].dest = d

\* What is stored of a destination names its owner, or nobody.
OwnerInv ==
    /\ \A d \in Stored : nodes[d].identity \in {d[1], "placeholder"}
    /\ \A t \in AnnounceThread :
          announce[t] # NoAnnounce => announce[t].device.identity = announce[t].dest[1]

\* A message under way has the owner of its destination for a receiver, or nobody yet.
MessageInv ==
    message # NoMessage =>
        /\ message[3] \in {message[2][1], "unknown", "placeholder"}
        /\ message[1] \in {"path", "direct", "propagated"} => message[3] = message[2][1]

\* The operator's destination of a node is a Styrene node, and a thread that found it when the
\* announce came finds it again when it compares, or that the devices have changed.
StyreneInv ==
    /\ \A d \in Discovered : d[2] = "operator" => discovered_devices[d].type = "styrene"
    /\ \A t \in AnnounceThread :
          announce[t] # NoAnnounce =>
              /\ announce[t].dest[2] = "operator" => announce[t].device.type = "styrene"
              /\ announce[t].at = "compare" => announce[t].dest[2] = "delivery"
              /\ announce[t].operator => <<announce[t].dest[1], "operator">> \in announce[t].devices

\* Whoever is discovered is in the store, or a thread is about to put it there, with the
\* interface if that is known.
StoreInv ==
    \A d \in Discovered \ unsaved :
        /\ d \in Stored \/ \E t \in AnnounceThread : Saves(t, d)
        /\ discovered_devices[d].via =>
               \/ d \in Stored /\ nodes[d].via
               \/ \E t \in AnnounceThread : Saves(t, d) /\ announce[t].device.via

DiscoveryInv == OwnerInv /\ MessageInv /\ StyreneInv /\ StyreneStaysStyrene /\ StoreInv

\* What a device is made of.
LEMMA DeviceParts ==
  ASSUME NEW x \in Device
  PROVE  /\ x # Unknown
         /\ x.type \in {"styrene", "lxmf", "hub"} /\ x.lxmf \in BOOLEAN /\ x.via \in BOOLEAN
         /\ x.identity \in Identity \cup {"placeholder"}
         /\ \A b \in BOOLEAN : /\ [x EXCEPT !.via = b] \in Device
                               /\ [x EXCEPT !.via = b].identity = x.identity
                               /\ [x EXCEPT !.via = b].via = b
         /\ /\ [x EXCEPT !.type = "styrene"] \in Device
            /\ [x EXCEPT !.type = "styrene"].type = "styrene"
            /\ [x EXCEPT !.type = "styrene"].identity = x.identity
BY DEF Device, Unknown

\* What an announce under way is made of.
LEMMA HandledParts ==
  ASSUME DiscoveryTypeOK, NEW t \in AnnounceThread, announce[t] # NoAnnounce
  PROVE  /\ announce[t] \in Handled
         /\ announce[t].at \in {"compare", "keep", "save"} /\ announce[t].dest \in Dest
         /\ announce[t].device \in Device /\ announce[t].devices \subseteq Dest
         /\ announce[t].operator \in BOOLEAN
BY DEF DiscoveryTypeOK, Handled

LEMMA DiscoveryStart == DiscoveryInit => DiscoveryTypeOK /\ DiscoveryInv
<1> SUFFICES ASSUME DiscoveryInit PROVE DiscoveryTypeOK /\ DiscoveryInv
  OBVIOUS
<1>1. Discovered = {} /\ Stored = {}
  BY DEF DiscoveryInit, Discovered, Stored
<1>2. \A t \in AnnounceThread : announce[t] = NoAnnounce
  BY DEF DiscoveryInit
<1>3. DiscoveryTypeOK BY <1>2, DiscoveryAssumption DEF DiscoveryInit, DiscoveryTypeOK
<1>4. message = NoMessage BY DEF DiscoveryInit
<1>5. StyreneStaysStyrene BY <1>2 DEF StyreneStaysStyrene, NoAnnounce
<1> QED BY <1>1, <1>2, <1>3, <1>4, <1>5 DEF DiscoveryInv, OwnerInv, MessageInv, StyreneInv, StoreInv

\* The devices, the store and the announces stay while a message is sent.
LEMMA SendKeeps ==
  ASSUME DiscoveryTypeOK, DiscoveryInv, SendStep
  PROVE  DiscoveryTypeOK' /\ DiscoveryInv'
<1>1. UNCHANGED <<discovered_devices, nodes, remembered, unsaved, announce, heard, starts>>
  BY DEF SendStep, SendMessage, LookUp, RecallStored, Wait, Routed, Sent
<1>2. Discovered' = Discovered /\ Stored' = Stored
  BY <1>1 DEF Discovered, Stored
<1>3. OwnerInv' /\ StyreneInv' /\ StyreneStaysStyrene' /\ StoreInv'
  BY <1>1, <1>2 DEF DiscoveryInv, OwnerInv, StyreneInv, StyreneStaysStyrene, StoreInv, Saves
<1> DEFINE Early == {"lookup", "recall", "wait", "path", "failed"}
           Late == {"direct", "propagated"}
           Nobody == {"unknown", "placeholder"}
<1>4. ASSUME \/ message' = NoMessage
             \/ \E w \in Early, d \in Dest, i \in Identity \cup Nobody :
                   /\ message' = <<w, d, i>> /\ i \in {d[1]} \cup Nobody
                   /\ w = "path" => i = d[1]
             \/ \E w \in Late, d \in Dest : message' = <<w, d, d[1]>>
      PROVE  DiscoveryTypeOK' /\ DiscoveryInv'
  <2>1. \A d \in Dest : d[1] \in Identity BY DEF Dest
  <2>2. DiscoveryTypeOK' BY <1>1, <1>4, <2>1 DEF DiscoveryTypeOK
  <2>3. MessageInv' BY <1>4 DEF MessageInv
  <2> QED BY <1>3, <2>2, <2>3 DEF DiscoveryInv
<1>5. ASSUME NEW d \in Dest, SendMessage(d) PROVE DiscoveryTypeOK' /\ DiscoveryInv'
  <2>1. d[1] \in Identity BY DEF Dest
  <2>2. message' = <<"path", d, d[1]>> \/ message' = <<"lookup", d, "unknown">>
    BY <1>5 DEF SendMessage
  <2> QED BY <1>4, <2>1, <2>2
<1>6. ASSUME message # NoMessage
      PROVE  /\ message[2] \in Dest /\ message[3] \in Identity \cup Nobody
             /\ message[2][1] \in Identity
             /\ message[3] \in {message[2][1]} \cup Nobody
             /\ message[3] \in Identity => message[3] = message[2][1]
             /\ message[1] \in {"path", "direct", "propagated"} => message[3] = message[2][1]
  BY <1>6, DiscoveryAssumption DEF DiscoveryTypeOK, DiscoveryInv, MessageInv, Dest
<1>7. CASE LookUp
  <2>1. message # NoMessage BY <1>7 DEF LookUp, NoMessage
  <2> DEFINE d == message[2]
  <2>2. message' = <<"recall", d, IdentityFor(d)>> BY <1>7 DEF LookUp
  <2>3. d \in Dest /\ d[1] \in Identity BY <1>6, <2>1
  <2>4. IdentityFor(d) \in {d[1]} \cup Nobody
    <3> HIDE DEF d
    <3>1. <<d[1], "operator">> \in Dest BY <2>3 DEF Dest
    <3>2. \A e \in Stored : nodes[e].identity \in {e[1], "placeholder"}
      BY DEF DiscoveryInv, OwnerInv
    <3> QED BY <2>3, <3>1, <3>2 DEF IdentityFor, Stored
  <2> QED BY <1>4, <2>2, <2>3, <2>4
<1>8. CASE RecallStored
  <2>1. message # NoMessage BY <1>8 DEF RecallStored, NoMessage
  <2>2. \/ message[3] \in Identity /\ message' = <<"path", message[2], message[3]>>
        \/ \E w \in {"wait", "failed"} : message' = <<w, message[2], message[3]>>
    BY <1>8 DEF RecallStored
  <2> QED BY <1>4, <1>6, <2>1, <2>2
<1>9. CASE Wait
  <2>1. message # NoMessage BY <1>9 DEF Wait, NoMessage
  <2>2. \A i : Recalls(i) => i \in Identity BY DEF Recalls, DiscoveryTypeOK, Dest
  <2>3. \/ message' = <<"path", message[2], message[2][1]>>
        \/ message[3] \in Identity /\ message' = <<"path", message[2], message[3]>>
        \/ message' = <<"failed", message[2], message[3]>>
    BY <1>9, <2>2 DEF Wait
  <2> QED BY <1>4, <1>6, <2>1, <2>3
<1>10. ASSUME NEW way \in Late, Routed(way) PROVE DiscoveryTypeOK' /\ DiscoveryInv'
  <2>1. message # NoMessage /\ message[1] = "path" BY <1>10 DEF Routed, NoMessage
  <2>2. message' = <<way, message[2], message[2][1]>> BY <1>6, <1>10, <2>1 DEF Routed
  <2> QED BY <1>4, <1>6, <2>1, <2>2
<1>11. CASE Sent BY <1>4, <1>11 DEF Sent
<1> QED BY <1>5, <1>7, <1>8, <1>9, <1>10, <1>11 DEF SendStep

\* Steps of announces leave the message alone.
LEMMA MessageStays ==
  ASSUME MessageInv, UNCHANGED message PROVE MessageInv'
BY DEF MessageInv

\* An announce comes: it is compared only when it is a delivery destination's.
LEMMA ReceivedStep ==
  ASSUME DiscoveryTypeOK, DiscoveryInv,
         NEW t \in AnnounceThread, NEW d \in Dest, NEW device \in Device,
         ReceivedAnnounce(t, d, device)
  PROVE  DiscoveryTypeOK' /\ DiscoveryInv'
<1> DEFINE a == [at |-> IF device.type = "lxmf" THEN "compare" ELSE "keep", dest |-> d,
                 device |-> device, devices |-> Discovered,
                 operator |-> <<d[1], "operator">> \in Discovered]
<1>1. /\ announce[t] = NoAnnounce /\ announce' = [announce EXCEPT ![t] = a]
      /\ Announced(d, device) /\ heard' = heard + 1 /\ heard < MaxHeard
      /\ remembered' = remembered \cup {d}
      /\ UNCHANGED <<discovered_devices, nodes, unsaved, starts, message>>
  BY DEF ReceivedAnnounce
<1>2. Discovered \subseteq Dest BY DEF Discovered
<1>3. a \in Handled BY <1>2 DEF Handled
<1>4. \A s \in AnnounceThread : announce'[s] = IF s = t THEN a ELSE announce[s]
  BY <1>1 DEF DiscoveryTypeOK
<1>5. /\ a.at \in {"compare", "keep"} /\ a.dest = d /\ a.device = device /\ a.devices = Discovered
      /\ a.operator = (<<d[1], "operator">> \in Discovered) /\ a # NoAnnounce
      /\ a.at = "compare" <=> device.type = "lxmf"
  BY DEF NoAnnounce
<1>6. /\ device.identity = d[1] /\ d[2] \in {"operator", "delivery"}
      /\ d[2] = "operator" => device.type = "styrene"
      /\ d[2] = "delivery" => device.type \in {"styrene", "lxmf"}
  BY <1>1 DEF Announced, Dest
<1> HIDE DEF a
<1>7. DiscoveryTypeOK'
  <2>1. announce' \in [AnnounceThread -> Handled \cup {NoAnnounce}]
    BY <1>1, <1>3 DEF DiscoveryTypeOK
  <2>2. heard' \in 0..MaxHeard /\ remembered' \subseteq Dest
    BY <1>1, DiscoveryAssumption DEF DiscoveryTypeOK
  <2> QED BY <1>1, <2>1, <2>2 DEF DiscoveryTypeOK
<1>8. Discovered' = Discovered /\ Stored' = Stored BY <1>1 DEF Discovered, Stored
<1>9. OwnerInv' BY <1>1, <1>4, <1>5, <1>6, <1>8 DEF DiscoveryInv, OwnerInv
<1>10. MessageInv' BY <1>1, MessageStays DEF DiscoveryInv
<1>11. StyreneInv'
  <2>1. ASSUME NEW s \in AnnounceThread, announce'[s] # NoAnnounce
        PROVE  /\ announce'[s].dest[2] = "operator" => announce'[s].device.type = "styrene"
               /\ announce'[s].at = "compare" => announce'[s].dest[2] = "delivery"
               /\ announce'[s].operator => <<announce'[s].dest[1], "operator">> \in announce'[s].devices
    <3>1. CASE s = t BY <1>4, <1>5, <1>6, <3>1
    <3>2. CASE s # t BY <1>4, <2>1, <3>2 DEF DiscoveryInv, StyreneInv
    <3> QED BY <3>1, <3>2
  <2> QED BY <1>1, <1>8, <2>1 DEF DiscoveryInv, StyreneInv
<1>12. StyreneStaysStyrene'
  <2>1. ASSUME NEW s \in AnnounceThread, announce'[s].at \in {"keep", "save"}, announce'[s].operator
        PROVE  announce'[s].device.type = "styrene"
    <3>1. CASE s = t
      <4>1. device.type # "lxmf" BY <1>4, <1>5, <2>1, <3>1
      <4> QED BY <1>4, <1>5, <1>6, <3>1, <4>1
    <3>2. CASE s # t BY <1>4, <2>1, <3>2 DEF DiscoveryInv, StyreneStaysStyrene
    <3> QED BY <3>1, <3>2
  <2> QED BY <2>1 DEF StyreneStaysStyrene
<1>13. StoreInv'
  <2>1. \A s \in AnnounceThread, e \in Dest :
            Saves(s, e) => Saves(s, e)' /\ announce'[s].device = announce[s].device
    BY <1>1, <1>4 DEF Saves, NoAnnounce
  <2> QED BY <1>1, <1>2, <1>8, <2>1 DEF DiscoveryInv, StoreInv
<1> QED BY <1>7, <1>9, <1>10, <1>11, <1>12, <1>13 DEF DiscoveryInv

\* A comparison finds the node, or nobody is new since the announce came, or it is dropped.
LEMMA CompareStep ==
  ASSUME DiscoveryTypeOK, DiscoveryInv, NEW t \in AnnounceThread, Compare(t)
  PROVE  DiscoveryTypeOK' /\ DiscoveryInv'
<1> DEFINE a == announce[t]
<1>1. /\ a.at = "compare" /\ a # NoAnnounce
      /\ UNCHANGED <<discovered_devices, nodes, remembered, unsaved, heard, starts, message>>
  BY DEF Compare, NoAnnounce
<1>2. /\ a \in Handled /\ a.dest \in Dest /\ a.device \in Device /\ a.devices \subseteq Dest
      /\ a.operator \in BOOLEAN
  BY <1>1, HandledParts
<1>3. \A s \in AnnounceThread : s # t => announce'[s] = announce[s]
  BY DEF Compare, DiscoveryTypeOK
<1>4. Discovered' = Discovered /\ Stored' = Stored BY <1>1 DEF Discovered, Stored
<1>5. a.dest[2] = "delivery" /\ (a.operator => <<a.dest[1], "operator">> \in a.devices)
      /\ a.device.identity = a.dest[1]
  BY <1>1 DEF DiscoveryInv, StyreneInv, OwnerInv
<1>6. MessageInv' BY <1>1, MessageStays DEF DiscoveryInv
<1>7. \A s \in AnnounceThread, e \in Dest :
            Saves(s, e) => Saves(s, e)' /\ announce'[s].device = announce[s].device
  BY <1>1, <1>3 DEF Saves
<1>8. StoreInv'
  <2>1. Discovered \subseteq Dest BY DEF Discovered
  <2> QED BY <1>1, <1>4, <1>7, <2>1 DEF DiscoveryInv, StoreInv
<1>9. ASSUME announce' \in [AnnounceThread -> Handled \cup {NoAnnounce}],
             announce'[t] # NoAnnounce =>
                 /\ announce'[t].device.identity = announce'[t].dest[1]
                 /\ announce'[t].dest[2] = "delivery" /\ announce'[t].at = "keep"
                 /\ announce'[t].operator => <<announce'[t].dest[1], "operator">> \in announce'[t].devices
                 /\ announce'[t].operator => announce'[t].device.type = "styrene"
      PROVE  DiscoveryTypeOK' /\ DiscoveryInv'
  <2>1. DiscoveryTypeOK' BY <1>1, <1>9 DEF DiscoveryTypeOK
  <2>2. OwnerInv' BY <1>1, <1>3, <1>4, <1>9 DEF DiscoveryInv, OwnerInv
  <2>3. StyreneInv'
    <3>1. ASSUME NEW s \in AnnounceThread, announce'[s] # NoAnnounce
          PROVE  /\ announce'[s].dest[2] = "operator" => announce'[s].device.type = "styrene"
                 /\ announce'[s].at = "compare" => announce'[s].dest[2] = "delivery"
                 /\ announce'[s].operator => <<announce'[s].dest[1], "operator">> \in announce'[s].devices
      <4>1. CASE s = t BY <1>9, <3>1, <4>1
      <4>2. CASE s # t BY <1>3, <3>1, <4>2 DEF DiscoveryInv, StyreneInv
      <4> QED BY <4>1, <4>2
    <3> QED BY <1>1, <1>4, <3>1 DEF DiscoveryInv, StyreneInv
  <2>4. StyreneStaysStyrene'
    <3>1. ASSUME NEW s \in AnnounceThread, announce'[s].at \in {"keep", "save"}, announce'[s].operator
          PROVE  announce'[s].device.type = "styrene"
      <4>1. CASE s = t BY <1>9, <3>1, <4>1 DEF NoAnnounce
      <4>2. CASE s # t BY <1>3, <3>1, <4>2 DEF DiscoveryInv, StyreneStaysStyrene
      <4> QED BY <4>1, <4>2
    <3> QED BY <3>1 DEF StyreneStaysStyrene
  <2> QED BY <1>6, <1>8, <2>1, <2>2, <2>3, <2>4 DEF DiscoveryInv
<1>10. CASE announce' = [announce EXCEPT ![t].at = "keep", ![t].device.type = "styrene"]
  <2> DEFINE b == [a EXCEPT !.at = "keep", !.device = [a.device EXCEPT !.type = "styrene"]]
  <2>1. announce' = [announce EXCEPT ![t] = b] BY <1>10
  <2>2. [a.device EXCEPT !.type = "styrene"] \in Device
        /\ [a.device EXCEPT !.type = "styrene"].type = "styrene"
        /\ [a.device EXCEPT !.type = "styrene"].identity = a.device.identity
    BY <1>2, DeviceParts
  <2>3. b \in Handled /\ b.at = "keep" /\ b.dest = a.dest /\ b.operator = a.operator
        /\ b.devices = a.devices /\ b.device = [a.device EXCEPT !.type = "styrene"]
    BY <1>2, <2>2 DEF Handled
  <2> HIDE DEF b
  <2>4. announce'[t] = b /\ announce' \in [AnnounceThread -> Handled \cup {NoAnnounce}]
    BY <2>1, <2>3 DEF DiscoveryTypeOK
  <2> QED BY <1>5, <1>9, <2>2, <2>3, <2>4
<1>11. CASE ~IsStyrene(a.dest[1]) /\ Discovered = a.devices /\ announce' = [announce EXCEPT ![t].at = "keep"]
  <2> DEFINE b == [a EXCEPT !.at = "keep"]
  <2>1. announce' = [announce EXCEPT ![t] = b] BY <1>11
  <2>2. b \in Handled /\ b.at = "keep" /\ b.dest = a.dest /\ b.operator = a.operator
        /\ b.devices = a.devices /\ b.device = a.device
    BY <1>2 DEF Handled
  <2> HIDE DEF b
  <2>3. announce'[t] = b /\ announce' \in [AnnounceThread -> Handled \cup {NoAnnounce}]
    BY <2>1, <2>2 DEF DiscoveryTypeOK
  <2>4. ~a.operator
    <3>1. <<a.dest[1], "operator">> \notin Discovered
      BY <1>11 DEF IsStyrene, DiscoveryInv, StyreneInv
    <3> QED BY <1>5, <1>11, <3>1
  <2> QED BY <1>5, <1>9, <2>2, <2>3, <2>4
<1>12. CASE announce' = [announce EXCEPT ![t] = NoAnnounce]
  <2>1. announce'[t] = NoAnnounce /\ announce' \in [AnnounceThread -> Handled \cup {NoAnnounce}]
    BY <1>12 DEF DiscoveryTypeOK
  <2> QED BY <1>9, <2>1
<1> QED BY <1>10, <1>11, <1>12 DEF Compare

\* The device is kept in memory, and its thread is about to save it.
LEMMA KeepStep ==
  ASSUME DiscoveryTypeOK, DiscoveryInv, NEW t \in AnnounceThread, Keep(t)
  PROVE  DiscoveryTypeOK' /\ DiscoveryInv'
<1> DEFINE a == announce[t]
           b == [a EXCEPT !.at = "save"]
           d == a.dest
<1>1. /\ a.at = "keep" /\ a # NoAnnounce
      /\ discovered_devices' = [discovered_devices EXCEPT ![d] = a.device]
      /\ announce' = [announce EXCEPT ![t] = b]
      /\ UNCHANGED <<nodes, remembered, unsaved, heard, starts, message>>
  BY DEF Keep, NoAnnounce
<1>2. /\ a \in Handled /\ d \in Dest /\ a.device \in Device /\ a.devices \subseteq Dest
      /\ a.operator \in BOOLEAN
  BY <1>1, HandledParts
<1>3. b \in Handled /\ b.at = "save" /\ b.dest = d /\ b.operator = a.operator
      /\ b.devices = a.devices /\ b.device = a.device /\ b # NoAnnounce
  BY <1>2 DEF Handled, NoAnnounce
<1>4. /\ a.device # Unknown /\ a.device.identity = d[1]
      /\ d[2] = "operator" => a.device.type = "styrene"
      /\ a.operator => <<d[1], "operator">> \in a.devices
      /\ a.operator => a.device.type = "styrene"
  <2>1. a.device # Unknown
    BY <1>2, DeviceParts
  <2>2. a.device.identity = d[1]
    BY <1>1 DEF DiscoveryInv, OwnerInv
  <2>3. (d[2] = "operator" => a.device.type = "styrene") /\ (a.operator => <<d[1], "operator">> \in a.devices)
    BY <1>1 DEF DiscoveryInv, StyreneInv
  <2>4. a.operator => a.device.type = "styrene"
    BY <1>1 DEF DiscoveryInv, StyreneStaysStyrene
  <2> QED
    BY <2>1, <2>2, <2>3, <2>4
<1>5. \A s \in AnnounceThread : announce'[s] = IF s = t THEN b ELSE announce[s]
  BY <1>1 DEF DiscoveryTypeOK
<1>6. \A e \in Dest : discovered_devices'[e] = IF e = d THEN a.device ELSE discovered_devices[e]
  BY <1>1 DEF DiscoveryTypeOK
<1> HIDE DEF b
<1>7. DiscoveryTypeOK'
  <2>1. announce' \in [AnnounceThread -> Handled \cup {NoAnnounce}]
    BY <1>1, <1>3 DEF DiscoveryTypeOK
  <2>2. discovered_devices' \in [Dest -> Device \cup {Unknown}]
    BY <1>1, <1>2 DEF DiscoveryTypeOK
  <2> QED BY <1>1, <2>1, <2>2 DEF DiscoveryTypeOK
<1>8. Stored' = Stored BY <1>1 DEF Stored
<1>9. Discovered' = Discovered \cup {d} BY <1>2, <1>4, <1>6 DEF Discovered
<1>10. OwnerInv' BY <1>1, <1>3, <1>4, <1>5, <1>8 DEF DiscoveryInv, OwnerInv
<1>11. MessageInv' BY <1>1, MessageStays DEF DiscoveryInv
<1>12. StyreneInv'
  <2>1. ASSUME NEW s \in AnnounceThread, announce'[s] # NoAnnounce
        PROVE  /\ announce'[s].dest[2] = "operator" => announce'[s].device.type = "styrene"
               /\ announce'[s].at = "compare" => announce'[s].dest[2] = "delivery"
               /\ announce'[s].operator => <<announce'[s].dest[1], "operator">> \in announce'[s].devices
    <3>1. CASE s = t BY <1>3, <1>4, <1>5, <3>1
    <3>2. CASE s # t BY <1>5, <2>1, <3>2 DEF DiscoveryInv, StyreneInv
    <3> QED BY <3>1, <3>2
  <2>2. ASSUME NEW e \in Discovered', e[2] = "operator" PROVE discovered_devices'[e].type = "styrene"
    <3>1. e \in Dest BY DEF Discovered
    <3>2. CASE e = d BY <1>4, <1>6, <2>2, <3>1, <3>2
    <3>3. CASE e # d BY <1>6, <1>9, <2>2, <3>1, <3>3 DEF DiscoveryInv, StyreneInv
    <3> QED BY <3>2, <3>3
  <2> QED BY <2>1, <2>2 DEF StyreneInv
<1>13. StyreneStaysStyrene'
  <2>1. ASSUME NEW s \in AnnounceThread, announce'[s].at \in {"keep", "save"}, announce'[s].operator
        PROVE  announce'[s].device.type = "styrene"
    <3>1. CASE s = t BY <1>3, <1>4, <1>5, <2>1, <3>1
    <3>2. CASE s # t BY <1>5, <2>1, <3>2 DEF DiscoveryInv, StyreneStaysStyrene
    <3> QED BY <3>1, <3>2
  <2> QED BY <2>1 DEF StyreneStaysStyrene
<1>14. StoreInv'
  <2>1. \A s \in AnnounceThread, e \in Dest :
            Saves(s, e) => Saves(s, e)' /\ announce'[s].device = announce[s].device
    BY <1>1, <1>5 DEF Saves
  <2>3. ASSUME NEW e \in Discovered' \ unsaved
        PROVE  /\ e \in Stored \/ \E s \in AnnounceThread : Saves(s, e)'
               /\ discovered_devices'[e].via =>
                     \/ e \in Stored /\ nodes[e].via
                     \/ \E s \in AnnounceThread : Saves(s, e)' /\ announce'[s].device.via
    <3>1. e \in Dest BY DEF Discovered
    <3>2. CASE e = d
      <4>1. discovered_devices'[e] = a.device BY <1>6, <3>1, <3>2
      <4>2. Saves(t, e)' /\ announce'[t].device = a.device BY <1>3, <1>5, <3>2 DEF Saves
      <4> HIDE DEF Saves, a
      <4> QED BY <4>1, <4>2
    <3>3. CASE e # d
      <4>1. e \in Discovered \ unsaved /\ discovered_devices'[e] = discovered_devices[e]
        BY <1>6, <1>9, <3>1, <3>3
      <4>2. /\ e \in Stored \/ \E s \in AnnounceThread : Saves(s, e)
            /\ discovered_devices[e].via =>
                  \/ e \in Stored /\ nodes[e].via
                  \/ \E s \in AnnounceThread : Saves(s, e) /\ announce[s].device.via
        BY <4>1 DEF DiscoveryInv, StoreInv
      <4> QED BY <2>1, <3>1, <4>1, <4>2
    <3> QED BY <3>2, <3>3
  <2> QED BY <1>1, <1>8, <2>3 DEF StoreInv
<1> QED BY <1>7, <1>10, <1>11, <1>12, <1>13, <1>14 DEF DiscoveryInv

\* A row that is written keeps the interface that is known, and its owner.
LEMMA UpsertKeeps ==
  ASSUME DiscoveryTypeOK, OwnerInv, NEW d \in Dest, NEW x \in Device, Upsert(d, x),
         x.identity \in {d[1], "placeholder"}
  PROVE  /\ nodes' \in [Dest -> Device \cup {Unknown}]
         /\ \A e \in Stored' : nodes'[e].identity \in {e[1], "placeholder"}
         /\ Stored' = Stored \cup {d}
         /\ \A e \in Stored : nodes[e].via => nodes'[e].via
         /\ x.via => nodes'[d].via
<1> DEFINE v == x.via \/ (nodes[d] # Unknown /\ nodes[d].via)
           y == [x EXCEPT !.via = v]
<1>1. v \in BOOLEAN
  <2>1. x.via \in BOOLEAN BY DeviceParts
  <2>2. nodes[d] # Unknown => nodes[d].via \in BOOLEAN
    <3>1. nodes[d] \in Device \cup {Unknown} BY DEF DiscoveryTypeOK
    <3> QED BY <3>1, DeviceParts
  <2> QED BY <2>1, <2>2
<1>2. nodes' = [nodes EXCEPT ![d] = y] BY DEF Upsert
<1> HIDE DEF v
<1>3. y \in Device /\ y.identity = x.identity /\ y.via = v /\ y # Unknown
  <2>1. y \in Device /\ y.identity = x.identity /\ y.via = v BY <1>1 DEF Device
  <2> HIDE DEF y
  <2> QED BY <2>1, DeviceParts
<1> HIDE DEF y
<1>4. nodes' \in [Dest -> Device \cup {Unknown}] BY <1>2, <1>3 DEF DiscoveryTypeOK
<1>5. \A e \in Dest : nodes'[e] = IF e = d THEN y ELSE nodes[e] BY <1>2 DEF DiscoveryTypeOK
<1>6. Stored' = Stored \cup {d} BY <1>3, <1>5 DEF Stored
<1>7. \A e \in Stored' : nodes'[e].identity \in {e[1], "placeholder"}
  BY <1>3, <1>5, <1>6 DEF OwnerInv, Stored
<1>8. \A e \in Stored : nodes[e].via => nodes'[e].via
  BY <1>3, <1>5 DEF Stored, v
<1>9. x.via => nodes'[d].via BY <1>3, <1>5 DEF v
<1> QED BY <1>4, <1>6, <1>7, <1>8, <1>9

\* The announce is over: its device is in the store, or is unsaved.
LEMMA SaveStep ==
  ASSUME DiscoveryTypeOK, DiscoveryInv, NEW t \in AnnounceThread, Save(t)
  PROVE  DiscoveryTypeOK' /\ DiscoveryInv'
<1> DEFINE a == announce[t]
           d == a.dest
<1>1. /\ a.at = "save" /\ a # NoAnnounce
      /\ announce' = [announce EXCEPT ![t] = NoAnnounce]
      /\ UNCHANGED <<discovered_devices, remembered, heard, starts, message>>
  BY DEF Save, NoAnnounce
<1>2. a \in Handled /\ d \in Dest /\ a.device \in Device
  BY <1>1, HandledParts
<1>3. a.device.identity = d[1] BY <1>1 DEF DiscoveryInv, OwnerInv
<1>4. \A s \in AnnounceThread : announce'[s] = IF s = t THEN NoAnnounce ELSE announce[s]
  BY <1>1 DEF DiscoveryTypeOK
<1>5. Discovered' = Discovered /\ Discovered \subseteq Dest BY <1>1 DEF Discovered
<1>6. \A s \in AnnounceThread, e \in Dest :
          Saves(s, e) /\ s # t => Saves(s, e)' /\ announce'[s].device = announce[s].device
  BY <1>4 DEF Saves
<1>7. \A e \in Dest : Saves(t, e) => e = d BY DEF Saves
<1>8. \/ Upsert(d, a.device) /\ unsaved' = unsaved
      \/ unsaved' = unsaved \cup {d} /\ nodes' = nodes
  BY DEF Save
<1>9. /\ nodes' \in [Dest -> Device \cup {Unknown}] /\ unsaved' \subseteq Dest
      /\ \A e \in Stored' : nodes'[e].identity \in {e[1], "placeholder"}
      /\ Stored \subseteq Stored' /\ unsaved \subseteq unsaved'
      /\ \A e \in Stored : nodes[e].via => nodes'[e].via
      /\ d \in unsaved' \/ (d \in Stored' /\ (a.device.via => nodes'[d].via))
  <2> DEFINE x == a.device
  <2>1. x \in Device /\ x.identity \in {d[1], "placeholder"} /\ OwnerInv
    BY <1>2, <1>3 DEF DiscoveryInv
  <2>2. CASE Upsert(d, x) /\ unsaved' = unsaved
    <3> HIDE DEF x, d
    <3>1. d \in Dest BY <1>2 DEF d
    <3>2. /\ nodes' \in [Dest -> Device \cup {Unknown}]
          /\ \A e \in Stored' : nodes'[e].identity \in {e[1], "placeholder"}
          /\ Stored' = Stored \cup {d}
          /\ \A e \in Stored : nodes[e].via => nodes'[e].via
          /\ x.via => nodes'[d].via
      BY <2>1, <2>2, <3>1, UpsertKeeps
    <3> QED BY <2>2, <3>1, <3>2 DEF x, d, DiscoveryTypeOK
  <2>3. CASE unsaved' = unsaved \cup {d} /\ nodes' = nodes
    <3>1. Stored' = Stored BY <2>3 DEF Stored
    <3>2. unsaved' \subseteq Dest /\ nodes' \in [Dest -> Device \cup {Unknown}]
      BY <1>2, <2>3 DEF DiscoveryTypeOK
    <3> QED BY <2>1, <2>3, <3>1, <3>2 DEF OwnerInv
  <2> QED BY <1>8, <2>2, <2>3
<1>10. DiscoveryTypeOK'
  <2>1. announce' \in [AnnounceThread -> Handled \cup {NoAnnounce}]
    BY <1>1 DEF DiscoveryTypeOK
  <2> QED BY <1>1, <1>9, <2>1 DEF DiscoveryTypeOK
<1>11. OwnerInv' BY <1>4, <1>9 DEF DiscoveryInv, OwnerInv
<1>12. MessageInv' BY <1>1, MessageStays DEF DiscoveryInv
<1>13. StyreneInv'
  BY <1>1, <1>4, <1>5 DEF DiscoveryInv, StyreneInv
<1>14. StyreneStaysStyrene'
  BY <1>4 DEF DiscoveryInv, StyreneStaysStyrene, NoAnnounce
<1>15. StoreInv'
  <2>1. ASSUME NEW e \in Discovered \ unsaved'
        PROVE  /\ e \in Stored' \/ \E s \in AnnounceThread : Saves(s, e)'
               /\ discovered_devices[e].via =>
                     \/ e \in Stored' /\ nodes'[e].via
                     \/ \E s \in AnnounceThread : Saves(s, e)' /\ announce'[s].device.via
    <3>1. e \in Dest /\ e \in Discovered \ unsaved BY <1>5, <1>9
    <3>2. e \in Stored \/ \E s \in AnnounceThread : Saves(s, e)
      BY <3>1 DEF DiscoveryInv, StoreInv
    <3>3. discovered_devices[e].via =>
                  \/ e \in Stored /\ nodes[e].via
                  \/ \E s \in AnnounceThread : Saves(s, e) /\ announce[s].device.via
      BY <3>1 DEF DiscoveryInv, StoreInv
    <3>4. Saves(t, e) => e \in Stored' /\ (a.device.via => nodes'[e].via)
      BY <1>7, <1>9, <2>1, <3>1
    <3>5. e \in Stored' \/ \E s \in AnnounceThread : Saves(s, e)'
      BY <1>6, <1>9, <3>1, <3>2, <3>4
    <3>6. ASSUME discovered_devices[e].via
          PROVE  \/ e \in Stored' /\ nodes'[e].via
                 \/ \E s \in AnnounceThread : Saves(s, e)' /\ announce'[s].device.via
      <4>1. CASE e \in Stored /\ nodes[e].via BY <1>9, <4>1
      <4>2. ASSUME NEW s \in AnnounceThread, Saves(s, e), announce[s].device.via
            PROVE  \/ e \in Stored' /\ nodes'[e].via
                   \/ \E r \in AnnounceThread : Saves(r, e)' /\ announce'[r].device.via
        <5>1. CASE s = t BY <3>4, <4>2, <5>1
        <5>2. CASE s # t BY <1>6, <3>1, <4>2, <5>2
        <5> QED BY <5>1, <5>2
      <4> QED BY <3>3, <3>6, <4>1, <4>2
    <3> QED BY <3>5, <3>6
  <2> QED BY <1>1, <1>5, <2>1 DEF StoreInv
<1> QED BY <1>10, <1>11, <1>12, <1>13, <1>14, <1>15 DEF DiscoveryInv

\* The hub's row says nothing of its owner, and keeps the interface.
LEMMA HubStep ==
  ASSUME DiscoveryTypeOK, DiscoveryInv, HubIsStored
  PROVE  DiscoveryTypeOK' /\ DiscoveryInv'
<1> DEFINE x == [type |-> "hub", lxmf |-> FALSE, via |-> FALSE, identity |-> "placeholder"]
<1>1. /\ Upsert(HubDest, x)
      /\ UNCHANGED <<discovered_devices, remembered, unsaved, announce, heard, starts, message>>
  BY DEF HubIsStored
<1>2. x \in Device /\ x.identity = "placeholder" /\ HubDest \in Dest
  BY DiscoveryAssumption DEF Device, HubDest, Dest
<1> HIDE DEF x
<1>3. /\ nodes' \in [Dest -> Device \cup {Unknown}]
      /\ \A e \in Stored' : nodes'[e].identity \in {e[1], "placeholder"}
      /\ Stored' = Stored \cup {HubDest}
      /\ \A e \in Stored : nodes[e].via => nodes'[e].via
  <2>1. x.identity \in {HubDest[1], "placeholder"} /\ OwnerInv BY <1>2 DEF DiscoveryInv
  <2> QED BY <1>1, <1>2, <2>1, UpsertKeeps
<1>4. Discovered' = Discovered BY <1>1 DEF Discovered
<1>5. DiscoveryTypeOK' BY <1>1, <1>3 DEF DiscoveryTypeOK
<1>6. OwnerInv' BY <1>1, <1>3 DEF DiscoveryInv, OwnerInv
<1>7. MessageInv' BY <1>1, MessageStays DEF DiscoveryInv
<1>8. StyreneInv' /\ StyreneStaysStyrene'
  BY <1>1, <1>4 DEF DiscoveryInv, StyreneInv, StyreneStaysStyrene
<1>9. StoreInv'
  <2>1. Stored \subseteq Stored' BY <1>3
  <2> QED BY <1>1, <1>3, <1>4, <2>1 DEF DiscoveryInv, StoreInv, Saves
<1> QED BY <1>5, <1>6, <1>7, <1>8, <1>9 DEF DiscoveryInv

\* After a restart nobody is discovered and nothing is under way.
LEMMA RestartStep ==
  ASSUME DiscoveryTypeOK, DiscoveryInv, Restart
  PROVE  DiscoveryTypeOK' /\ DiscoveryInv'
<1>1. /\ discovered_devices' = [d \in Dest |-> Unknown]
      /\ announce' = [t \in AnnounceThread |-> NoAnnounce]
      /\ remembered' \subseteq remembered /\ message' = NoMessage
      /\ starts < MaxStarts /\ starts' = starts + 1
      /\ UNCHANGED <<nodes, unsaved, heard>>
  BY DEF Restart
<1>2. Discovered' = {} /\ Stored' = Stored BY <1>1 DEF Discovered, Stored
<1>3. \A t \in AnnounceThread : announce'[t] = NoAnnounce BY <1>1
<1>4. DiscoveryTypeOK'
  <2>1. starts' \in 0..MaxStarts BY <1>1, DiscoveryAssumption DEF DiscoveryTypeOK
  <2>2. announce' \in [AnnounceThread -> Handled \cup {NoAnnounce}] BY <1>1
  <2>3. discovered_devices' \in [Dest -> Device \cup {Unknown}] BY <1>1
  <2>4. remembered' \subseteq Dest BY <1>1 DEF DiscoveryTypeOK
  <2> QED BY <1>1, <2>1, <2>2, <2>3, <2>4 DEF DiscoveryTypeOK
<1>5. OwnerInv' BY <1>1, <1>2, <1>3 DEF DiscoveryInv, OwnerInv
<1>6. MessageInv' BY <1>1 DEF MessageInv
<1>7. StyreneInv' /\ StoreInv' BY <1>2, <1>3 DEF StyreneInv, StoreInv
<1>8. StyreneStaysStyrene' BY <1>3 DEF StyreneStaysStyrene, NoAnnounce
<1> QED BY <1>4, <1>5, <1>6, <1>7, <1>8 DEF DiscoveryInv

LEMMA DiscoveryStep ==
  ASSUME DiscoveryTypeOK, DiscoveryInv, [DiscoveryNext]_discoveryVars
  PROVE  DiscoveryTypeOK' /\ DiscoveryInv'
<1>1. CASE UNCHANGED discoveryVars
  BY <1>1 DEF discoveryVars, DiscoveryTypeOK, DiscoveryInv, OwnerInv, MessageInv, StyreneInv,
     StyreneStaysStyrene, StoreInv, Saves, Discovered, Stored
<1> QED
  BY <1>1, ReceivedStep, CompareStep, KeepStep, SaveStep, HubStep, RestartStep, SendKeeps
  DEF DiscoveryNext

\* What the invariant says of the properties.
LEMMA DiscoveryFollows ==
  DiscoveryTypeOK /\ DiscoveryInv => DiscoveredIsStored /\ StyreneStaysStyrene /\ SentToOwner
<1> SUFFICES ASSUME DiscoveryTypeOK, DiscoveryInv
             PROVE  DiscoveredIsStored /\ StyreneStaysStyrene /\ SentToOwner
  OBVIOUS
<1>1. DiscoveredIsStored
  BY DEF DiscoveryInv, StoreInv, Saves, DiscoveredIsStored
<1>2. SentToOwner BY DEF DiscoveryInv, MessageInv, SentToOwner
<1> QED BY <1>1, <1>2 DEF DiscoveryInv

LEMMA DiscoveryInvariant == DiscoverySpec => [](DiscoveryTypeOK /\ DiscoveryInv)
<1> QED BY DiscoveryStart, DiscoveryStep, PTL DEF DiscoverySpec

\* Whoever is discovered is in the store, with the interface that is known, once no thread is
\* about to save it, and unless that has failed; whatever the order of two announces' saves.
THEOREM DiscoveriesAreStored == DiscoverySpec => []DiscoveredIsStored
<1> QED BY DiscoveryInvariant, DiscoveryFollows, PTL

\* A message the node sends goes to the owner of the destination, or nowhere.
THEOREM MessagesGoToTheirOwner == DiscoverySpec => []SentToOwner
<1> QED BY DiscoveryInvariant, DiscoveryFollows, PTL

-----------------------------------------------------------------------------
(* The node.                                                                 *)

\* The invariants of the node's modules, each with its types.
NodeInv ==
    /\ LimiterInv /\ HubTypeOK /\ SightInv
    /\ ServicesTypeOK /\ FlapInv /\ ServicesInv
    /\ BlocksTypeOK /\ BlocksInv
    /\ DiscoveryTypeOK /\ DiscoveryInv
    /\ PolicyTypeOK /\ SaidInv /\ CacheInv
    /\ CallInv

\* Every module starts as it does alone.
LEMMA NodeStarts ==
  MCInit => HubInit /\ ServicesInit /\ BlocksInit /\ DiscoveryInit /\ PolicyInit /\ Init
BY DEF MCInit

LEMMA NodeStart == MCInit => NodeInv
<1> SUFFICES ASSUME MCInit PROVE NodeInv
  OBVIOUS
<1>1. LimiterInv /\ HubTypeOK /\ SightInv BY NodeStarts, HubTypesStart, SightInit
<1>2. ServicesTypeOK /\ FlapInv /\ ServicesInv BY NodeStarts, TypesInit, FlapInit, ServicesStart
<1>3. BlocksTypeOK /\ BlocksInv BY NodeStarts, BlocksStart
<1>4. DiscoveryTypeOK /\ DiscoveryInv BY NodeStarts, DiscoveryStart
<1>5. PolicyTypeOK /\ SaidInv /\ CacheInv BY NodeStarts, PolicyStart, CacheInit
<1>6. CallInv BY NodeStarts, InitCall
<1> QED BY <1>1, <1>2, <1>3, <1>4, <1>5, <1>6 DEF NodeInv

\* A step of the node is one of each module, or leaves it alone.
LEMMA NodeSteps ==
  [MCNext]_MCVars =>
      /\ [HubNext]_allHubVars /\ [ServicesNext]_servicesVars /\ [BlocksNext]_blocksVars
      /\ [DiscoveryNext]_discoveryVars /\ [PolicyNext]_policyVars /\ [Next]_vars
BY DEF MCNext, MCVars

LEMMA NodeStep ==
  ASSUME NodeInv, [MCNext]_MCVars
  PROVE  NodeInv'
<1> USE NodeSteps DEF NodeInv
<1>1. (LimiterInv /\ HubTypeOK /\ SightInv)' BY HubTypesStep, SightStep
<1>2. (ServicesTypeOK /\ FlapInv /\ ServicesInv)' BY TypesStep, FlapStep, ServicesStep
<1>3. (BlocksTypeOK /\ BlocksInv)' BY BlocksStep
<1>4. (DiscoveryTypeOK /\ DiscoveryInv)' BY DiscoveryStep
<1>5. (PolicyTypeOK /\ SaidInv /\ CacheInv)' BY PolicyStepKeeps, CacheStep
<1>6. CallInv' BY NextCall
<1> QED BY <1>1, <1>2, <1>3, <1>4, <1>5, <1>6

LEMMA NodeInvariant == MCSpec => []NodeInv
<1> QED BY NodeStart, NodeStep, PTL DEF MCSpec

\* The state of all the node's modules has its types.
THEOREM NodeTypes == MCSpec => []NodeTypeOK
<1>1. NodeInv => NodeTypeOK BY DEF NodeInv, NodeTypeOK, CallInv
<1> QED BY <1>1, NodeInvariant, PTL

\* What the node reports was so when it last looked, what it discovers is in its store, and
\* its policy says the same on every way, for any hub, interfaces, announces and members.
THEOREM NodeReportsAreTrue == MCSpec => []ReportsAreTrue
<1>1. NodeInv => ReportsAreTrue
  <2> SUFFICES ASSUME NodeInv PROVE ReportsAreTrue
    OBVIOUS
  <2>1. ConnectedWasSeen BY SeenIsReported DEF NodeInv
  <2>2. OfflineIsKnown BY DEF NodeInv, ServicesInv
  <2>3. DiscoveredIsStored /\ StyreneStaysStyrene BY DiscoveryFollows DEF NodeInv
  <2>4. ListsAreCurrent BY DEF NodeInv, CacheInv
  <2>5. ListsAgree BY ListsFollow DEF NodeInv
  <2>6. PolicyReadsBack BY TypesReadBack DEF NodeInv
  <2>7. AddedMayRead BY MonitorsRead DEF NodeInv
  <2> QED BY <2>1, <2>2, <2>3, <2>4, <2>5, <2>6, <2>7 DEF ReportsAreTrue
<1> QED BY <1>1, NodeInvariant, PTL

\* What is sent to the node finds the destination it last announced, what it sends goes to the
\* owner of the destination, and whom the database blocks, and nobody else, is blocked.
THEOREM NodeDeliveryIsRight == MCSpec => []DeliveryIsRight
<1>1. NodeInv => DeliveryIsRight
  <2> SUFFICES ASSUME NodeInv PROVE DeliveryIsRight
    OBVIOUS
  <2>1. NoStaleDelivery BY DEF NodeInv, ServicesInv
  <2>2. SentToOwner BY DiscoveryFollows DEF NodeInv
  <2>3. BlocksSurvive /\ NothingElseBlocked /\ BlockedIsDropped BY BlocksFollow DEF NodeInv
  <2> QED BY <2>1, <2>2, <2>3 DEF DeliveryIsRight
<1> QED BY <1>1, NodeInvariant, PTL
===============================================================================
