--------------------------- MODULE PrincipalsProofs ---------------------------
(***************************************************************************)
(* What module Principals guarantees for any names and whatever a token    *)
(* says under its keys.                                                    *)
(***************************************************************************)
EXTENDS Principals, WellFoundedInduction, TLAPS

-----------------------------------------------------------------------------
(* Lists one after the other.                                              *)

LEMMA WhatIsJoined ==
  ASSUME NEW lists
  PROVE  Range(Joined(lists)) = UNION {Range(lists[i]) : i \in DOMAIN lists}
<1> DEFINE places == UNION {{i} \X DOMAIN lists[i] : i \in DOMAIN lists}
<1>1. Joined(lists) = [p \in places |-> lists[p[1]][p[2]]]
  BY DEF Joined
<1>2. ASSUME NEW x \in Range(Joined(lists))
      PROVE  \E i \in DOMAIN lists : x \in Range(lists[i])
  <2>1. PICK p \in places : x = lists[p[1]][p[2]]
    BY <1>1, <1>2 DEF Range
  <2>2. PICK i \in DOMAIN lists : p \in {i} \X DOMAIN lists[i]
    BY <2>1
  <2>3. p[1] = i /\ p[2] \in DOMAIN lists[i]
    BY <2>2
  <2> QED BY <2>1, <2>3 DEF Range
<1>3. ASSUME NEW i \in DOMAIN lists, NEW x \in Range(lists[i])
      PROVE  x \in Range(Joined(lists))
  <2>1. PICK j \in DOMAIN lists[i] : x = lists[i][j]
    BY <1>3 DEF Range
  <2>2. <<i, j>> \in places /\ Joined(lists)[<<i, j>>] = x
    BY <1>1, <2>1
  <2> QED BY <1>1, <2>2 DEF Range
<1> QED BY <1>2, <1>3

LEMMA WhereJoined ==
  ASSUME NEW lists, NEW p \in DOMAIN Joined(lists)
  PROVE  \E i \in DOMAIN lists : \E j \in DOMAIN lists[i] : p = <<i, j>>
<1> DEFINE places == UNION {{i} \X DOMAIN lists[i] : i \in DOMAIN lists}
<1>1. PICK i \in DOMAIN lists : p \in {i} \X DOMAIN lists[i]
  BY DEF Joined
<1> QED BY <1>1

-----------------------------------------------------------------------------
(* Places: one of any two comes before the other, and any set of them has  *)
(* a first.                                                                *)

Places == Nat \X (Nat \X Nat)

LEMMA OneIsBefore ==
  ASSUME NEW p \in Places, NEW q \in Places, p # q
  PROVE  Before(p, q) \/ Before(q, p)
<1>1. PICK a \in Nat, b \in Nat, c \in Nat : p = <<a, <<b, c>>>>
  BY DEF Places
<1>2. PICK d \in Nat, e \in Nat, f \in Nat : q = <<d, <<e, f>>>>
  BY DEF Places
<1>3. a # d \/ b # e \/ c # f
  BY <1>1, <1>2
<1> QED BY <1>1, <1>2, <1>3 DEF Before

LEMMA LeastNatural ==
  ASSUME NEW S \in SUBSET Nat, S # {}
  PROVE  \E x \in S : \A y \in S : x <= y
<1>1. PICK x \in S : \A y \in S : ~(<<y, x>> \in OpToRel(<, Nat))
  BY NatLessThanWellFounded, WFMin, Zenon
<1>2. ASSUME NEW y \in S PROVE x <= y
  <2>1. <<y, x>> \in Nat \X Nat /\ ~(y < x)
    BY <1>1 DEF OpToRel
  <2> QED BY <2>1
<1> QED BY <1>2

LEMMA FirstPlace ==
  ASSUME NEW S \in SUBSET Places, S # {}
  PROVE  \E p \in S : \A q \in S : ~Before(q, p)
<1>1. \A p \in S : p[1] \in Nat /\ p[2][1] \in Nat /\ p[2][2] \in Nat
  BY DEF Places
<1>2. PICK k \in Nat : (\E p \in S : p[1] = k) /\ \A p \in S : k <= p[1]
  <2>1. PICK T : T = {p[1] : p \in S}
    OBVIOUS
  <2>2. T \in SUBSET Nat /\ T # {}
    BY <1>1, <2>1
  <2>3. PICK least \in T : \A y \in T : least <= y
    BY <2>2, LeastNatural
  <2> QED BY <2>1, <2>2, <2>3
<1>3. PICK inKey : inKey = {p \in S : p[1] = k}
  OBVIOUS
<1>4. PICK i \in Nat : (\E p \in inKey : p[2][1] = i) /\ \A p \in inKey : i <= p[2][1]
  <2>1. PICK T : T = {p[2][1] : p \in inKey}
    OBVIOUS
  <2>2. T \in SUBSET Nat /\ T # {}
    BY <1>1, <1>2, <1>3, <2>1
  <2>3. PICK least \in T : \A y \in T : least <= y
    BY <2>2, LeastNatural
  <2> QED BY <2>1, <2>2, <2>3
<1>5. PICK inEntry : inEntry = {p \in inKey : p[2][1] = i}
  OBVIOUS
<1>6. PICK j \in Nat : (\E p \in inEntry : p[2][2] = j) /\ \A p \in inEntry : j <= p[2][2]
  <2>1. PICK T : T = {p[2][2] : p \in inEntry}
    OBVIOUS
  <2>2. T \in SUBSET Nat /\ T # {}
    BY <1>1, <1>3, <1>4, <1>5, <2>1
  <2>3. PICK least \in T : \A y \in T : least <= y
    BY <2>2, LeastNatural
  <2> QED BY <2>1, <2>2, <2>3
<1>7. PICK p \in inEntry : p[2][2] = j
  BY <1>6
<1>8. p \in S /\ p[1] = k /\ p[2][1] = i
  BY <1>3, <1>5, <1>7
<1>9. ASSUME NEW q \in S, Before(q, p) PROVE FALSE
  <2>1. k <= q[1]
    BY <1>2
  <2>2. q[1] = k => i <= q[2][1]
    BY <1>3, <1>4
  <2>3. q[1] = k /\ q[2][1] = i => j <= q[2][2]
    BY <1>3, <1>5, <1>6
  <2> QED BY <1>1, <1>7, <1>8, <1>9, <2>1, <2>2, <2>3 DEF Before
<1> QED BY <1>8, <1>9

-----------------------------------------------------------------------------
(* Roles.                                                                  *)

LEMMA KeysAreAList == DOMAIN Keys \subseteq Nat /\ KeySet = {Keys[k] : k \in DOMAIN Keys}
BY DEF Keys, KeySet, Range

LEMMA EntrySays ==
  ASSUME NEW e \in Entries
  PROVE  Range(RolesOfEntry(e)) = Says(e) /\ DOMAIN RolesOfEntry(e) \subseteq Nat
<1>1. e.names \in Seq(Names)
  BY DEF Entries
<1>2. CASE e.object
  BY <1>2 DEF RolesOfEntry, Says, Range
<1>3. CASE ~e.object
  <2>1. RolesOfEntry(e) = [i \in DOMAIN e.names |-> <<e.names[i]>>]
    BY <1>3 DEF RolesOfEntry
  <2>2. Says(e) = {<<n>> : n \in {e.names[i] : i \in DOMAIN e.names}}
    BY <1>3 DEF Says, Range
  <2>3. DOMAIN e.names \subseteq Nat
    BY <1>1
  <2> QED BY <2>1, <2>2, <2>3 DEF Range
<1> QED BY <1>2, <1>3

Saying(c) == \A k \in KeySet : c.says[k] \in Seq(Entries)

LEMMA WhatIsSaid ==
  ASSUME NEW c, Saying(c)
  PROVE  /\ DOMAIN AllRoles(c) \subseteq Places
         /\ Range(AllRoles(c)) \ {<<>>} = SaidRoles(c)
<1> DEFINE lists == [k \in DOMAIN Keys |-> ExtractRoleValue(c.says[Keys[k]])]
           roles(k) == [i \in DOMAIN c.says[k] |-> RolesOfEntry(c.says[k][i])]
<1>1. AllRoles(c) = Joined(lists)
  BY DEF AllRoles
<1>2. ASSUME NEW k \in KeySet
      PROVE  /\ DOMAIN c.says[k] \subseteq Nat
             /\ \A i \in DOMAIN c.says[k] : c.says[k][i] \in Entries
  BY DEF Saying
<1>3. ASSUME NEW k \in KeySet
      PROVE  /\ DOMAIN ExtractRoleValue(c.says[k]) \subseteq Nat \X Nat
             /\ Range(ExtractRoleValue(c.says[k])) = UNION {Says(e) : e \in Range(c.says[k])}
  <2>1. ExtractRoleValue(c.says[k]) = Joined(roles(k))
    BY DEF ExtractRoleValue
  <2>2. \A i \in DOMAIN roles(k) : roles(k)[i] = RolesOfEntry(c.says[k][i])
    OBVIOUS
  <2>3. DOMAIN roles(k) = DOMAIN c.says[k]
    OBVIOUS
  <2>4. DOMAIN Joined(roles(k)) \subseteq Nat \X Nat
    <3> SUFFICES ASSUME NEW p \in DOMAIN Joined(roles(k)) PROVE p \in Nat \X Nat
      OBVIOUS
    <3>1. PICK i \in DOMAIN roles(k) : \E j \in DOMAIN roles(k)[i] : p = <<i, j>>
      BY WhereJoined
    <3> QED BY <1>2, <2>2, <2>3, <3>1, EntrySays
  <2>5. \A i \in DOMAIN roles(k) : Range(roles(k)[i]) = Says(c.says[k][i])
    BY <1>2, <2>2, <2>3, EntrySays
  <2>6. UNION {Range(roles(k)[i]) : i \in DOMAIN roles(k)}
          = UNION {Says(e) : e \in Range(c.says[k])}
    <3>1. {Range(roles(k)[i]) : i \in DOMAIN roles(k)}
            = {Says(c.says[k][i]) : i \in DOMAIN c.says[k]}
      BY <2>3, <2>5
    <3>2. {Says(e) : e \in {c.says[k][i] : i \in DOMAIN c.says[k]}}
            = {Says(c.says[k][i]) : i \in DOMAIN c.says[k]}
      OBVIOUS
    <3> QED BY <3>1, <3>2 DEF Range
  <2> QED BY <2>1, <2>4, <2>6, WhatIsJoined
<1>4. DOMAIN Joined(lists) \subseteq Places
  <2> SUFFICES ASSUME NEW p \in DOMAIN Joined(lists) PROVE p \in Places
    OBVIOUS
  <2>1. PICK k \in DOMAIN lists : \E j \in DOMAIN lists[k] : p = <<k, j>>
    BY WhereJoined
  <2>2. k \in Nat /\ Keys[k] \in KeySet /\ lists[k] = ExtractRoleValue(c.says[Keys[k]])
    BY <2>1, KeysAreAList
  <2> QED BY <1>3, <2>1, <2>2 DEF Places
<1>5. PICK said : said = [k \in KeySet |-> UNION {Says(e) : e \in Range(c.says[k])}]
  OBVIOUS
<1>6. UNION {Range(lists[k]) : k \in DOMAIN Keys} = UNION {said[k] : k \in KeySet}
  <2>1. \A k \in DOMAIN Keys : Keys[k] \in KeySet /\ Range(lists[k]) = said[Keys[k]]
    BY <1>3, <1>5, KeysAreAList
  <2> HIDE DEF lists
  <2>2. \A k \in KeySet : \E j \in DOMAIN Keys : k = Keys[j]
    BY KeysAreAList
  <2> QED BY <2>1, <2>2
<1>7. Range(Joined(lists)) = UNION {said[k] : k \in KeySet}
  <2>1. DOMAIN lists = DOMAIN Keys
    OBVIOUS
  <2> HIDE DEF lists
  <2> QED BY <1>6, <2>1, WhatIsJoined
<1>8. SaidRoles(c) = (UNION {said[k] : k \in KeySet}) \ {<<>>}
  <2>1. {said[k] : k \in KeySet} = {UNION {Says(e) : e \in Range(c.says[k])} : k \in KeySet}
    BY <1>5
  <2> QED BY <2>1, Zenon DEF SaidRoles
<1> HIDE DEF lists
<1> QED BY <1>1, <1>4, <1>7, <1>8

(* The roles that are kept: those said, each where it is said first.       *)
LEMMA WhatIsKept ==
  ASSUME NEW c, Saying(c)
  PROVE  /\ IsInjective(ExtractRoles(c))
         /\ Range(ExtractRoles(c)) = SaidRoles(c)
<1> DEFINE all == AllRoles(c)
           first == {p \in DOMAIN all :
                       all[p] # <<>> /\ \A q \in DOMAIN all : Before(q, p) => all[q] # all[p]}
<1>1. ExtractRoles(c) = [p \in first |-> all[p]]
  BY DEF ExtractRoles, RestrictDomain, Restrict
<1>2. /\ DOMAIN all \subseteq Places
      /\ Range(all) \ {<<>>} = SaidRoles(c)
  BY WhatIsSaid
<1>3. ASSUME NEW p \in first, NEW q \in first, all[p] = all[q] PROVE p = q
  BY <1>2, <1>3, OneIsBefore
<1>4. IsInjective(ExtractRoles(c))
  BY <1>1, <1>3 DEF IsInjective
<1>5. ASSUME NEW x \in Range(all), x # <<>> PROVE x \in Range(ExtractRoles(c))
  <2>1. PICK S : S = {p \in DOMAIN all : all[p] = x}
    OBVIOUS
  <2>2. S \in SUBSET Places /\ S # {}
    BY <1>2, <1>5, <2>1 DEF Range
  <2>3. PICK p \in S : \A q \in S : ~Before(q, p)
    BY <2>2, FirstPlace
  <2>4. p \in first /\ all[p] = x
    BY <1>5, <2>1, <2>3
  <2> QED BY <1>1, <2>4 DEF Range
<1>6. ASSUME NEW x \in Range(ExtractRoles(c)) PROVE x \in Range(all) \ {<<>>}
  BY <1>1, <1>6 DEF Range
<1> QED BY <1>2, <1>4, <1>5, <1>6

-----------------------------------------------------------------------------
PrincipalInv ==
  /\ claims \in Claims
  /\ principal = NoPrincipal \/
       principal = [verdict |-> Verdict(claims, ExtractRoles(claims)),
                    roles |-> ExtractRoles(claims)]

LEMMA InvariantHolds == TokenSpec => []PrincipalInv
<1>1. TokenInit => PrincipalInv
  BY DEF TokenInit, PrincipalInv
<1>2. PrincipalInv /\ [TokenNext]_tokenVars => PrincipalInv'
  BY DEF PrincipalInv, TokenNext, Verify, tokenVars, NoPrincipal
<1> QED BY <1>1, <1>2, PTL DEF TokenSpec

LEMMA ClaimsSay ==
  ASSUME NEW c \in Claims
  PROVE  Saying(c)
<1>1. PICK f \in [Used -> RoleValues] :
        c.says = [k \in KeySet |-> IF k \in Used THEN f[k] ELSE <<>>]
  BY DEF Claims, Sayings
<1>2. <<>> \in Seq(Entries)
  OBVIOUS
<1> QED BY <1>1, <1>2, PrincipalsAssumption DEF Saying

(* The roles kept for a user are what the token says, each once: which     *)
(* key says it, in which form, and how often, makes no difference.         *)
THEOREM RolesCorrect == TokenSpec => []RolesAreWhatIsSaid
<1>1. PrincipalInv => RolesAreWhatIsSaid
  BY ClaimsSay, WhatIsKept DEF PrincipalInv, RolesAreWhatIsSaid
<1> QED BY <1>1, InvariantHolds, PTL

(* Nobody is let in whom the token forbids or disables, nor by a role it   *)
(* does not say.                                                           *)
THEOREM AdmissionCorrect == TokenSpec => []NobodyIsLetInByDefault
<1>1. PrincipalInv => NobodyIsLetInByDefault
  <2> SUFFICES ASSUME PrincipalInv, principal.verdict \in {"admin", "agent"}
               PROVE  NobodyIsLetInByDefault
    BY DEF NobodyIsLetInByDefault
  <2>1. principal.verdict = Verdict(claims, ExtractRoles(claims))
    BY DEF PrincipalInv, NoPrincipal
  <2>2. /\ claims.subject /\ ExtractStatus(claims) = "active"
        /\ <<principal.verdict>> \in Range(ExtractRoles(claims))
    BY <2>1 DEF Verdict
  <2>3. ~claims.forbidden /\ claims.status \notin {"disabled", "deleted"}
    BY <2>2 DEF ExtractStatus
  <2>4. Range(ExtractRoles(claims)) = SaidRoles(claims)
    BY ClaimsSay, WhatIsKept DEF PrincipalInv
  <2> QED BY <2>2, <2>3, <2>4 DEF NobodyIsLetInByDefault
<1> QED BY <1>1, InvariantHolds, PTL
=============================================================================
