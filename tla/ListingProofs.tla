---------------------------- MODULE ListingProofs ----------------------------
(***************************************************************************)
(* What module Listing guarantees for any users and sandboxes, whatever    *)
(* lists the backend answers with.                                         *)
(***************************************************************************)
EXTENDS Listing, TLAPS

Replies == Objects \cup BareLists \cup {Nothing}

Types ==
  /\ owner \in [SandboxIds -> Subjects \cup {NoOne}]
  /\ pc \in {"idle", "call", "answered", "shown"}
  /\ pc # "idle" => who \in Subjects
  /\ answer \in Replies

(* Rows are not given away while a list is on its way.                     *)
RowsRemain == pc # "idle" => known \subseteq OwnedIds(who)

ListingInv == Types /\ RowsRemain /\ OwnersSeeTheirOwn

-----------------------------------------------------------------------------
LEMMA WhatIsFiltered ==
  ASSUME NEW p, NEW u
  PROVE  /\ Range(OwnedItems(p, u)) \subseteq OwnedIds(u)
         /\ Range(ExtractItems(p)) \cap OwnedIds(u) \subseteq Range(OwnedItems(p, u))
<1> DEFINE list == ExtractItems(p)
           at == {i \in DOMAIN list : list[i] \in OwnedIds(u)}
<1>1. OwnedItems(p, u) = [i \in at |-> list[i]]
  BY DEF OwnedItems, RestrictValues, Restrict
<1>2. ASSUME NEW s \in Range(OwnedItems(p, u)) PROVE s \in OwnedIds(u)
  BY <1>1, <1>2 DEF Range
<1>3. ASSUME NEW s \in Range(list), s \in OwnedIds(u) PROVE s \in Range(OwnedItems(p, u))
  <2>1. PICK i \in DOMAIN list : s = list[i]
    BY <1>3 DEF Range
  <2>2. i \in at
    BY <1>3, <2>1
  <2> QED BY <1>1, <2>1, <2>2 DEF Range
<1> QED BY <1>2, <1>3

LEMMA NothingInAbsent == Range(Absent.of) = {}
BY DEF Absent, Range

(* A documented answer is filtered where its list is, and shown as such.   *)
LEMMA DocumentedIsFiltered ==
  ASSUME NEW a \in Replies, Documented(a), NEW u
  PROVE  LET b == BackendResponse(a, FilterToOwner(Payload(a), u))
         IN  /\ ExtractItems(b) = OwnedItems(a, u)
             /\ IdsShown(b) = Range(OwnedItems(a, u))
             /\ IdsShown(a) = Range(ExtractItems(a))
             /\ b.total # <<>> => b.total = <<Length(OwnedItems(a, u))>>
<1> DEFINE f == OwnedItems(a, u)
           p == FilterToOwner(a, u)
           b == BackendResponse(a, FilterToOwner(Payload(a), u))
<1>1. a \in Objects
  <2>1. Nothing \in Objects
    BY ListingAssumption DEF Nothing, Objects
  <2>2. ASSUME NEW v \in Values, v.kind = "list", a = [Nothing EXCEPT !.bare = v]
        PROVE  FALSE
    <3>1. a.bare = v
      BY <2>2 DEF Nothing
    <3> QED BY <2>2, <3>1 DEF Documented, Absent
  <2> QED BY <2>1, <2>2 DEF Replies, BareLists
<1>2. Payload(a) = a /\ HasItems(a) /\ a.labelled
  BY <1>1 DEF Payload, HasItems, Documented
<1>3. p = [a EXCEPT !.items = IF @ # Absent THEN ListOf(f) ELSE @,
                    !.sandboxes = IF a.items = Absent /\ @ # Absent THEN ListOf(f) ELSE @,
                    !.total = IF @ # <<>> THEN <<Length(f)>> ELSE @]
  BY <1>2 DEF FilterToOwner
<1>4. /\ ListOf(f).kind = "list" /\ ListOf(f).of = f
      /\ ListOf(f) # Absent /\ Absent.kind = "absent"
  BY DEF ListOf, Absent
<1>5. /\ p.data = Absent /\ p.bare = Absent
      /\ p.total # <<>> => p.total = <<Length(f)>>
  BY <1>1, <1>3 DEF Objects, Documented
<1>6. CASE a.items.kind = "list" /\ a.sandboxes = Absent
  <2>1. p.items = ListOf(f) /\ p.sandboxes = Absent
    BY <1>1, <1>3, <1>4, <1>6 DEF Objects
  <2>2. b = p
    BY <1>2, <1>4, <2>1 DEF BackendResponse, Nothing
  <2> QED BY <1>4, <1>5, <1>6, <2>1, <2>2, NothingInAbsent
          DEF ExtractItems, IdsShown, Documented
<1>7. CASE a.sandboxes.kind = "list" /\ a.items = Absent
  <2>1. p.sandboxes = ListOf(f) /\ p.items = Absent
    BY <1>1, <1>3, <1>4, <1>7 DEF Objects
  <2>2. b = p
    BY <1>2, <1>4, <2>1 DEF BackendResponse, Nothing
  <2> QED BY <1>4, <1>5, <1>7, <2>1, <2>2, NothingInAbsent
          DEF ExtractItems, IdsShown, Documented
<1> QED BY <1>6, <1>7 DEF Documented

-----------------------------------------------------------------------------
LEMMA BeginKeeps == ASSUME ListingInv, NEW u \in Subjects, Begin(u) PROVE ListingInv'
BY DEF ListingInv, Types, RowsRemain, OwnersSeeTheirOwn, Begin, OwnedIds, Replies

LEMMA BackendKeeps ==
  ASSUME ListingInv, BackendFails \/ \E a \in Objects \cup BareLists : BackendLists(a)
  PROVE  ListingInv'
BY DEF ListingInv, Types, RowsRemain, OwnersSeeTheirOwn, BackendFails, BackendLists,
       OwnedIds, Replies

LEMMA FilterKeeps == ASSUME ListingInv, Filter PROVE ListingInv'
<1>1. Types' /\ RowsRemain'
  BY DEF ListingInv, Types, RowsRemain, Filter, OwnedIds
<1>2. CASE Documented(answer)
  <2>1. /\ ExtractItems(shown)' = OwnedItems(answer, who)
        /\ IdsShown(shown)' = Range(OwnedItems(answer, who))
        /\ IdsShown(answer) = Range(ExtractItems(answer))
        /\ shown'.total # <<>> => shown'.total = <<Length(OwnedItems(answer, who))>>
    BY <1>2, DocumentedIsFiltered DEF ListingInv, Types, Filter, ExtractItems, IdsShown
  <2>2. /\ Range(OwnedItems(answer, who)) \subseteq OwnedIds(who)
        /\ Range(ExtractItems(answer)) \cap OwnedIds(who) \subseteq Range(OwnedItems(answer, who))
    BY WhatIsFiltered
  <2>3. known \subseteq OwnedIds(who)
    BY DEF ListingInv, RowsRemain, Filter
  <2>4. UNCHANGED <<owner, who, known, answer>>
    BY DEF Filter
  <2>5. OwnedIds(who)' = OwnedIds(who) /\ IdsShown(answer)' = IdsShown(answer)
    BY <2>4 DEF OwnedIds, IdsShown
  <2>6. OwnersSeeTheirOwn'
    BY <2>1, <2>2, <2>3, <2>4, <2>5 DEF OwnersSeeTheirOwn
  <2> QED BY <1>1, <2>6 DEF ListingInv
<1>3. CASE ~Documented(answer)
  BY <1>1, <1>3 DEF ListingInv, OwnersSeeTheirOwn, Documented, Filter
<1> QED BY <1>2, <1>3

(* Whoever records a create gains a row; nobody loses one.                 *)
LEMMA RecordKeeps ==
  ASSUME ListingInv, NEW u \in Subjects, NEW s \in SandboxIds, RecordCreated(u, s)
  PROVE  ListingInv'
<1>1. UNCHANGED <<pc, who, known, answer, shown>> /\ Types'
  BY DEF RecordCreated, ListingInv, Types
<1>2. who \in Subjects => OwnedIds(who) \subseteq OwnedIds(who)'
  BY <1>1, ListingAssumption DEF RecordCreated, ListingInv, Types, OwnedIds
<1> QED BY <1>1, <1>2
        DEF ListingInv, Types, RowsRemain, OwnersSeeTheirOwn, Documented, IdsShown, ExtractItems

(* A caller is shown the caller's own sandboxes only, all of those the     *)
(* backend listed that were in the index when the request came in, and     *)
(* their number, when the answer is one the documents know.                *)
THEOREM ListsCorrect == Spec => []OwnersSeeTheirOwn
<1>1. Init => ListingInv
  BY DEF Init, ListingInv, Types, RowsRemain, OwnersSeeTheirOwn, OwnedIds, Replies
<1>2. ListingInv /\ [Next]_vars => ListingInv'
  <2> SUFFICES ASSUME ListingInv, [Next]_vars PROVE ListingInv'
    OBVIOUS
  <2>1. CASE UNCHANGED vars
    BY <2>1 DEF vars, ListingInv, Types, RowsRemain, OwnersSeeTheirOwn, OwnedIds, Documented,
                IdsShown, ExtractItems
  <2> QED BY <2>1, BeginKeeps, BackendKeeps, FilterKeeps, RecordKeeps DEF Next
<1> QED BY <1>1, <1>2, PTL DEF Spec, ListingInv
=============================================================================
