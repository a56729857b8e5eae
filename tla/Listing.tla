-------------------------------- MODULE Listing --------------------------------
(***************************************************************************)
(* GET /sandboxes (api/native/sandboxes.py): the backend lists every       *)
(* user's sandboxes, and the control plane leaves in the answer those of   *)
(* the caller (filter_list_payload_to_owner, sandboxes/service.py).  The   *)
(* rows are read after the answer came; creates are recorded meanwhile.    *)
(*                                                                         *)
(* An answer is a JSON object that may have a list under the keys items,   *)
(* sandboxes and data, and a total, or it is a bare list.  A list is kept  *)
(* as a function from the positions its items have in the answer: what the *)
(* filter takes out leaves a gap, which no client sees.                    *)
(***************************************************************************)
EXTENDS Naturals, Sequences, FiniteSets, Functions

CONSTANTS
  Subjects,    \* the users
  SandboxIds,  \* the ids of sandboxes
  NoOne,       \* no user
  NoId,        \* the id of an item that has none
  Values       \* what a key of an answer can hold

Absent == [kind |-> "absent", of |-> <<>>]

ASSUME ListingAssumption ==
  /\ NoOne \notin Subjects
  /\ NoId \notin SandboxIds
  /\ Values \subseteq [kind : {"absent", "other", "list"},
                       of : Seq(SandboxIds \cup {NoId})]
  /\ Absent \in Values

VARIABLES
  owner,   \* the owner of each row of the sandbox index
  pc,      \* how far the request is
  who,     \* its caller
  known,   \* history: the rows of the caller when the request began
  answer,  \* what the backend answered
  shown    \* what the caller is shown

vars == <<owner, pc, who, known, answer, shown>>

(* An optional number is a sequence of at most one.  A bare list leaves    *)
(* the other keys absent; labelled says whether the content type is JSON.  *)
Nothing == [items |-> Absent, sandboxes |-> Absent, data |-> Absent,
            bare |-> Absent, total |-> <<>>, labelled |-> TRUE]
Objects == [items : Values, sandboxes : Values, data : Values, bare : {Absent},
            total : {<<>>, <<9>>}, labelled : BOOLEAN]
BareLists == {[Nothing EXCEPT !.bare = v] : v \in {v \in Values : v.kind = "list"}}

OwnedIds(u) == {s \in SandboxIds : owner[s] = u}

-----------------------------------------------------------------------------
(* Decoding: what is not an object reads as an empty one.                  *)
Payload(a) == IF a.bare = Absent THEN a ELSE Nothing

HasItems(p) == "list" \in {p.items.kind, p.sandboxes.kind, p.data.kind}
ExtractItems(p) ==
  IF p.items.kind = "list" THEN p.items.of
  ELSE IF p.sandboxes.kind = "list" THEN p.sandboxes.of
  ELSE p.data.of

ListOf(ids) == [kind |-> "list", of |-> ids]

OwnedItems(p, u) == RestrictValues(ExtractItems(p), LAMBDA s : s \in OwnedIds(u))
Length(list) == Cardinality(DOMAIN list)

(* Mutant: the filtered list put back under items only.                    *)
FilterToOwner_ItemsOnly(p, u) ==
  LET filtered == OwnedItems(p, u)
  IN IF ~HasItems(p) THEN p
     ELSE [p EXCEPT !.items = IF @ # Absent THEN ListOf(filtered) ELSE @,
                    !.total = IF @ # <<>> THEN <<Length(filtered)>> ELSE @]

FilterToOwner(p, u) ==
  LET filtered == OwnedItems(p, u)
  IN IF ~HasItems(p) THEN p
     ELSE [p EXCEPT !.items = IF @ # Absent THEN ListOf(filtered) ELSE @,
                    !.sandboxes = IF p.items = Absent /\ @ # Absent
                                  THEN ListOf(filtered) ELSE @,
                    !.total = IF @ # <<>> THEN <<Length(filtered)>> ELSE @]

(* Without a payload, or under another content type, the client gets the   *)
(* backend's own bytes.                                                    *)
BackendResponse(a, p) ==
  IF a.labelled /\ p # Nothing THEN p ELSE a

-----------------------------------------------------------------------------
Begin(u) ==
  /\ pc \in {"idle", "shown"}
  /\ pc' = "call" /\ who' = u /\ known' = OwnedIds(u)
  /\ answer' = Nothing /\ shown' = Nothing
  /\ UNCHANGED owner

(* External to the repository.                                             *)
BackendLists(a) ==
  /\ pc = "call"
  /\ pc' = "answered" /\ answer' = a
  /\ UNCHANGED <<owner, who, known, shown>>

(* An error of the backend is passed on, and has no list.                  *)
BackendFails ==
  /\ pc = "call"
  /\ pc' = "idle" /\ who' = NoOne /\ known' = {}
  /\ UNCHANGED <<owner, answer, shown>>

Filter ==
  /\ pc = "answered"
  /\ pc' = "shown"
  /\ shown' = BackendResponse(answer, FilterToOwner(Payload(answer), who))
  /\ UNCHANGED <<owner, who, known, answer>>

(* The row of a sandbox somebody creates meanwhile.                        *)
RecordCreated(u, s) ==
  /\ owner[s] = NoOne
  /\ owner' = [owner EXCEPT ![s] = u]
  /\ UNCHANGED <<pc, who, known, answer, shown>>

Init ==
  /\ owner = [s \in SandboxIds |-> NoOne]
  /\ pc = "idle" /\ who = NoOne /\ known = {}
  /\ answer = Nothing /\ shown = Nothing

Next ==
  \/ \E u \in Subjects :
       \/ Begin(u)
       \/ \E s \in SandboxIds : RecordCreated(u, s)
  \/ \E a \in Objects \cup BareLists : BackendLists(a)
  \/ BackendFails
  \/ Filter

Spec == Init /\ [][Next]_vars

-----------------------------------------------------------------------------
(* Properties.                                                             *)

IdsShown(a) == Range(a.items.of) \cup Range(a.sandboxes.of)
                 \cup Range(a.data.of) \cup Range(a.bare.of)

(* The answers the documents know: JSON with one list, under one of the    *)
(* two keys the filter writes back.  (Under data, under two keys, bare, or *)
(* under another content type the list reaches the caller as it came.)     *)
Documented(a) ==
  /\ a.labelled
  /\ a.data = Absent /\ a.bare = Absent
  /\ \/ a.items.kind = "list" /\ a.sandboxes = Absent
     \/ a.sandboxes.kind = "list" /\ a.items = Absent

(* A caller is shown the caller's own sandboxes only, all of those the     *)
(* backend listed that were in the index when the request came in, and the *)
(* total is their number, whatever creates are recorded meanwhile.         *)
OwnersSeeTheirOwn ==
  pc = "shown" /\ Documented(answer) =>
    /\ IdsShown(shown) \subseteq OwnedIds(who)
    /\ IdsShown(answer) \cap known \subseteq IdsShown(shown)
    /\ shown.total # <<>> => shown.total = <<Length(ExtractItems(shown))>>
=============================================================================
