------------------------------ MODULE Principals ------------------------------
(***************************************************************************)
(* From the claims of a token to a principal (auth/principal.py), and what *)
(* get_current_principal (api/dependencies.py) makes of it.  Roles may be  *)
(* said under ten keys, as a string of names, a list of strings, or a list *)
(* of objects that have a name.  Module Credentials takes the outcome, a   *)
(* status and a role, for granted.                                         *)
(*                                                                         *)
(* The lists of roles are kept as functions from the places where roles    *)
(* are said.  The names of the specification (TokenInit and so on) let it  *)
(* be checked side by side with modules Listing and Proxying.              *)
(***************************************************************************)
EXTENDS Naturals, Sequences, Functions

CONSTANTS
  Names,       \* words a role's name can consist of, "admin" and "agent" included
  RoleValues,  \* what a key that may say roles can hold
  Used         \* bound: the keys that are not empty

Keys == <<"roles", "role", "groups", "permissions",
          "properties.osb_roles", "properties.roles", "properties.role",
          "properties.groups", "properties.permissions", "tag">>
KeySet == Range(Keys)

(* A value is a sequence of entries: strings, split into names, and        *)
(* objects, whose name is taken as one, spaces and all.                    *)
Entries == [object : BOOLEAN, names : Seq(Names)]

ASSUME PrincipalsAssumption == RoleValues \subseteq Seq(Entries)

VARIABLES
  claims,    \* the claims of the token
  principal  \* what they become

tokenVars == <<claims, principal>>

Words == {"", "active", "disabled", "deleted", "other"}
NoPrincipal == [verdict |-> "none", roles |-> <<>>]

Sayings == {[k \in KeySet |-> IF k \in Used THEN f[k] ELSE <<>>] : f \in [Used -> RoleValues]}
Claims == [subject : BOOLEAN, forbidden : BOOLEAN, status : Words, state : Words,
           says : Sayings]

-----------------------------------------------------------------------------
(* Mutant: the flag of a forbidden user not looked at.                     *)
ExtractStatus_NoFlag(c) ==
  LET said == IF c.status # "" THEN c.status ELSE c.state
  IN IF said \in {"active", "disabled", "deleted"} THEN said ELSE "active"

(* The first of status and state that says anything; what is not known is  *)
(* active.                                                                 *)
ExtractStatus(c) ==
  LET said == IF c.status # "" THEN c.status ELSE c.state
  IN IF c.forbidden THEN "disabled"
     ELSE IF said \in {"active", "disabled", "deleted"} THEN said
     ELSE "active"

(* The items of lists, one list after the other: by the place of the list  *)
(* and the place in it.                                                    *)
Joined(lists) == [p \in UNION {{i} \X DOMAIN lists[i] : i \in DOMAIN lists} |->
                    lists[p[1]][p[2]]]

(* A role is the sequence of the words of its name.                        *)
RolesOfEntry(e) == IF e.object THEN <<e.names>>
                   ELSE [i \in DOMAIN e.names |-> <<e.names[i]>>]
ExtractRoleValue(v) == Joined([i \in DOMAIN v |-> RolesOfEntry(v[i])])
AllRoles(c) == Joined([k \in DOMAIN Keys |-> ExtractRoleValue(c.says[Keys[k]])])

(* Places are <<key, <<entry, word>>>>.                                    *)
Before(p, q) ==
  \/ p[1] < q[1]
  \/ p[1] = q[1] /\ p[2][1] < q[2][1]
  \/ p[1] = q[1] /\ p[2][1] = q[2][1] /\ p[2][2] < q[2][2]

(* Mutant: a role repeated when two keys say it.                           *)
ExtractRoles_Repeated(c) == RestrictValues(AllRoles(c), LAMBDA role : role # <<>>)

(* Every key in turn, each role where it is said first, but none without a *)
(* name.                                                                   *)
ExtractRoles(c) ==
  LET all == AllRoles(c)
  IN RestrictDomain(all, LAMBDA p :
       all[p] # <<>> /\ \A q \in DOMAIN all : Before(q, p) => all[q] # all[p])

Verdict(c, roles) ==
  IF ~c.subject THEN "401"
  ELSE IF ExtractStatus(c) # "active" THEN "403"
  ELSE IF <<"admin">> \in Range(roles) THEN "admin"
  ELSE IF <<"agent">> \in Range(roles) THEN "agent"
  ELSE "403"

Verify ==
  /\ principal = NoPrincipal
  /\ LET roles == ExtractRoles(claims)
     IN principal' = [verdict |-> Verdict(claims, roles), roles |-> roles]
  /\ UNCHANGED claims

TokenInit == claims \in Claims /\ principal = NoPrincipal
TokenNext == Verify
TokenSpec == TokenInit /\ [][TokenNext]_tokenVars

-----------------------------------------------------------------------------
(* Properties.                                                             *)

(* What the claims say under any key: the words of a string, the whole     *)
(* name of an object.                                                      *)
Says(e) == IF e.object THEN {e.names} ELSE {<<n>> : n \in Range(e.names)}
SaidRoles(c) == (UNION {UNION {Says(e) : e \in Range(c.says[k])} : k \in KeySet}) \ {<<>>}

(* The roles kept for a user are what the claims say, each once: which key *)
(* says it, in which form, and how often, makes no difference.             *)
RolesAreWhatIsSaid ==
  principal # NoPrincipal =>
    /\ IsInjective(principal.roles)
    /\ Range(principal.roles) = SaidRoles(claims)

(* Nobody is let in against what the token says: neither a forbidden user, *)
(* nor one whose token names no role of ours, nor an administrator by a    *)
(* role whose name merely contains the word.                               *)
NobodyIsLetInByDefault ==
  principal.verdict \in {"admin", "agent"} =>
    /\ claims.subject /\ ~claims.forbidden
    /\ claims.status \notin {"disabled", "deleted"}
    /\ <<principal.verdict>> \in SaidRoles(claims)
=============================================================================
