--------------------------- MODULE ContractLinks ---------------------------
(***************************************************************************)
(* contract_links: links between contracts, each inserted in a transaction *)
(* of its own whose trigger refuses a link that closes a cycle.            *)
(*                                                                         *)
(* Who may record a link is checked before and changes nothing.            *)
(***************************************************************************)
EXTENDS Naturals, FiniteSets

CONSTANTS
    Linkable,         \* the contracts
    LinkTypes,        \* continues, supersedes, delegates_to
    Writers,          \* requests that insert a link
    NoLink,
    WalkDepth,        \* 64 in the trigger
    MaxLinks          \* bound on the links there are

Links == {l \in [from : Linkable, to : Linkable, type : LinkTypes] : l.from # l.to}

ASSUME LinksAssumption ==
    /\ NoLink \notin Links
    /\ WalkDepth \in Nat \ {0} /\ MaxLinks \in Nat

VARIABLES
    links,            \* the committed rows
    inserting,        \* the link each writer's trigger let pass
    sideBySide        \* history: two insertions were open at the same time

linkVars == <<links, inserting, sideBySide>>

LinksInit ==
    /\ links = {}
    /\ inserting = [w \in Writers |-> NoLink]
    /\ sideBySide = FALSE

(* The recursive query: what is found from c in that many steps of the walk. *)
Reachable(c, rows) ==
    LET found[depth \in 1 .. WalkDepth] ==
          IF depth = 1 THEN {c}
          ELSE found[depth - 1] \cup
               {l.to : l \in {m \in rows : m.from \in found[depth - 1]}}
    IN  found[WalkDepth]

(* Mutant of ClosesCycle: the walk follows links of one type. *)
ClosesCycleOfType(l) == l.from \in Reachable(l.to, {m \in links : m.type = l.type})

(* The walk crosses the types. *)
ClosesCycle(l) == l.from \in Reachable(l.to, links)

(* createContractLink, from the links route, a proposal with a predecessor or a
   handoff.  The trigger runs before the row is there and sees what is committed. *)
InsertLink(w, l) ==
    /\ inserting[w] = NoLink
    /\ ~ClosesCycle(l)
    /\ inserting' = [inserting EXCEPT ![w] = l]
    /\ sideBySide' = (sideBySide \/ \E v \in Writers \ {w} : inserting[v] # NoLink)
    /\ UNCHANGED links

(* A link that is there already is as good (23505). *)
CommitLink(w) ==
    /\ inserting[w] # NoLink
    /\ links' = links \cup {inserting[w]}
    /\ Cardinality(links') <= MaxLinks
    /\ inserting' = [inserting EXCEPT ![w] = NoLink]
    /\ UNCHANGED sideBySide

(* deleteContractLink. *)
DeleteLink(l) ==
    /\ l \in links
    /\ links' = links \ {l}
    /\ UNCHANGED <<inserting, sideBySide>>

LinksNext ==
    \/ \E w \in Writers : CommitLink(w) \/ \E l \in Links : InsertLink(w, l)
    \/ \E l \in Links : DeleteLink(l)

LinksSpec == LinksInit /\ [][LinksNext]_linkVars

-----------------------------------------------------------------------------
(* Properties *)

(* The types. *)
LinksTypeOK ==
    /\ links \subseteq Links
    /\ inserting \in [Writers -> Links \cup {NoLink}]
    /\ sideBySide \in BOOLEAN

(* "A cycle is never a legitimate state": no walk along the links, of whatever
   types, leads back within the depth of the trigger's walk, as long as no two
   links were inserted at the same time. *)
NoCycle ==
    ~sideBySide => \A l \in links : l.from \notin Reachable(l.to, links)
=============================================================================
