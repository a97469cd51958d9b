------------------------------ MODULE Whitelist ------------------------------
(***************************************************************************)
(* What a supplier may upload to a platform (service/validate/validate.go)  *)
(* and what the supplier is shown (controller/supplier_platform.go), as     *)
(* operators over the lists of the platform row and the grant row.          *)
(*                                                                         *)
(* A list is the set of its members: no decision depends on their order.    *)
(* A string is a word that may have white space around it, so that          *)
(* strings.TrimSpace is something.  The base_url rules are left out: both   *)
(* callers pass an empty base_url, which skips them.                        *)
(***************************************************************************)
CONSTANTS
    Types,           \* channel types a request may name
    SupportedTypes,  \* constant.SupportedChannelTypes
    Words,           \* the words strings are made of
    Blank            \* no word: the empty string

ASSUME WhitelistAssumption == SupportedTypes \subseteq Types /\ Blank \notin Words

Strings == [word : Words \cup {Blank}, padded : BOOLEAN]

Trim(s) == [s EXCEPT !.padded = FALSE]

Empty == [word |-> Blank, padded |-> FALSE]

Trimmed(S) == {Trim(s) : s \in S}

\* The three lists of a platform or of a grant.
Lists == [types : SUBSET Types, models : SUBSET Strings, groups : SUBSET Strings]

Uploads == [type : Types, models : SUBSET Strings, group : Strings]

\* A grant that narrows nothing.
NoNarrowing == [types |-> {}, models |-> {}, groups |-> {}]

-----------------------------------------------------------------------------
(* computeEffective: the lists l the platform has, narrowed by the lists g    *)
(* of the grant.                                                             *)

IntersectStrings(a, b) == {x \in a : Trim(x) \in Trimmed(b)}

EffectiveTypes(l, g) == IF g.types = {} THEN l.types ELSE l.types \cap g.types

EffectiveModels_NotNarrowed(l, g) == Trimmed(l.models)

EffectiveModels(l, g) ==
    Trimmed(IF g.models = {} THEN l.models ELSE IntersectStrings(l.models, g.models))

EffectiveGroups(l, g) ==
    Trimmed(IF g.groups = {} THEN l.groups ELSE IntersectStrings(l.groups, g.groups))

\* A list that is empty restricts nothing, but two lists that have nothing in
\* common restrict everything.
Unrestricted_Narrowed(effective, gl) == effective = {}

Unrestricted(effective, gl) == effective = {} /\ gl = {}

-----------------------------------------------------------------------------
(* ChannelUpload: the upload u is accepted under l and g, as Normalized(u).   *)

NormalizeModels_Untrimmed(M) == M \ {Empty}

NormalizeModels(M) == Trimmed(M) \ {Empty}

TypePermitted(u, l, g) ==
    LET eff == EffectiveTypes(l, g)
    IN  u.type \in SupportedTypes /\ (Unrestricted(eff, g.types) \/ u.type \in eff)

ModelsPermitted(u, l, g) ==
    LET eff == EffectiveModels(l, g)
        M == NormalizeModels(u.models)
    IN  M # {} /\ (Unrestricted(eff, g.models) \/ M \subseteq eff)

GroupPermitted(u, l, g) ==
    LET eff == EffectiveGroups(l, g)
        group == Trim(u.group)
    IN  Unrestricted(eff, g.groups) \/ group = Empty \/ group \in eff

ChannelUpload(u, l, g) ==
    TypePermitted(u, l, g) /\ ModelsPermitted(u, l, g) /\ GroupPermitted(u, l, g)

Normalized(u) ==
    [type |-> u.type, models |-> NormalizeModels(u.models), group |-> Trim(u.group)]

-----------------------------------------------------------------------------
(* ListMyPlatforms: what the supplier is told it may upload. *)

AdvertisedTypes(l, g) == IF g.types = {} THEN l.types ELSE g.types

AdvertisedModels(l, g) == IF g.models = {} THEN l.models ELSE g.models

-----------------------------------------------------------------------------
(* What the whitelists mean, one list at a time: an empty list allows         *)
(* everything, another one allows what it lists.                             *)

Allows(list, x) == list = {} \/ x \in list

AllowsString(list, s) == list = {} \/ s \in Trimmed(list)

Within(u, l) ==
    /\ Allows(l.types, u.type)
    /\ \A m \in u.models : AllowsString(l.models, m)
    /\ u.group # Empty => AllowsString(l.groups, u.group)
===============================================================================
