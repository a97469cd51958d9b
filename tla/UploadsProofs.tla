---------------------------- MODULE UploadsProofs ----------------------------
(***************************************************************************)
(* Machine-checked proofs about Whitelist, for every list a platform or a   *)
(* grant can have and every request, and about Uploads.                     *)
(***************************************************************************)
EXTENDS Uploads, WellFoundedInduction, TLAPS

-----------------------------------------------------------------------------
(* Trimming. *)

LEMMA TrimFacts ==
    ASSUME NEW s \in Strings
    PROVE  Trim(s) \in Strings /\ Trim(Trim(s)) = Trim(s)
  BY DEF Trim, Strings

LEMMA EmptyFacts == Empty \in Strings /\ Trim(Empty) = Empty
<1>1. Empty \in Strings
  BY DEF Empty, Strings
<1>2. Empty.padded = FALSE
  BY DEF Empty
<1>3. \A s \in Strings : s.padded = FALSE => Trim(s) = s
  BY DEF Trim, Strings
<1>4. QED
  BY <1>1, <1>2, <1>3

LEMMA NormalizeFacts ==
    ASSUME NEW M \in SUBSET Strings
    PROVE  /\ NormalizeModels(M) \subseteq Trimmed(Strings) \ {Empty}
           /\ NormalizeModels(M) \subseteq Strings
           /\ \A m \in NormalizeModels(M) : Trim(m) = m
           /\ NormalizeModels(NormalizeModels(M)) = NormalizeModels(M)
<1>1. \A m \in NormalizeModels(M) : m \in Strings /\ Trim(m) = m /\ m # Empty
  BY TrimFacts DEF NormalizeModels, Trimmed
<1>2. NormalizeModels(M) \subseteq Trimmed(Strings) \ {Empty}
  BY DEF NormalizeModels, Trimmed
<1>3. NormalizeModels(NormalizeModels(M)) = NormalizeModels(M)
  BY <1>1 DEF NormalizeModels, Trimmed
<1>4. QED
  BY <1>1, <1>2, <1>3

\* Narrowing a list of strings never adds one.
LEMMA IntersectFacts ==
    ASSUME NEW a \in SUBSET Strings, NEW b \in SUBSET Strings
    PROVE  Trimmed(IntersectStrings(a, b)) = Trimmed(a) \cap Trimmed(b)
  BY DEF Trimmed, IntersectStrings

-----------------------------------------------------------------------------
(* The decision of ChannelUpload. *)

\* One list: what the code computes with an effective list, in terms of the two
\* lists it was computed from.
LEMMA ModelsDecision ==
    ASSUME NEW l \in Lists, NEW g \in Lists
    PROVE  EffectiveModels(l, g) =
             IF g.models = {} THEN Trimmed(l.models)
             ELSE Trimmed(l.models) \cap Trimmed(g.models)
  BY IntersectFacts DEF EffectiveModels, Lists

LEMMA GroupsDecision ==
    ASSUME NEW l \in Lists, NEW g \in Lists
    PROVE  EffectiveGroups(l, g) =
             IF g.groups = {} THEN Trimmed(l.groups)
             ELSE Trimmed(l.groups) \cap Trimmed(g.groups)
  BY IntersectFacts DEF EffectiveGroups, Lists

LEMMA TrimmedEmpty ==
    ASSUME NEW S
    PROVE  Trimmed(S) = {} <=> S = {}
  BY DEF Trimmed

\* What ChannelUpload (service/validate/validate.go:44-119) accepts is, once
\* normalized, within every list of the platform and every list of the grant,
\* names a model, and is of a supported type.
THEOREM AcceptedIsWithin ==
    ASSUME NEW l \in Lists, NEW g \in Lists, NEW u \in Uploads, ChannelUpload(u, l, g)
    PROVE  /\ Within(Normalized(u), l) /\ Within(Normalized(u), g)
           /\ Normalized(u).models # {}
           /\ u.type \in SupportedTypes
<1>1. Allows(l.types, u.type) /\ Allows(g.types, u.type) /\ u.type \in SupportedTypes
  BY DEF ChannelUpload, TypePermitted, Unrestricted, EffectiveTypes, Allows, Lists, Uploads
<1>2. /\ NormalizeModels(u.models) # {}
      /\ \A m \in NormalizeModels(u.models) :
           AllowsString(l.models, m) /\ AllowsString(g.models, m)
  BY ModelsDecision, TrimmedEmpty
     DEF ChannelUpload, ModelsPermitted, Unrestricted, AllowsString
<1>3. Trim(u.group) # Empty =>
        AllowsString(l.groups, Trim(u.group)) /\ AllowsString(g.groups, Trim(u.group))
  BY GroupsDecision, TrimmedEmpty
     DEF ChannelUpload, GroupPermitted, Unrestricted, AllowsString
<1>4. QED
  BY <1>1, <1>2, <1>3 DEF Within, Normalized

\* A list of the platform that is empty is not narrowed: where it is, the grant
\* refuses everything and not only what it leaves out (computeEffective).
OnlyListedIsNarrowed(l, g) ==
    /\ l.types = {} => g.types = {}
    /\ l.models = {} => g.models = {}
    /\ l.groups = {} => g.groups = {}

\* The converse of AcceptedIsWithin where no list of the grant narrows an empty
\* list of the platform: everything the whitelists allow is accepted.
THEOREM WithinIsAccepted ==
    ASSUME NEW l \in Lists, NEW g \in Lists, NEW u \in Uploads,
           OnlyListedIsNarrowed(l, g),
           u.type \in SupportedTypes, Normalized(u).models # {},
           Within(Normalized(u), l), Within(Normalized(u), g)
    PROVE  ChannelUpload(u, l, g)
<1>1. TypePermitted(u, l, g)
  BY DEF OnlyListedIsNarrowed, Within, Normalized, Allows, TypePermitted,
         EffectiveTypes, Unrestricted
<1>2. ModelsPermitted(u, l, g)
  BY ModelsDecision, TrimmedEmpty
     DEF OnlyListedIsNarrowed, Within, Normalized, AllowsString, ModelsPermitted,
         Unrestricted
<1>3. GroupPermitted(u, l, g)
  BY GroupsDecision, TrimmedEmpty
     DEF OnlyListedIsNarrowed, Within, Normalized, AllowsString, GroupPermitted,
         Unrestricted
<1>4. QED
  BY <1>1, <1>2, <1>3 DEF ChannelUpload

\* A grant never widens: what is accepted under a grant is accepted by the
\* platform on its own (model/grant.go:14-16).
THEOREM GrantOnlyNarrows ==
    ASSUME NEW l \in Lists, NEW g \in Lists, NEW u \in Uploads, ChannelUpload(u, l, g)
    PROVE  ChannelUpload(u, l, NoNarrowing)
<1>1. NoNarrowing \in Lists
  BY DEF NoNarrowing, Lists
<1>2. OnlyListedIsNarrowed(l, NoNarrowing) /\ Within(Normalized(u), NoNarrowing)
  BY DEF OnlyListedIsNarrowed, NoNarrowing, Within, Allows, AllowsString
<1>3. QED
  BY <1>1, <1>2, AcceptedIsWithin, WithinIsAccepted

\* What was stored stays acceptable: an edit that changes nothing, under the
\* same lists, is accepted again and stores the same
\* (UpdateChannel, controller/supplier_channel.go:217-234).
THEOREM AcceptedStaysAccepted ==
    ASSUME NEW l \in Lists, NEW g \in Lists, NEW u \in Uploads, ChannelUpload(u, l, g)
    PROVE  /\ Normalized(u) \in Uploads
           /\ Normalized(Normalized(u)) = Normalized(u)
           /\ ChannelUpload(Normalized(u), l, g)
<1>1. u.type \in Types /\ u.models \in SUBSET Strings /\ u.group \in Strings
  BY DEF Uploads
<1>2. Normalized(u) \in Uploads
  BY <1>1, NormalizeFacts, TrimFacts DEF Normalized, Uploads
<1>3. /\ NormalizeModels(Normalized(u).models) = NormalizeModels(u.models)
      /\ Trim(Normalized(u).group) = Trim(u.group)
      /\ Normalized(u).type = u.type
  BY <1>1, NormalizeFacts, TrimFacts DEF Normalized
<1>4. Normalized(Normalized(u)) = Normalized(u)
  BY <1>3 DEF Normalized
<1>5. ChannelUpload(Normalized(u), l, g)
  BY <1>3 DEF ChannelUpload, TypePermitted, ModelsPermitted, GroupPermitted
<1>6. QED
  BY <1>2, <1>4, <1>5

-----------------------------------------------------------------------------
(* The state machine. *)

\* Of a set of positions, First is one.
LEMMA FirstFacts ==
    ASSUME NEW I \in SUBSET Nat, I # {}
    PROVE  First(I) \in I
<1> DEFINE Less == {ij \in Nat \X Nat : ij[1] < ij[2]}
<1>1. Less = OpToRel(<, Nat)
  BY DEF OpToRel
<1>2. IsWellFoundedOn(Less, Nat)
  BY <1>1, NatLessThanWellFounded
<1> HIDE DEF Less
<1>3. PICK i \in I : \A j \in I : ~ (<<j, i>> \in Less)
  BY <1>2, WFMin
<1>4. ASSUME NEW j \in I PROVE i <= j
  <2>1. i \in Nat /\ j \in Nat /\ ~ (<<j, i>> \in Less)
    BY <1>3
  <2>2. ~ (j < i)
    BY <2>1 DEF Less
  <2>3. QED
    BY <2>1, <2>2
<1>5. QED
  BY <1>4 DEF First

\* A group bound to a type is one of the platform's.
LEMMA GroupFacts ==
    ASSUME NEW p \in PlatformRows, NEW t \in Types, BoundTo(p, t) # {}
    PROVE  GroupForType(p, t).name \in Strings
<1>1. p.groups \in Seq(PlatformGroup)
  BY ConfigurationsAreTyped
<1>2. DOMAIN p.groups \subseteq Nat
  BY <1>1
<1>3. BoundTo(p, t) \in SUBSET Nat
  BY <1>2 DEF BoundTo
<1>4. First(BoundTo(p, t)) \in BoundTo(p, t)
  BY <1>3, FirstFacts
<1>5. First(BoundTo(p, t)) \in DOMAIN p.groups
  BY <1>4 DEF BoundTo
<1>6. GroupForType(p, t) \in PlatformGroup
  BY <1>1, <1>5 DEF GroupForType
<1>7. QED
  BY <1>6 DEF PlatformGroup

LEMMA GroupedFacts ==
    ASSUME TypeOK, pc = "store"
    PROVE  Grouped \in Uploads
<1>1. upload \in Uploads /\ seenPlatform \in PlatformRows
  BY DEF TypeOK
<1>2. ASSUME NEW n \in Strings PROVE [upload EXCEPT !.group = n] \in Uploads
  BY <1>1 DEF Uploads
<1>3. CASE HasGroup
  <2>1. GroupForType(seenPlatform, upload.type).name \in Strings
    BY <1>1, <1>3, GroupFacts DEF HasGroup, Uploads
  <2>2. QED
    BY <1>2, <1>3, <2>1 DEF Grouped
<1>4. CASE ~HasGroup
  BY <1>1, <1>4 DEF Grouped
<1>5. QED
  BY <1>3, <1>4

\* What is accepted is stored clean.
LEMMA AcceptedIsClean ==
    ASSUME NEW l \in Lists, NEW g \in Lists, NEW u \in Uploads, ChannelUpload(u, l, g)
    PROVE  Normalized(u) \in Clean
<1>1. u.models \in SUBSET Strings /\ u.group \in Strings /\ u.type \in SupportedTypes
  BY AcceptedIsWithin DEF Uploads
<1>2. /\ NormalizeModels(u.models) \in SUBSET (Trimmed(Strings) \ {Empty})
      /\ Trim(u.group) \in Trimmed(Strings)
  BY <1>1, NormalizeFacts DEF Trimmed
<1>3. QED
  BY <1>1, <1>2 DEF Normalized, Clean

LEMMA CleanIsUpload == Clean \subseteq Uploads
<1>1. Trimmed(Strings) \subseteq Strings
  BY TrimFacts DEF Trimmed
<1>2. QED
  BY <1>1, WhitelistAssumption DEF Clean, Uploads

\* What a request has read was enabled when it read it.
ReadWhileEnabled ==
    /\ pc \in {"grant", "store"} => seenPlatform.enabled
    /\ pc = "store" => seenGrant.enabled

IInv == TypeOK /\ ReadWhileEnabled

\* A Store writes what ChannelUpload accepted.
LEMMA StoreFacts ==
    ASSUME IInv, Store
    PROVE  /\ Grouped \in Uploads
           /\ seenPlatform.lists \in Lists /\ seenGrant.lists \in Lists
           /\ ChannelUpload(Grouped, seenPlatform.lists, seenGrant.lists)
           /\ channel' = Normalized(Grouped)
<1>1. Grouped \in Uploads
  BY GroupedFacts DEF IInv, Store
<1>2. seenPlatform \in PlatformRows /\ seenGrant \in GrantRows
  BY DEF IInv, TypeOK, Store
<1>3. seenPlatform.lists \in Lists /\ seenGrant.lists \in Lists
  BY <1>2, ConfigurationsAreTyped
<1>4. QED
  BY <1>1, <1>3 DEF Store, Valid

LEMMA InitIInv == Init => IInv
  BY ConfigurationsAreTyped DEF Init, IInv, TypeOK, ReadWhileEnabled

LEMMA NextIInv ==
    ASSUME IInv, [Next]_vars
    PROVE  IInv'
<1> USE DEF IInv, TypeOK, ReadWhileEnabled
<1>1. ASSUME NEW t \in Types, NEW M \in Requested, BeginCreate(t, M) PROVE IInv'
  <2>1. [type |-> t, models |-> M, group |-> Empty] \in Uploads
    BY EmptyFacts, ConfigurationsAreTyped DEF Uploads
  <2>2. upload' \in Uploads /\ upload' # None
    BY <1>1, <2>1, ConfigurationsAreTyped DEF BeginCreate
  <2>3. QED
    BY <1>1, <2>2 DEF BeginCreate
<1>2. ASSUME NEW M \in Requested, BeginUpdate(M) PROVE IInv'
  <2>1. channel \in Uploads
    BY <1>2, CleanIsUpload DEF BeginUpdate
  <2>2. [channel EXCEPT !.models = IF M = {} THEN @ ELSE M] \in Uploads
    BY <2>1, ConfigurationsAreTyped DEF Uploads
  <2>3. upload' \in Uploads /\ upload' # None
    BY <1>2, <2>2, ConfigurationsAreTyped DEF BeginUpdate
  <2>4. QED
    BY <1>2, <2>3 DEF BeginUpdate
<1>3. CASE ReadPlatform
  BY <1>3 DEF ReadPlatform
<1>4. CASE ReadGrant
  BY <1>4 DEF ReadGrant
<1>5. CASE Unauthorized
  BY <1>5 DEF Unauthorized, Ended
<1>6. CASE Store
  <2>1. channel' \in Clean
    BY <1>6, StoreFacts, AcceptedIsClean
  <2>2. QED
    BY <1>6, <2>1 DEF Store, Ended
<1>7. CASE Reject
  BY <1>7 DEF Reject, Ended
<1>8. ASSUME NEW p \in PlatformRows, UpdatePlatform(p) PROVE IInv'
  BY <1>8 DEF UpdatePlatform
<1>9. ASSUME NEW g \in GrantRows, UpsertGrant(g) PROVE IInv'
  BY <1>9 DEF UpsertGrant
<1>10. CASE UNCHANGED vars
  BY <1>10 DEF vars
<1>11. QED
  BY <1>1, <1>2, <1>3, <1>4, <1>5, <1>6, <1>7, <1>8, <1>9, <1>10 DEF Next

\* The inductive invariant of Uploads.
THEOREM InvariantHolds == Spec => []IInv
  BY InitIInv, NextIInv, PTL DEF Spec

\* The tables and requests keep their types; what is stored is normalized
\* (validate.go:143-155).
THEOREM TypeCorrect == Spec => []TypeOK
<1>1. IInv => TypeOK
  BY DEF IInv
<1>2. QED
  BY <1>1, InvariantHolds, PTL

\* Only Store changes the channel.
LEMMA OnlyStoreWrites ==
    ASSUME [Next]_vars, channel' # channel
    PROVE  Store
  BY DEF Next, vars, BeginCreate, BeginUpdate, ReadPlatform, ReadGrant, Unauthorized,
         Reject, UpdatePlatform, UpsertGrant

LEMMA StepStoresWithin ==
    ASSUME IInv, [Next]_vars, channel' # channel
    PROVE  /\ seenPlatform.enabled /\ Within(channel', seenPlatform.lists)
           /\ seenGrant.enabled /\ Within(channel', seenGrant.lists)
<1>1. Store
  BY OnlyStoreWrites
<1>2. Within(channel', seenPlatform.lists) /\ Within(channel', seenGrant.lists)
  BY <1>1, StoreFacts, AcceptedIsWithin
<1>3. QED
  BY <1>1, <1>2 DEF IInv, ReadWhileEnabled, Store

\* For every whitelist, grant and request, and however administrators change
\* them meanwhile, what CreateChannel and UpdateChannel write lies within what
\* their request has read (validate.go:44-119).
THEOREM StoresWithinWhitelist == Spec => StoredWithinWhitelist
<1>1. IInv /\ [Next]_vars =>
        [channel' # channel =>
           /\ seenPlatform.enabled /\ Within(channel', seenPlatform.lists)
           /\ seenGrant.enabled /\ Within(channel', seenGrant.lists)]_vars
  BY StepStoresWithin
<1>2. QED
  BY <1>1, InvariantHolds, PTL DEF Spec, StoredWithinWhitelist

\* What is written has the group that the platform, as read, binds to the type
\* (controller/supplier_channel.go:101-106, 214-224).
THEOREM StoresInBoundGroup == Spec => StoredInBoundGroup
<1>1. ASSUME IInv, [Next]_vars, channel' # channel,
             BoundTo(seenPlatform, channel'.type) # {}
      PROVE  channel'.group = Trim(GroupForType(seenPlatform, channel'.type).name)
  <2>1. Store /\ channel' = Normalized(Grouped) /\ Grouped \in Uploads
    BY <1>1, OnlyStoreWrites, StoreFacts
  <2>2. upload \in Uploads
    BY <1>1, <2>1 DEF IInv, TypeOK, Store
  <2>3. channel'.type = upload.type /\ channel'.group = Trim(Grouped.group)
    BY <2>1, <2>2 DEF Normalized, Grouped, Uploads
  <2>4. Grouped.group = GroupForType(seenPlatform, upload.type).name
    BY <1>1, <2>2, <2>3 DEF Grouped, HasGroup, Uploads
  <2>5. QED
    BY <2>3, <2>4
<1>2. IInv /\ [Next]_vars =>
        [channel' # channel /\ BoundTo(seenPlatform, channel'.type) # {} =>
           channel'.group = Trim(GroupForType(seenPlatform, channel'.type).name)]_vars
  BY <1>1
<1>3. QED
  BY <1>2, InvariantHolds, PTL DEF Spec, StoredInBoundGroup

\* What ChannelUpload would accept is within what ListMyPlatforms shows, for
\* every platform and grant (controller/supplier_platform.go:40-52).
THEOREM AdvertisesAccepted == Spec => []AcceptedIsAdvertised
<1>1. ASSUME IInv, NEW t \in Types, NEW M \in Requested,
             ChannelUpload([type |-> t, models |-> M, group |-> Empty],
                           platform.lists, grant.lists)
      PROVE  /\ Allows(AdvertisedTypes(platform.lists, grant.lists), t)
             /\ \A m \in NormalizeModels(M) :
                  AllowsString(AdvertisedModels(platform.lists, grant.lists), m)
  <2> DEFINE u == [type |-> t, models |-> M, group |-> Empty]
  <2>1. platform.lists \in Lists /\ grant.lists \in Lists
    BY <1>1, ConfigurationsAreTyped DEF IInv, TypeOK
  <2>2. u \in Uploads /\ u.type = t /\ u.models = M
    BY ConfigurationsAreTyped, EmptyFacts DEF Uploads
  <2>3. Within(Normalized(u), platform.lists) /\ Within(Normalized(u), grant.lists)
    BY <1>1, <2>1, <2>2, AcceptedIsWithin
  <2>4. /\ Allows(platform.lists.types, t) /\ Allows(grant.lists.types, t)
        /\ \A m \in NormalizeModels(M) : /\ AllowsString(platform.lists.models, m)
                                         /\ AllowsString(grant.lists.models, m)
    BY <2>2, <2>3 DEF Within, Normalized
  <2>5. QED
    BY <2>4 DEF AdvertisedTypes, AdvertisedModels
<1>2. IInv => AcceptedIsAdvertised
  BY <1>1 DEF AcceptedIsAdvertised
<1>3. QED
  BY <1>2, InvariantHolds, PTL
=============================================================================
