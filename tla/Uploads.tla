------------------------------- MODULE Uploads -------------------------------
(***************************************************************************)
(* What is stored for one channel of one supplier on one platform, while    *)
(* administrators change the platform row and the supplier's grant under    *)
(* the requests that read them: the authorization and validation half of    *)
(* CreateChannel and UpdateChannel (controller/supplier_channel.go), with   *)
(* one step per database statement, and the writes of UpdatePlatform        *)
(* (admin_platform.go), UpsertGrant and DeleteGrant (admin_grant.go).       *)
(***************************************************************************)
EXTENDS Whitelist, Naturals, Sequences

CONSTANTS
    PlatformRows,   \* the platform rows an administrator may write
    GrantRows,      \* the grant rows an administrator may write
    Requested,      \* the model lists a supplier may send
    None            \* no channel, nothing read yet

\* PlatformGroup: a group is bound to a channel type.
PlatformGroup == [name : Strings, type : Types]

ASSUME ConfigurationsAreTyped ==
    /\ PlatformRows \subseteq [enabled : BOOLEAN, lists : Lists, groups : Seq(PlatformGroup)]
    /\ GrantRows \subseteq [enabled : BOOLEAN, lists : Lists]
    /\ Requested \subseteq SUBSET Strings
    /\ None \notin PlatformRows \cup GrantRows \cup Uploads

VARIABLES
    platform,      \* the platform row
    grant,         \* the grant row; no row is as good as one that is disabled
    channel,       \* type, models and group of the channel row
    pc,            \* the supplier's request: the statement that comes next,
    upload,        \* what it wants to store,
    seenPlatform,  \* the platform row it has read,
    seenGrant      \* and the grant row it has read

vars == <<platform, grant, channel, pc, upload, seenPlatform, seenGrant>>

-----------------------------------------------------------------------------
(* Platform groups. *)

BoundTo(p, t) == {i \in DOMAIN p.groups : p.groups[i].type = t}

First(I) == CHOOSE i \in I : \A j \in I : i <= j

GroupForType(p, t) == p.groups[First(BoundTo(p, t))]

-----------------------------------------------------------------------------
Ended ==
    pc' = "idle" /\ upload' = None /\ seenPlatform' = None /\ seenGrant' = None

Init ==
    /\ platform \in PlatformRows
    /\ grant \in GrantRows
    /\ channel = None
    /\ pc = "idle" /\ upload = None /\ seenPlatform = None /\ seenGrant = None

\* CreateChannel begins.
BeginCreate(t, M) ==
    /\ pc = "idle"
    /\ channel = None
    /\ pc' = "platform"
    /\ upload' = [type |-> t, models |-> M, group |-> Empty]
    /\ UNCHANGED <<platform, grant, channel, seenPlatform, seenGrant>>

\* UpdateChannel begins with GetChannelForUser; no models means the old ones.
BeginUpdate(M) ==
    /\ pc = "idle"
    /\ channel # None
    /\ pc' = "platform"
    /\ upload' = [channel EXCEPT !.models = IF M = {} THEN @ ELSE M]
    /\ UNCHANGED <<platform, grant, channel, seenPlatform, seenGrant>>

\* authorizePlatform, GetPlatformById.
ReadPlatform ==
    /\ pc = "platform"
    /\ platform.enabled
    /\ pc' = "grant"
    /\ seenPlatform' = platform
    /\ UNCHANGED <<platform, grant, channel, upload, seenGrant>>

\* authorizePlatform, GetGrant.
ReadGrant ==
    /\ pc = "grant"
    /\ grant.enabled
    /\ pc' = "store"
    /\ seenGrant' = grant
    /\ UNCHANGED <<platform, grant, channel, upload, seenPlatform>>

\* The platform is disabled, or there is no enabled grant.
Unauthorized ==
    /\ (pc = "platform" /\ ~platform.enabled) \/ (pc = "grant" /\ ~grant.enabled)
    /\ Ended
    /\ UNCHANGED <<platform, grant, channel>>

HasGroup == BoundTo(seenPlatform, upload.type) # {}

\* The upload with the group the platform binds to its type; an update keeps
\* its group when the platform binds none any more.
Grouped_Kept ==
    IF channel = None
    THEN [upload EXCEPT !.group = GroupForType(seenPlatform, upload.type).name]
    ELSE upload

Grouped ==
    IF HasGroup
    THEN [upload EXCEPT !.group = GroupForType(seenPlatform, upload.type).name]
    ELSE upload

Valid ==
    /\ channel # None \/ HasGroup
    /\ ChannelUpload(Grouped, seenPlatform.lists, seenGrant.lists)

\* The INSERT, or UpdateMetadata.
Store ==
    /\ pc = "store"
    /\ Valid
    /\ channel' = Normalized(Grouped)
    /\ Ended
    /\ UNCHANGED <<platform, grant>>

Reject ==
    /\ pc = "store"
    /\ ~Valid
    /\ Ended
    /\ UNCHANGED <<platform, grant, channel>>

UpdatePlatform(p) ==
    /\ platform' = p
    /\ UNCHANGED <<grant, channel, pc, upload, seenPlatform, seenGrant>>

\* UpsertGrant, and DeleteGrant when g is not enabled.
UpsertGrant(g) ==
    /\ grant' = g
    /\ UNCHANGED <<platform, channel, pc, upload, seenPlatform, seenGrant>>

Next ==
    \/ \E t \in Types, M \in Requested : BeginCreate(t, M)
    \/ \E M \in Requested : BeginUpdate(M)
    \/ ReadPlatform
    \/ ReadGrant
    \/ Unauthorized
    \/ Store
    \/ Reject
    \/ \E p \in PlatformRows : UpdatePlatform(p)
    \/ \E g \in GrantRows : UpsertGrant(g)

Spec == Init /\ [][Next]_vars

-----------------------------------------------------------------------------
(* Properties. *)

Clean == [type : SupportedTypes, models : SUBSET (Trimmed(Strings) \ {Empty}),
          group : Trimmed(Strings)]

\* Types of the tables and the request; what is stored is of a supported type,
\* names no blank or padded model, and its group has no padding (the
\* normalization of service/validate/validate.go:58, 71 and 143-155).
TypeOK ==
    /\ platform \in PlatformRows /\ grant \in GrantRows
    /\ channel \in Clean \cup {None}
    /\ pc \in {"idle", "platform", "grant", "store"}
    /\ pc = "idle" <=> upload = None
    /\ upload \in Uploads \cup {None}
    /\ pc \in {"grant", "store"} => seenPlatform \in PlatformRows
    /\ pc = "store" => seenGrant \in GrantRows

\* Whatever is written to a channel row lies within every list of the platform
\* and every list of the grant that its request has read, although the code
\* computes one intersection per list and tells "no restriction" from "nothing
\* in common" by hand (validate.go:91-119, 173-203); and both had upload
\* switched on when they were read.
StoredWithinWhitelist ==
    [][channel' # channel =>
         /\ seenPlatform.enabled /\ Within(channel', seenPlatform.lists)
         /\ seenGrant.enabled /\ Within(channel', seenGrant.lists)]_vars

\* A row written while the platform binds its type has the group bound to it:
\* an edit moves a channel to the group of today
\* (controller/supplier_channel.go:214-224, "so it always reflects the
\* platform's current type->group binding").
StoredInBoundGroup ==
    [][channel' # channel /\ BoundTo(seenPlatform, channel'.type) # {} =>
         channel'.group = Trim(GroupForType(seenPlatform, channel'.type).name)]_vars

\* An upload that would be accepted is one the supplier is shown: the lists of
\* ListMyPlatforms (controller/supplier_platform.go:40-52) and those of
\* ChannelUpload are computed apart, and agree that far.
AcceptedIsAdvertised ==
    \A t \in Types, M \in Requested :
        ChannelUpload([type |-> t, models |-> M, group |-> Empty],
                      platform.lists, grant.lists) =>
            /\ Allows(AdvertisedTypes(platform.lists, grant.lists), t)
            /\ \A m \in NormalizeModels(M) :
                 AllowsString(AdvertisedModels(platform.lists, grant.lists), m)
===============================================================================
