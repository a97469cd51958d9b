---------------------------- MODULE PlatformAdmin ----------------------------
(***************************************************************************)
(* Administrators create, edit and delete platforms (controller/            *)
(* admin_platform.go, model/platform.go) and grant them to suppliers, while *)
(* suppliers upload channels to them.  An edit reads the row, merges the    *)
(* request into its copy, writes the copy back, and seals the access token  *)
(* in a further statement; a deletion is three statements.  Each statement  *)
(* is a step, and any of them may fail or, when the process dies, never     *)
(* come.                                                                    *)
(*                                                                          *)
(* Left out: columns that every request writes from its body (prefix,       *)
(* groups, lists: see Uploads); name, which behaves as base_url does; the   *)
(* checks of a CreateChannel request after its authorization and the state  *)
(* of a grant (see Admission).  The id of a deleted platform is assumed not *)
(* to be given to another, which is so on a database that keeps count of    *)
(* ids over its own restarts; MySQL does from 8.0 on.                       *)
(***************************************************************************)
EXTENDS Naturals, FiniteSets

CONSTANTS
    Clients,     \* requests that can be served at one time
    Ids,         \* ids of platforms
    Suppliers,
    Urls,        \* addresses of platforms
    Tokens,      \* access tokens
    None,        \* a field a request omits, an empty column
    MaxChannels  \* bound: live channels of one platform

ASSUME PlatformAdminAssumption ==
    /\ None \notin Urls \cup Tokens \cup {"enabled", "disabled"}
    /\ MaxChannels \in Nat

VARIABLES
    platforms, \* the platforms table, by id
    grants,    \* the pairs of supplier and platform with a grant
    channels,  \* the number of live channels of each platform
    request,   \* the requests under way
    created,   \* the platforms the audit log says were created
    asked,     \* history: the values that edits last gave, by platform
    overtaken  \* history: the platforms of which edits overlapped or broke off

vars == <<platforms, grants, channels, request, created, asked, overtaken>>

-----------------------------------------------------------------------------
Statuses == {"enabled", "disabled"}

\* A row; and what was last asked for it.
Rows ==
    [life : {"absent", "present", "gone"}, url : Urls \cup {None},
     status : Statuses \cup {None}, token : Tokens \cup {None}]

Empty(life) == [life |-> life, url |-> None, status |-> None, token |-> None]

\* The fields of platformRequest that an edit may omit.
Edits ==
    [url : Urls \cup {None}, status : Statuses \cup {None}, token : Tokens \cup {None}]

NoEdit == [url |-> None, status |-> None, token |-> None]

Pcs == {"idle", "write", "seal", "audit",      \* CreatePlatform, UpdatePlatform
        "cascade", "delete",                   \* DeletePlatform
        "find", "insertGrant",                 \* UpsertGrant
        "readGrant", "insertChannel"}          \* CreateChannel

Requests ==
    [pc : Pcs, id : Ids \cup {None}, supplier : Suppliers \cup {None},
     action : {"CREATE_PLATFORM", "UPDATE_PLATFORM", "DELETE_PLATFORM", None},
     edit : Edits,
     copy : Rows,       \* the row as read, with the edit merged into it
     alone : BOOLEAN]   \* history: no other edit has written the row since

Idle ==
    [pc |-> "idle", id |-> None, supplier |-> None, action |-> None,
     edit |-> NoEdit, copy |-> Empty("absent"), alone |-> TRUE]

Present(id) == platforms[id].life = "present"

Given(v, otherwise) == IF v = None THEN otherwise ELSE v

Merged_Reenables(row, e) ==
    [row EXCEPT !.url = Given(e.url, @), !.status = Given(e.status, "enabled")]

Merged_Overwrites(row, e) == [row EXCEPT !.url = e.url, !.status = e.status]

\* UpdatePlatform takes over what the request gives.
Merged(row, e) ==
    [row EXCEPT !.url = Given(e.url, @), !.status = Given(e.status, @)]

\* An UPDATE by id: of a row that is gone it changes nothing.
Updated(id, row) == IF Present(id) THEN [platforms EXCEPT ![id] = row] ELSE platforms

\* The requests that edit the platform.
Editing(id) == {c \in Clients : request[c].id = id /\ request[c].pc \in {"write", "seal"}}

\* The request c goes on as r and has overtaken the other edits of its platform.
Overtakes(c, r) ==
    [d \in Clients |->
       IF d = c THEN r
       ELSE IF d \in Editing(request[c].id) THEN [request[d] EXCEPT !.alone = FALSE]
       ELSE request[d]]

\* A request that has no more to write.
Written(r) ==
    [Idle EXCEPT !.pc = "audit", !.id = r.id, !.action = r.action]

Marked(c) == IF request[c].alone THEN overtaken ELSE overtaken \cup {request[c].id}

Init ==
    /\ platforms = [id \in Ids |-> Empty("absent")]
    /\ grants = {}
    /\ channels = [id \in Ids |-> 0]
    /\ request = [c \in Clients |-> Idle]
    /\ created = {}
    /\ asked = [id \in Ids |-> Empty("absent")]
    /\ overtaken = {}

-----------------------------------------------------------------------------
(* CreatePlatform and UpdatePlatform. *)

\* The INSERT of CreatePlatform: base_url and modex_token are required.
CreatePlatform(c, id, e) ==
    /\ request[c].pc = "idle"
    /\ platforms[id].life = "absent"
    /\ e.url # None /\ e.token # None
    /\ platforms' = [platforms EXCEPT ![id] =
                       [life |-> "present", url |-> e.url,
                        status |-> Given(e.status, "enabled"), token |-> None]]
    /\ request' = [request EXCEPT ![c] =
                     [Idle EXCEPT !.pc = "seal", !.id = id, !.edit = e,
                                  !.action = "CREATE_PLATFORM"]]
    /\ asked' = [asked EXCEPT ![id] =
                   [life |-> "present", url |-> e.url,
                    status |-> Given(e.status, "enabled"), token |-> e.token]]
    /\ UNCHANGED <<grants, channels, created, overtaken>>

\* UpdatePlatform reads the row and merges the request into the copy.
BeginUpdate(c, id, e) ==
    /\ request[c].pc = "idle"
    /\ Present(id)
    /\ request' = [request EXCEPT ![c] =
                     [Idle EXCEPT !.pc = "write", !.id = id, !.edit = e,
                                  !.copy = Merged(platforms[id], e),
                                  !.action = "UPDATE_PLATFORM"]]
    /\ UNCHANGED <<platforms, grants, channels, created, asked, overtaken>>

Columns_WithToken(row, copy) ==
    [row EXCEPT !.url = copy.url, !.status = copy.status, !.token = copy.token]

\* Platform.Update writes the columns of the copy, the sealed token excepted.
Columns(row, copy) == [row EXCEPT !.url = copy.url, !.status = copy.status]

Taken(row, e) ==
    [row EXCEPT !.url = Given(e.url, @), !.status = Given(e.status, @),
                !.token = Given(e.token, @)]

Asking(id, e) == [asked EXCEPT ![id] = Taken(@, e)]

WritePlatform(c) ==
    LET r == request[c] IN
    /\ r.pc = "write"
    /\ platforms' = Updated(r.id, Columns(platforms[r.id], r.copy))
    /\ request' = Overtakes(c, IF r.edit.token = None THEN Written(r)
                               ELSE [r EXCEPT !.pc = "seal", !.copy = Empty("absent")])
    /\ asked' = IF Present(r.id) THEN Asking(r.id, r.edit) ELSE asked
    /\ overtaken' = Marked(c)
    /\ UNCHANGED <<grants, channels, created>>

Sealed_OnlyIfNone(row, token) == [row EXCEPT !.token = IF @ = None THEN token ELSE @]

\* The columns of SetModexToken.
Sealed(row, token) == [row EXCEPT !.token = token]

\* sealPlatformToken.
SealToken(c) ==
    LET r == request[c] IN
    /\ r.pc = "seal"
    /\ platforms' = Updated(r.id, Sealed(platforms[r.id], r.edit.token))
    /\ request' = [request EXCEPT ![c] = Written(r)]
    /\ overtaken' = Marked(c)
    /\ UNCHANGED <<grants, channels, created, asked>>

\* adminAudit: a record that cannot be written is dropped; those of edits and
\* deletions are compared with nothing and not kept here.
Audit(c) ==
    /\ request[c].pc = "audit"
    /\ \/ created' = created
       \/ /\ request[c].action = "CREATE_PLATFORM"
          /\ created' = created \cup {request[c].id}
    /\ request' = [request EXCEPT ![c] = Idle]
    /\ UNCHANGED <<platforms, grants, channels, asked, overtaken>>

-----------------------------------------------------------------------------
(* DeletePlatform: the count, the grants, the row. *)

BeginDelete(c, id) ==
    /\ request[c].pc = "idle"
    /\ channels[id] = 0
    /\ request' = [request EXCEPT ![c] =
                     [Idle EXCEPT !.pc = "cascade", !.id = id, !.action = "DELETE_PLATFORM"]]
    /\ UNCHANGED <<platforms, grants, channels, created, asked, overtaken>>

DeleteGrants(c) ==
    /\ request[c].pc = "cascade"
    /\ grants' = {g \in grants : g[2] # request[c].id}
    /\ request' = [request EXCEPT ![c].pc = "delete"]
    /\ UNCHANGED <<platforms, channels, created, asked, overtaken>>

Forgotten(id) == [asked EXCEPT ![id] = Empty("absent")]

\* That there was no such row is not looked at.
DeleteRow(c) ==
    /\ request[c].pc = "delete"
    /\ platforms' = Updated(request[c].id, Empty("gone"))
    /\ asked' = Forgotten(request[c].id)
    /\ request' = [request EXCEPT ![c] = Written(@)]
    /\ UNCHANGED <<grants, channels, created, overtaken>>

-----------------------------------------------------------------------------
(* UpsertGrant, DeleteGrant; CreateChannel, DeleteChannel. *)

MayGrant_Any(id) == TRUE

\* UpsertGrant looks for the platform, of any status.
MayGrant(id) == Present(id)

BeginGrant(c, s, id) ==
    /\ request[c].pc = "idle"
    /\ MayGrant(id)
    /\ request' = [request EXCEPT ![c] =
                     [Idle EXCEPT !.pc = "find", !.id = id, !.supplier = s]]
    /\ UNCHANGED <<platforms, grants, channels, created, asked, overtaken>>

\* A grant of the pair is updated by its id, which makes no row.
FindGrant(c) ==
    /\ request[c].pc = "find"
    /\ request' = [request EXCEPT ![c] =
                     IF <<request[c].supplier, request[c].id>> \in grants
                     THEN Idle ELSE [@ EXCEPT !.pc = "insertGrant"]]
    /\ UNCHANGED <<platforms, grants, channels, created, asked, overtaken>>

\* The pair is a unique index: a second INSERT fails.
InsertGrant(c) ==
    /\ request[c].pc = "insertGrant"
    /\ grants' = grants \cup {<<request[c].supplier, request[c].id>>}
    /\ request' = [request EXCEPT ![c] = Idle]
    /\ UNCHANGED <<platforms, channels, created, asked, overtaken>>

DeleteGrant(g) ==
    /\ g \in grants
    /\ grants' = grants \ {g}
    /\ UNCHANGED <<platforms, channels, request, created, asked, overtaken>>

Uploading == {c \in Clients : request[c].pc \in {"readGrant", "insertChannel"}}

\* authorizePlatform reads the platform, then the grant.
Authorize(c, s, id) ==
    /\ request[c].pc = "idle"
    /\ Present(id) /\ platforms[id].status # "disabled"
    /\ channels[id] + Cardinality(Uploading) < MaxChannels
    /\ request' = [request EXCEPT ![c] =
                     [Idle EXCEPT !.pc = "readGrant", !.id = id, !.supplier = s]]
    /\ UNCHANGED <<platforms, grants, channels, created, asked, overtaken>>

ReadGrant(c) ==
    /\ request[c].pc = "readGrant"
    /\ request' = [request EXCEPT ![c] =
                     IF <<request[c].supplier, request[c].id>> \in grants
                     THEN [@ EXCEPT !.pc = "insertChannel"] ELSE Idle]
    /\ UNCHANGED <<platforms, grants, channels, created, asked, overtaken>>

InsertChannel(c) ==
    /\ request[c].pc = "insertChannel"
    /\ channels' = [channels EXCEPT ![request[c].id] = @ + 1]
    /\ request' = [request EXCEPT ![c] = Idle]
    /\ UNCHANGED <<platforms, grants, created, asked, overtaken>>

DeleteChannel(id) ==
    /\ channels[id] > 0
    /\ channels' = [channels EXCEPT ![id] = @ - 1]
    /\ UNCHANGED <<platforms, grants, request, created, asked, overtaken>>

-----------------------------------------------------------------------------
\* A statement fails, or the process dies: the statements before it stay done.
RequestFails(c) ==
    /\ request[c].pc # "idle"
    /\ request' = [request EXCEPT ![c] = Idle]
    /\ overtaken' = IF request[c].pc = "seal" THEN overtaken \cup {request[c].id} ELSE overtaken
    /\ UNCHANGED <<platforms, grants, channels, created, asked>>

Next ==
    \/ \E c \in Clients :
         \/ \E id \in Ids, e \in Edits : CreatePlatform(c, id, e) \/ BeginUpdate(c, id, e)
         \/ WritePlatform(c)
         \/ SealToken(c)
         \/ Audit(c)
         \/ \E id \in Ids : BeginDelete(c, id)
         \/ DeleteGrants(c)
         \/ DeleteRow(c)
         \/ \E s \in Suppliers, id \in Ids : BeginGrant(c, s, id) \/ Authorize(c, s, id)
         \/ FindGrant(c)
         \/ InsertGrant(c)
         \/ ReadGrant(c)
         \/ InsertChannel(c)
         \/ RequestFails(c)
    \/ \E g \in grants : DeleteGrant(g)
    \/ \E id \in Ids : DeleteChannel(id)

Spec == Init /\ [][Next]_vars

-----------------------------------------------------------------------------
(* Properties. *)

\* Types; a present platform has an address and a status
\* (model/platform.go:16-18, controller/admin_platform.go:47-50).
TypeOK ==
    /\ platforms \in [Ids -> Rows]
    /\ \A id \in Ids : Present(id) => platforms[id].url # None /\ platforms[id].status # None
    /\ grants \subseteq Suppliers \X Ids
    /\ channels \in [Ids -> Nat]
    /\ request \in [Clients -> Requests]
    /\ created \subseteq Ids
    /\ asked \in [Ids -> Rows]
    /\ overtaken \subseteq Ids

Sealing(id) == {c \in Clients : request[c].pc = "seal" /\ request[c].id = id}

\* A platform has the address, the status and, unless one is being sealed, the
\* token that administrators gave last, whatever later edits omitted and
\* whatever the other requests do.  What UpdatePlatform writes back from its
\* copy (controller/admin_platform.go:86-119) undoes an edit only if the two
\* overlapped, and address and token part only then or when the second
\* statement never came.
RowIsAsAsked ==
    \A id \in Ids \ overtaken : Present(id) =>
        /\ platforms[id].url = asked[id].url
        /\ platforms[id].status = asked[id].status
        /\ Sealing(id) = {} => platforms[id].token = asked[id].token

\* A platform without a token is one whose creation is at its second statement
\* or broke off there (admin_platform.go:68-77), and the audit log does not say
\* that it was created.
TokenlessIsUnfinished ==
    \A id \in Ids : Present(id) /\ platforms[id].token = None =>
        /\ id \notin created
        /\ Sealing(id) # {} \/ id \in overtaken

\* A token gives way only to one that a request brings to be sealed: no edit
\* clears it or puts back an older one from its copy (model/platform.go:83-84).
TokenOnlyReplaced ==
    [][\A id \in Ids : Present(id) /\ Present(id)' =>
         \/ platforms'[id].token = platforms[id].token
         \/ \E c \in Sealing(id) : platforms'[id].token = request[c].edit.token]_vars

\* What a deleted platform leaves behind: its channels, its grants, and the
\* requests that have found it and may still insert one or the other.
Inserting(id) ==
    {c \in Clients : /\ request[c].id = id
                     /\ request[c].pc \in {"find", "insertGrant", "readGrant", "insertChannel"}}

Leftovers(id) ==
    channels[id] + Cardinality({g \in grants : g[2] = id}) + Cardinality(Inserting(id))

\* No request brings a deleted platform back, and what it leaves behind only gets
\* less: DeletePlatform (model/platform.go:169-182) misses what is inserted
\* between its statements, but nothing begins once the row is gone.
LeftOnlyShrinks ==
    [][\A id \in Ids : platforms[id].life = "gone" =>
         platforms'[id].life = "gone" /\ Leftovers(id)' <= Leftovers(id)]_vars
===============================================================================
