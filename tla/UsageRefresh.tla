----------------------------- MODULE UsageRefresh -----------------------------
(***************************************************************************)
(* Suppliers refresh the consumed amount of a channel (RefreshUsage of       *)
(* controller/supplier_channel.go and service/sync/worker.go): a request     *)
(* reads the channel, then the platform, asks AGT by the channel's remote    *)
(* id, and stores the answer.  Other requests do the same, the channel is    *)
(* published, published again and deleted, and an administrator gives the    *)
(* platform another address.  Any statement may fail, AGT may never answer.  *)
(***************************************************************************)
EXTENDS Naturals, FiniteSets

CONSTANTS
    Clients,      \* refreshes that can be under way at one time
    Sites,        \* AGT installations, by base_url
    Home,         \* the platform's base_url at first
    RemoteIds,    \* ids AGT gives to templates, at each site from the same range
    OwnId,        \* the id of the channel row
    None,         \* no remote id, no template
    MaxUsage,     \* bound: what a template can have consumed
    MaxTemplates, \* bound: templates made
    MaxMoves      \* bound: changes of the platform's base_url

ASSUME UsageRefreshAssumption ==
    /\ None \notin Sites \cup RemoteIds \cup Nat \cup (Sites \X RemoteIds)
    /\ Home \in Sites /\ OwnId \in RemoteIds
    /\ MaxUsage \in Nat /\ MaxTemplates \in Nat /\ MaxMoves \in Nat

VARIABLES
    row,     \* the channel row: life, remote id, consumed amount
    site,    \* the platform's base_url
    usage,   \* AGT: what each template has consumed
    request, \* the refreshes under way
    own,     \* history: the templates that syncs of this channel made
    source,  \* history: the template the stored amount was reported for
    moves    \* history: how often the platform's base_url has changed

vars == <<row, site, usage, request, own, source, moves>>

-----------------------------------------------------------------------------
Templates == Sites \X RemoteIds

Requests ==
    [pc : {"idle", "load", "platform", "ask", "store"},
     remote : RemoteIds \cup {None},
     site : Sites \cup {None},
     used : Nat,        \* AGT's answer
     alone : BOOLEAN]   \* history: nothing was stored since the row was loaded

Idle == [pc |-> "idle", remote |-> None, site |-> None, used |-> 0, alone |-> TRUE]

Init ==
    /\ row = [life |-> "live", remote |-> None, used |-> 0]
    /\ site = Home
    /\ usage = [t \in Templates |-> None]
    /\ request = [c \in Clients |-> Idle]
    /\ own = {}
    /\ source = None
    /\ moves = 0

-----------------------------------------------------------------------------
(* What happens around a refresh. *)

Made == {t \in Templates : usage[t] # None}

\* A sync POSTs the channel, to the address it has read, and marks the row with
\* the id it got; of several syncs each may do so (see ChannelSync).
Publish(s, id) ==
    /\ row.life = "live"
    /\ s = site \/ moves > 0
    /\ usage[<<s, id>>] = None /\ Cardinality(Made) < MaxTemplates
    /\ usage' = [usage EXCEPT ![<<s, id>>] = 0]
    /\ row' = [row EXCEPT !.remote = id]
    /\ own' = own \cup {<<s, id>>}
    /\ UNCHANGED <<site, request, source, moves>>

\* An older sync that PUT a rotated key marks the row with the id it had read.
Republish(id) ==
    /\ row.life = "live"
    /\ \E s \in Sites : <<s, id>> \in own
    /\ row' = [row EXCEPT !.remote = id]
    /\ UNCHANGED <<site, usage, request, own, source, moves>>

\* A template that is not of this channel.
AgtAdds(t) ==
    /\ usage[t] = None /\ Cardinality(Made) < MaxTemplates
    /\ usage' = [usage EXCEPT ![t] = 0]
    /\ UNCHANGED <<row, site, request, own, source, moves>>

Consume(t) ==
    /\ usage[t] # None
    /\ usage[t] < MaxUsage
    /\ usage' = [usage EXCEPT ![t] = @ + 1]
    /\ UNCHANGED <<row, site, request, own, source, moves>>

\* UpdatePlatform with a base_url.
MovePlatform(s) ==
    /\ s # site
    /\ moves < MaxMoves
    /\ site' = s
    /\ moves' = moves + 1
    /\ UNCHANGED <<row, usage, request, own, source>>

\* SoftDeleteForUser.
DeleteChannel ==
    /\ row.life = "live"
    /\ row' = [row EXCEPT !.life = "deleted"]
    /\ UNCHANGED <<site, usage, request, own, source, moves>>

-----------------------------------------------------------------------------
(* A refresh. *)

\* GetChannelForUser.
Begin(c) ==
    /\ request[c].pc = "idle"
    /\ row.life = "live"
    /\ request' = [request EXCEPT ![c].pc = "load"]
    /\ UNCHANGED <<row, site, usage, own, source, moves>>

AskedFor_OwnId(remote) == OwnId

\* The id that is asked for.
AskedFor(remote) == remote

Published_Unchecked == TRUE

Published == row.remote # None

\* GetChannelById; a channel without a remote id has no usage.
Load(c) ==
    /\ request[c].pc = "load"
    /\ request' = [request EXCEPT ![c] =
                     IF row.life = "live" /\ Published
                     THEN [Idle EXCEPT !.pc = "platform", !.remote = AskedFor(row.remote)]
                     ELSE Idle]
    /\ UNCHANGED <<row, site, usage, own, source, moves>>

\* GetPlatformById; the token is opened and lives as long as the request.
ReadPlatform(c) ==
    /\ request[c].pc = "platform"
    /\ request' = [request EXCEPT ![c].pc = "ask", ![c].site = site]
    /\ UNCHANGED <<row, site, usage, own, source, moves>>

Template(c) == <<request[c].site, request[c].remote>>

\* GetChannelUsage; AGT refuses an id it does not have (see RefreshFails).
Answer(c) ==
    /\ request[c].pc = "ask"
    /\ usage[Template(c)] # None
    /\ request' = [request EXCEPT ![c].pc = "store", ![c].used = usage[Template(c)]]
    /\ UNCHANGED <<row, site, usage, own, source, moves>>

WithUsage_Added(used) == [row EXCEPT !.used = @ + used]

\* The column of SetUsage.
WithUsage(used) == [row EXCEPT !.used = used]

Stores_Unscoped == TRUE

\* The UPDATE is scoped to rows that are not deleted.
Stores == row.life = "live"

\* SetUsage; of a deleted row nothing is changed and the request succeeds.
Store(c) ==
    /\ request[c].pc = "store"
    /\ IF Stores
       THEN /\ row' = WithUsage(request[c].used)
            /\ source' = Template(c)
            /\ request' = [d \in Clients |->
                 IF d = c THEN Idle
                 ELSE IF request[d].pc \in {"platform", "ask", "store"}
                 THEN [request[d] EXCEPT !.alone = FALSE]
                 ELSE request[d]]
       ELSE /\ request' = [request EXCEPT ![c] = Idle]
            /\ UNCHANGED <<row, source>>
    /\ UNCHANGED <<site, usage, own, moves>>

\* A statement fails, the platform is gone or its token does not open, AGT
\* refuses or its answer does not come within 30 s, or the process dies.
RefreshFails(c) ==
    /\ request[c].pc # "idle"
    /\ request' = [request EXCEPT ![c] = Idle]
    /\ UNCHANGED <<row, site, usage, own, source, moves>>

-----------------------------------------------------------------------------
Statements(c) == Load(c) \/ ReadPlatform(c) \/ Store(c)

Next ==
    \/ \E c \in Clients : Begin(c) \/ Statements(c) \/ Answer(c) \/ RefreshFails(c)
    \/ \E s \in Sites, id \in RemoteIds : Publish(s, id)
    \/ \E id \in RemoteIds : Republish(id)
    \/ \E t \in Templates : AgtAdds(t) \/ Consume(t)
    \/ \E s \in Sites : MovePlatform(s)
    \/ DeleteChannel

Spec == Init /\ [][Next]_vars

TimesOut_Never(c) == FALSE /\ RefreshFails(c)

\* The time limit of RefreshUsage and of the client covers the call to AGT.
TimesOut(c) == request[c].pc = "ask" /\ RefreshFails(c)

\* Statements are executed, a call ends by an answer or by its time limit; that
\* AGT answers is not assumed.
FairSpec ==
    Spec /\ \A c \in Clients : WF_vars(Statements(c)) /\ WF_vars(TimesOut(c))

-----------------------------------------------------------------------------
(* Properties. *)

\* Types; AGT is asked only for a channel that has a remote id, at an address
\* (service/sync/worker.go:119-121).
TypeOK ==
    /\ row \in [life : {"live", "deleted"}, remote : RemoteIds \cup {None}, used : Nat]
    /\ site \in Sites
    /\ usage \in [Templates -> Nat \cup {None}]
    /\ request \in [Clients -> Requests]
    /\ \A c \in Clients :
         /\ request[c].pc \in {"platform", "ask", "store"} => request[c].remote # None
         /\ request[c].pc \in {"ask", "store"} => request[c].site # None
    /\ own \subseteq Templates
    /\ source \in Templates \cup {None}
    /\ moves \in Nat

\* What a supplier is shown was really consumed: the stored amount is never
\* above what the template it was reported for has by now, however refreshes
\* repeat and overtake one another (model/channel.go:261-274).
UsageWithinReported ==
    IF source = None THEN row.used = 0
    ELSE usage[source] # None /\ row.used <= usage[source]

\* The amount is that of a template this channel was published as, unless the
\* platform's base_url was changed: remote ids are kept then, and at the new
\* address they may mean other channels (controller/admin_platform.go:107,
\* service/sync/worker.go:131-132).
UsageIsOwn == source # None => source \in own \/ moves > 0

\* The amount goes back only if the refresh that stores it was overtaken by
\* another since it read the row, or asked for another template than the stored
\* amount is of; and nothing is stored for a deleted channel.
GoesBackOnlyOvertaken ==
    [][/\ row.life = "deleted" => row' = row
       /\ row'.used < row.used =>
            \E c \in Clients : /\ request[c].pc = "store"
                               /\ ~request[c].alone \/ Template(c) # source]_vars

\* Every refresh ends, whether AGT answers or not (controller/
\* supplier_channel.go:316-318).
RefreshEnds == \A c \in Clients : request[c].pc # "idle" ~> request[c].pc = "idle"
===============================================================================
