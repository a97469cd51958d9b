------------------------------ MODULE Admission ------------------------------
(***************************************************************************)
(* The uploads of one supplier to one platform, several at a time: the      *)
(* statements between the authorization and the INSERT of CreateChannel     *)
(* (controller/supplier_channel.go), which check the quota of the grant,    *)
(* look for the same key and choose a name, each against what the table     *)
(* holds at that moment; rotation and deletion; and the administrators'     *)
(* UpsertGrant, DeleteGrant and DeleteUser.  No two statements share a      *)
(* transaction.  The whitelists are those of Uploads, the sync that follows *)
(* the INSERT is that of ChannelSync.                                       *)
(***************************************************************************)
EXTENDS Naturals, Sequences, FiniteSets

CONSTANTS
    Handlers,     \* supplier requests that can be served at one time
    Keys,         \* keys, and so key fingerprints
    Tags,         \* what "{prefix}-{username}-{group}" comes to
    Quotas,       \* MaxChannels values administrators give; 0 is unlimited
    ProbeLimit,   \* names generateChannelName tries (1000 in the code)
    None,         \* no key, no name
    MaxRows,      \* bound: rows ever inserted
    MaxGrants,    \* bound: UpsertGrant requests
    MaxRotations, \* bound: key rotations
    MaxFaults     \* bound: failed statements

ASSUME AdmissionAssumption ==
    /\ IsFiniteSet(Handlers)
    /\ None \notin Keys \cup Tags
    /\ Quotas \subseteq Nat
    /\ ProbeLimit \in Nat \ {0}
    /\ MaxRows \in Nat /\ MaxGrants \in Nat /\ MaxRotations \in Nat /\ MaxFaults \in Nat

VARIABLES
    rows,      \* the supplier's channels on the platform, by id, deleted or not
    grant,     \* the grant row: state and MaxChannels
    user,      \* the supplier's account: present or gone
    handler,   \* the supplier's requests
    deleter,   \* DeleteUser: 0, or the number of the statement that is next
    granter,   \* UpsertGrant: its next statement and what it writes
    grants,    \* UpsertGrant requests so far
    rotations, \* key rotations so far
    faults     \* failed statements so far

vars == <<rows, grant, user, handler, deleter, granter, grants, rotations, faults>>

-----------------------------------------------------------------------------
Names == [tag : Tags, n : Nat]

Rows == [fp : Keys, name : Names, live : BOOLEAN]

NoGrant == [state |-> "none", max |-> 0]

GrantRows == [state : {"enabled", "disabled"}, max : Quotas] \cup {NoGrant}

HandlerStates ==
    [pc : {"idle", "count", "duplicate", "sequence", "probe", "insert", "rotate"},
     fp : Keys \cup {None}, tag : Tags \cup {None}, max : Quotas \cup {0},
     seq : Nat,                \* NextChannelSeq
     n : Nat,                  \* the number tried, at last the one chosen
     id : Nat]                 \* the row to rotate

IdleHandler ==
    [pc |-> "idle", fp |-> None, tag |-> None, max |-> 0, seq |-> 0, n |-> 0, id |-> 0]

Live == {i \in DOMAIN rows : rows[i].live}

Busy == {h \in Handlers : handler[h].pc # "idle"}

Ends(h) == handler' = [handler EXCEPT ![h] = IdleHandler]

Fault == faults < MaxFaults /\ faults' = faults + 1

Init ==
    /\ rows = <<>>
    /\ grant \in GrantRows
    /\ user = "present"
    /\ handler = [h \in Handlers |-> IdleHandler]
    /\ deleter = 0
    /\ granter = [pc |-> "idle", row |-> NoGrant]
    /\ grants = 0
    /\ rotations = 0
    /\ faults = 0

-----------------------------------------------------------------------------
(* CreateChannel. *)

\* authorizePlatform; the session of a deleted account still works.
Authorize(h, k, t) ==
    /\ handler[h].pc = "idle"
    /\ grant.state = "enabled"
    /\ Len(rows) + Cardinality(Busy) < MaxRows
    /\ handler' = [handler EXCEPT ![h] =
                     [IdleHandler EXCEPT !.pc = "count", !.fp = k, !.tag = t,
                                         !.max = grant.max]]
    /\ UNCHANGED <<rows, grant, user, deleter, granter, grants, rotations, faults>>

WithinQuota_OneMore(h) ==
    handler[h].max = 0 \/ Cardinality(Live) <= handler[h].max

WithinQuota(h) ==
    handler[h].max = 0 \/ Cardinality(Live) < handler[h].max

\* CountChannelsForUserPlatform, when the grant has a limit.
CheckQuota(h) ==
    /\ handler[h].pc = "count"
    /\ IF WithinQuota(h)
       THEN handler' = [handler EXCEPT ![h].pc = "duplicate"]
       ELSE Ends(h)
    /\ UNCHANGED <<rows, grant, user, deleter, granter, grants, rotations, faults>>

IsDuplicate_Never(h) == FALSE

IsDuplicate(h) == \E i \in Live : rows[i].fp = handler[h].fp

\* FingerprintExistsForUser.
CheckDuplicate(h) ==
    /\ handler[h].pc = "duplicate"
    /\ IF IsDuplicate(h)
       THEN Ends(h)
       ELSE handler' = [handler EXCEPT ![h].pc = "sequence"]
    /\ UNCHANGED <<rows, grant, user, deleter, granter, grants, rotations, faults>>

NextChannelSeq_FromZero == Len(rows)

NextChannelSeq_Skips == Len(rows) + 2

\* Deleted rows count too.
NextChannelSeq == Len(rows) + 1

ReadSequence(h) ==
    /\ handler[h].pc = "sequence"
    /\ handler' = [handler EXCEPT ![h].pc = "probe", ![h].seq = NextChannelSeq,
                                  ![h].n = NextChannelSeq]
    /\ UNCHANGED <<rows, grant, user, deleter, granter, grants, rotations, faults>>

\* ChannelNameExists, deleted rows included.
NameTaken(h) ==
    \E i \in DOMAIN rows : rows[i].name = [tag |-> handler[h].tag, n |-> handler[h].n]

\* The number after one that is taken; after the last try, the first again.
Retried(h) ==
    IF handler[h].n + 1 < handler[h].seq + ProbeLimit
    THEN handler[h].n + 1 ELSE handler[h].seq

Exhausted(h) == handler[h].n + 1 >= handler[h].seq + ProbeLimit

\* One turn of the loop of generateChannelName.
Probe(h) ==
    /\ handler[h].pc = "probe"
    /\ handler' =
         IF ~NameTaken(h) THEN [handler EXCEPT ![h].pc = "insert"]
         ELSE [handler EXCEPT ![h].n = Retried(h),
                              ![h].pc = IF Exhausted(h) THEN "insert" ELSE "probe"]
    /\ UNCHANGED <<rows, grant, user, deleter, granter, grants, rotations, faults>>

Insert(h) ==
    /\ handler[h].pc = "insert"
    /\ rows' = Append(rows, [fp |-> handler[h].fp, live |-> TRUE,
                             name |-> [tag |-> handler[h].tag, n |-> handler[h].n]])
    /\ Ends(h)
    /\ UNCHANGED <<grant, user, deleter, granter, grants, rotations, faults>>

\* The errors of the two checks are dropped: the count is then 0, the duplicate
\* false, and the request goes on.
CheckFails(h) ==
    /\ Fault
    /\ \/ /\ handler[h].pc = "count" /\ handler[h].max > 0
          /\ handler' = [handler EXCEPT ![h].pc = "duplicate"]
       \/ /\ handler[h].pc = "duplicate"
          /\ handler' = [handler EXCEPT ![h].pc = "sequence"]
    /\ UNCHANGED <<rows, grant, user, deleter, granter, grants, rotations>>

\* Any other statement that fails ends the request.
StatementFails(h) ==
    /\ handler[h].pc \in {"sequence", "probe", "insert", "rotate"}
    /\ Fault
    /\ Ends(h)
    /\ UNCHANGED <<rows, grant, user, deleter, granter, grants, rotations>>

-----------------------------------------------------------------------------
(* Rotation and deletion of a channel. *)

\* UpdateChannel with a key: GetChannelForUser and authorizePlatform.
BeginRotate(h, i, k) ==
    /\ rotations < MaxRotations
    /\ handler[h].pc = "idle"
    /\ i \in Live
    /\ grant.state = "enabled"
    /\ handler' = [handler EXCEPT ![h] =
                     [IdleHandler EXCEPT !.pc = "rotate", !.id = i, !.fp = k]]
    /\ rotations' = rotations + 1
    /\ UNCHANGED <<rows, grant, user, deleter, granter, grants, faults>>

\* ReplaceKey: no look for the same key; nothing on a deleted row.
Rotate(h) ==
    /\ handler[h].pc = "rotate"
    /\ rows' = IF handler[h].id \in Live
               THEN [rows EXCEPT ![handler[h].id].fp = handler[h].fp] ELSE rows
    /\ Ends(h)
    /\ UNCHANGED <<grant, user, deleter, granter, grants, rotations, faults>>

\* SoftDeleteForUser.
DeleteChannel(i) ==
    /\ i \in Live
    /\ rows' = [rows EXCEPT ![i].live = FALSE]
    /\ UNCHANGED <<grant, user, handler, deleter, granter, grants, rotations, faults>>

-----------------------------------------------------------------------------
(* Administrators. *)

\* UpsertGrant, GetUserById.
UpsertBegin(g) ==
    /\ granter.pc = "idle"
    /\ grants < MaxGrants
    /\ user = "present"
    /\ granter' = [pc |-> "find", row |-> g]
    /\ grants' = grants + 1
    /\ UNCHANGED <<rows, grant, user, handler, deleter, rotations, faults>>

\* UpsertGrant looks for a row of the pair, enabled or not.
UpsertFind ==
    /\ granter.pc = "find"
    /\ granter' = [granter EXCEPT !.pc =
                     IF grant.state = "none" THEN "create" ELSE "update"]
    /\ UNCHANGED <<rows, grant, user, handler, deleter, grants, rotations, faults>>

\* UpsertGrant writes: an UPDATE of a row that is gone changes nothing.
UpsertWrite ==
    /\ granter.pc \in {"create", "update"}
    /\ grant' = IF granter.pc = "update" /\ grant.state = "none"
                THEN grant ELSE granter.row
    /\ granter' = [pc |-> "idle", row |-> NoGrant]
    /\ UNCHANGED <<rows, user, handler, deleter, grants, rotations, faults>>

DeleteGrant ==
    /\ grant' = NoGrant
    /\ UNCHANGED <<rows, user, handler, deleter, granter, grants, rotations, faults>>

\* The statements of DeleteUser, in their order.
Cascade_ChannelsFirst == <<"channels", "grants", "user">>

Cascade == <<"grants", "channels", "user">>

DeleteUserBegin ==
    /\ deleter = 0
    /\ deleter' = 1
    /\ UNCHANGED <<rows, grant, user, handler, granter, grants, rotations, faults>>

DeleteUserStep ==
    /\ deleter > 0
    /\ grant' = IF Cascade[deleter] = "grants" THEN NoGrant ELSE grant
    /\ rows' = IF Cascade[deleter] = "channels"
               THEN [i \in DOMAIN rows |-> [rows[i] EXCEPT !.live = FALSE]] ELSE rows
    /\ user' = IF Cascade[deleter] = "user" THEN "gone" ELSE user
    /\ deleter' = IF deleter = Len(Cascade) THEN 0 ELSE deleter + 1
    /\ UNCHANGED <<handler, granter, grants, rotations, faults>>

\* A statement of DeleteUser fails: those before it stay done.
DeleteUserFails ==
    /\ deleter > 0
    /\ Fault
    /\ deleter' = 0
    /\ UNCHANGED <<rows, grant, user, handler, granter, grants, rotations>>

-----------------------------------------------------------------------------
HandlerSteps(h) ==
    \/ CheckQuota(h)
    \/ CheckDuplicate(h)
    \/ ReadSequence(h)
    \/ Probe(h)
    \/ Insert(h)
    \/ Rotate(h)

Next ==
    \/ \E h \in Handlers :
         \/ \E k \in Keys, t \in Tags : Authorize(h, k, t)
         \/ HandlerSteps(h)
         \/ CheckFails(h)
         \/ StatementFails(h)
         \/ \E i \in DOMAIN rows, k \in Keys : BeginRotate(h, i, k)
    \/ \E i \in DOMAIN rows : DeleteChannel(i)
    \/ \E g \in GrantRows \ {NoGrant} : UpsertBegin(g)
    \/ UpsertFind
    \/ UpsertWrite
    \/ DeleteGrant
    \/ DeleteUserBegin
    \/ DeleteUserStep
    \/ DeleteUserFails

Spec == Init /\ [][Next]_vars

-----------------------------------------------------------------------------
(* Properties. *)

\* Types; channel numbers are 1-based (model/channel.go:276-288).
TypeOK ==
    /\ rows \in Seq(Rows)
    /\ \A i \in DOMAIN rows : rows[i].name.n > 0
    /\ grant \in GrantRows
    /\ user \in {"present", "gone"}
    /\ handler \in [Handlers -> HandlerStates]
    /\ deleter \in 0 .. Len(Cascade)
    /\ granter \in [pc : {"idle", "find", "create", "update"}, row : GrantRows]
    /\ grants \in Nat /\ rotations \in Nat
    /\ faults \in Nat /\ faults <= MaxFaults

\* No number runs ahead of the table, though a request numbers its row from a
\* count that is stale by the time it inserts and others delete rows meanwhile:
\* a row's number is at most the rows ever inserted, and a number that is tried
\* at most one more.  So the loop of generateChannelName (controller/
\* supplier_channel.go:350-361) gives up only if a request sees ProbeLimit rows
\* inserted under it.
NumbersWithinCount ==
    /\ \A i \in DOMAIN rows : rows[i].name.n <= Len(rows)
    /\ \A h \in Handlers :
         handler[h].pc \in {"probe", "insert"} => handler[h].n <= Len(rows) + 1

Inserting == {h \in Handlers : handler[h].pc \in {"duplicate", "sequence", "probe", "insert"}}

\* The quota (controller/supplier_channel.go:121-127) is overtaken at most by
\* the requests that were past the check together and by failed counts: there is
\* a quota administrators give, the largest, that leaves room for what is there.
QuotaOvershootBounded ==
    0 \notin Quotas /\ Quotas # {} =>
        \E q \in Quotas :
            Cardinality(Live) + Cardinality(Inserting)
              < q + Cardinality(Handlers) + faults

SameKey(k) == {i \in Live : rows[i].fp = k}

\* A key is on no more live channels than there are requests at one time, plus
\* failed checks (supplier_channel.go:139-143), plus rotations, which look for
\* no duplicate (supplier_channel.go:240-252).
SameKeyBounded ==
    \A k \in Keys :
        Cardinality(SameKey(k)) <= Cardinality(Handlers) + faults + rotations

\* A deleted account leaves behind no more channels than requests that were in
\* flight when its grants went: what begins later is not authorized, unless an
\* administrator has granted since (the order of the statements of
\* model.DeleteUser, model/user.go:145-153).
LeftoversBounded ==
    grants = 0 /\ user = "gone" =>
        Cardinality(Live) + Cardinality(Busy) <= Cardinality(Handlers)
===============================================================================
