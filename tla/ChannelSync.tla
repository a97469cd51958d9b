----------------------------- MODULE ChannelSync -----------------------------
(***************************************************************************)
(* The life of uploaded channel keys on one AGT platform: the HTTP handlers *)
(* that create, edit, rotate, resync and delete channels                    *)
(* (controller/supplier_channel.go), the background goroutines that forward *)
(* them (service/sync/worker.go), the channels table they share             *)
(* (model/channel.go) and the AGT platform they publish to                  *)
(* (service/agt/client.go, external).                                       *)
(*                                                                         *)
(* A handler or a goroutine takes one step per database statement and one   *)
(* per AGT request; what it computes in between is local and belongs to the *)
(* step.  Nothing serialises the goroutines of one channel.                 *)
(***************************************************************************)
EXTENDS Naturals, FiniteSets

CONSTANTS
    Channels,       \* ids of the channels table
    Workers,        \* goroutines that can run SyncChannel at one time
    Handlers,       \* HTTP requests that can be served at one time
    Keys,           \* plaintext keys suppliers upload
    Models,         \* values of the models column
    RemoteIds,      \* ids AGT can hand out
    KEKs,           \* master keys the process may be started with
    None,           \* no key, no id, no channel: "" and 0 in the code
    MaxSyncRetries, \* constant.MaxSyncRetries
    EditKinds,      \* what UpdateChannel requests change: "models", "key"
    AttemptCap,     \* bound: no edit starts on a row with more attempts
    MaxStrays,      \* bound: abandoned requests AGT may still apply
    MaxFaults       \* bound: database errors and restarts

ASSUME NoneIsFresh ==
    None \notin Channels \cup Keys \cup Models \cup RemoteIds \cup KEKs

ASSUME BoundsAreNaturals ==
    /\ MaxSyncRetries \in Nat /\ AttemptCap \in Nat
    /\ MaxStrays \in Nat /\ MaxFaults \in Nat

ASSUME ProcessesAreFinite == IsFiniteSet(Workers) /\ IsFiniteSet(Handlers)

VARIABLES
    rows,      \* the channels table
    worker,    \* the SyncChannel goroutines
    handler,   \* the HTTP handlers
    remote,    \* AGT's channels, "owner" is the channel whose POST made one
    strays,    \* requests whose sender has given up, not yet applied by AGT
    platform,  \* the platform row: present or gone, and its sealed token
    admin,     \* the DeletePlatform handler
    kek,       \* the master key of the running process
    faults     \* database errors and restarts so far

vars == <<rows, worker, handler, remote, strays, platform, admin, kek, faults>>

-----------------------------------------------------------------------------
(* The channels table.  An operator named X_Y is X with the slip Y: nothing    *)
(* uses it, it is there to put in the place of X and see a property fail.     *)

NoBlob == [key |-> None, kek |-> None]

Blobs == [key : Keys, kek : KEKs] \cup {NoBlob}

Rows == [life : {"absent", "live", "deleted"},
         enc : Blobs,                       \* EncKey
         fp : Keys \cup {None},             \* KeyFingerprint
         keyState : {"pending", "synced", "failed"},
         models : Models \cup {None},
         remote : RemoteIds \cup {None},    \* RemoteId
         syncStatus : {0, 1, 2},            \* 0 pending, 1 synced, 2 failed
         attempts : Nat]                    \* SyncAttempts

AbsentRow ==
    [life |-> "absent", enc |-> NoBlob, fp |-> None, keyState |-> "pending",
     models |-> None, remote |-> None, syncStatus |-> 0, attempts |-> 0]

Sealed(k) == [key |-> k, kek |-> kek]

CreatedRow_Plaintext(k, m) ==
    [AbsentRow EXCEPT !.life = "live", !.enc = k, !.fp = k, !.models = m]

CreatedRow(k, m) ==
    [AbsentRow EXCEPT !.life = "live", !.enc = Sealed(k), !.fp = k, !.models = m]

HasRecoverableKey(r) == r.enc # NoBlob /\ r.keyState # "synced"

SyncedRow_KeepsKey(r, id) ==
    [r EXCEPT !.keyState = "synced", !.remote = id, !.syncStatus = 1]

SyncedRow(r, id) ==
    [r EXCEPT !.enc = NoBlob, !.keyState = "synced", !.remote = id,
              !.syncStatus = 1]

FailedRow_Wipes(r) ==
    [r EXCEPT !.enc = NoBlob, !.keyState = "failed", !.syncStatus = 2,
              !.attempts = r.attempts + 1]

FailedRow_StaysPending(r) ==
    [r EXCEPT !.syncStatus = 2, !.attempts = r.attempts + 1]

FailedRow(r) ==
    [r EXCEPT !.keyState = "failed", !.syncStatus = 2,
              !.attempts = r.attempts + 1]

MetadataSyncedRow_Wipes(r) == [r EXCEPT !.enc = NoBlob, !.syncStatus = 1]

MetadataSyncedRow_NoStatus(r) == r

MetadataSyncedRow(r) == [r EXCEPT !.syncStatus = 1]

EditedRow(r, m) == [r EXCEPT !.models = m, !.syncStatus = 0]

RekeyedRow_KeepsAttempts(r, k) ==
    [r EXCEPT !.enc = Sealed(k), !.fp = k, !.keyState = "pending",
              !.syncStatus = 0]

RekeyedRow(r, k) ==
    [r EXCEPT !.enc = Sealed(k), !.fp = k, !.keyState = "pending",
              !.syncStatus = 0, !.attempts = 0]

Updated_Unscoped(c, r) == [rows EXCEPT ![c] = r]

\* gorm updates WHERE deleted_at IS NULL: on a soft-deleted row an update
\* matches nothing, and no caller looks at the number of rows it changed.
Updated(c, r) ==
    IF rows[c].life = "live" THEN [rows EXCEPT ![c] = r] ELSE rows

-----------------------------------------------------------------------------
(* AGT. *)

Templates == [owner : Channels \cup {None}, key : Keys \cup {None},
              models : Models \cup {None}]

NoTemplate == [owner |-> None, key |-> None, models |-> None]

Requests == [ch : Channels, rid : RemoteIds \cup {None},
             key : Keys \cup {None}, models : Models]

Put_Clears(t, q) == [t EXCEPT !.key = q.key, !.models = q.models]

\* A PUT without a key keeps the upstream key.
Put(t, q) ==
    [t EXCEPT !.key = IF q.key = None THEN @ ELSE q.key, !.models = q.models]

\* AGT applies request q to template id: a POST takes an unused id.
AgtApplies(q, id) ==
    \/ /\ q.rid = None
       /\ remote[id].owner = None
       /\ remote' = [remote EXCEPT ![id] =
                       [owner |-> q.ch, key |-> q.key, models |-> q.models]]
    \/ /\ q.rid = id
       /\ remote' = [remote EXCEPT ![id] = Put(@, q)]

-----------------------------------------------------------------------------
(* Processes. *)

WorkerStates ==
    [pc : {"idle", "started", "loaded", "await", "answered"},
     ch : Channels \cup {None}, rid : RemoteIds \cup {None}, blob : Blobs,
     models : Models \cup {None}]

HandlerStates ==
    [pc : {"idle", "insert", "edit", "rotate", "dispatch"},
     ch : Channels \cup {None}, key : Keys \cup {None},
     models : Models \cup {None}]

IdleWorker == [pc |-> "idle", ch |-> None, rid |-> None, blob |-> NoBlob,
               models |-> None]

IdleHandler == [pc |-> "idle", ch |-> None, key |-> None, models |-> None]

Request(w) == [ch |-> worker[w].ch, rid |-> worker[w].rid,
               key |-> worker[w].blob.key, models |-> worker[w].models]

WorkerEnds(w) == worker' = [worker EXCEPT ![w] = IdleWorker]

HandlerEnds(h) == handler' = [handler EXCEPT ![h] = IdleHandler]

\* The request of a worker that stops waiting is rejected, lost, or stays on
\* its way to AGT.
Abandons(w) ==
    \/ strays' = strays
    \/ /\ worker[w].pc = "await"
       /\ Cardinality(strays) < MaxStrays
       /\ strays' = strays \cup {Request(w)}

Fault == faults < MaxFaults /\ faults' = faults + 1

Init ==
    /\ rows = [c \in Channels |-> AbsentRow]
    /\ worker = [w \in Workers |-> IdleWorker]
    /\ handler = [h \in Handlers |-> IdleHandler]
    /\ remote = [id \in RemoteIds |-> NoTemplate]
    /\ strays = {}
    /\ platform = [life |-> "present", token |-> None]
    /\ admin = "idle"
    /\ kek \in KEKs
    /\ faults = 0

-----------------------------------------------------------------------------
(* Supplier handlers. *)

\* CreateChannel, up to the INSERT: authorizePlatform finds the platform.
CreateAuthorize(h, k, m) ==
    /\ handler[h].pc = "idle"
    /\ platform.life = "present"
    /\ handler' = [handler EXCEPT ![h] =
                     [pc |-> "insert", ch |-> None, key |-> k, models |-> m]]
    /\ UNCHANGED <<rows, worker, remote, strays, platform, admin, kek, faults>>

\* CreateChannel, the INSERT of the pending row.
CreateInsert(h, c) ==
    /\ handler[h].pc = "insert"
    /\ rows[c].life = "absent"
    /\ rows' = [rows EXCEPT ![c] = CreatedRow(handler[h].key, handler[h].models)]
    /\ handler' = [handler EXCEPT ![h].pc = "dispatch", ![h].ch = c]
    /\ UNCHANGED <<worker, remote, strays, platform, admin, kek, faults>>

\* What an UpdateChannel request may ask for.
EditRequests(c) ==
    {e \in [models : Models, key : Keys \cup {None}] :
        /\ "models" \in EditKinds \/ (e.models = rows[c].models /\ e.key # None)
        /\ "key" \in EditKinds \/ e.key = None}

\* UpdateChannel, GetChannelForUser and authorizePlatform.
EditRead(h, c) ==
    /\ handler[h].pc = "idle"
    /\ rows[c].life = "live"
    /\ rows[c].attempts <= AttemptCap
    /\ platform.life = "present"
    /\ \E e \in EditRequests(c) :
         handler' = [handler EXCEPT ![h] =
                       [pc |-> "edit", ch |-> c, key |-> e.key, models |-> e.models]]
    /\ UNCHANGED <<rows, worker, remote, strays, platform, admin, kek, faults>>

\* UpdateChannel, UpdateMetadata.
EditWrite(h) ==
    /\ handler[h].pc = "edit"
    /\ LET c == handler[h].ch
       IN  rows' = Updated(c, EditedRow(rows[c], handler[h].models))
    /\ handler' = [handler EXCEPT ![h].pc =
                     IF handler[h].key = None THEN "dispatch" ELSE "rotate"]
    /\ UNCHANGED <<worker, remote, strays, platform, admin, kek, faults>>

\* UpdateChannel, ReplaceKey.
Rotate(h) ==
    /\ handler[h].pc = "rotate"
    /\ LET c == handler[h].ch
       IN  rows' = Updated(c, RekeyedRow(rows[c], handler[h].key))
    /\ handler' = [handler EXCEPT ![h].pc = "dispatch"]
    /\ UNCHANGED <<worker, remote, strays, platform, admin, kek, faults>>

\* ResyncChannel: the retry budget is read here, spent by the worker later.
ResyncCheck(h, c) ==
    /\ handler[h].pc = "idle"
    /\ rows[c].life = "live"
    /\ rows[c].attempts < MaxSyncRetries
    /\ handler' = [handler EXCEPT ![h] =
                     [IdleHandler EXCEPT !.pc = "dispatch", !.ch = c]]
    /\ UNCHANGED <<rows, worker, remote, strays, platform, admin, kek, faults>>

\* dispatchSync: the go statement that ends create, update and resync.
Dispatch(h, w) ==
    /\ handler[h].pc = "dispatch"
    /\ worker[w].pc = "idle"
    /\ worker' = [worker EXCEPT ![w] =
                    [IdleWorker EXCEPT !.pc = "started", !.ch = handler[h].ch]]
    /\ HandlerEnds(h)
    /\ UNCHANGED <<rows, remote, strays, platform, admin, kek, faults>>

\* A statement of the handler fails: it answers 500 and dispatches nothing.
HandlerDbError(h) ==
    /\ handler[h].pc \in {"insert", "edit", "rotate"}
    /\ Fault
    /\ HandlerEnds(h)
    /\ UNCHANGED <<rows, worker, remote, strays, platform, admin, kek>>

\* DeleteChannel, and each row of DeleteUser: a soft delete.
DeleteChannel(c) ==
    /\ rows[c].life = "live"
    /\ rows' = [rows EXCEPT ![c].life = "deleted"]
    /\ UNCHANGED <<worker, handler, remote, strays, platform, admin, kek, faults>>

-----------------------------------------------------------------------------
(* The SyncChannel goroutine. *)

\* LoadChannelForSync finds the row; HasRecoverableKey picks the kind of sync.
Load(w) ==
    /\ worker[w].pc = "started"
    /\ LET r == rows[worker[w].ch]
       IN  /\ r.life = "live"
           /\ worker' = [worker EXCEPT
                ![w].pc = "loaded", ![w].rid = r.remote, ![w].models = r.models,
                ![w].blob = IF HasRecoverableKey(r) THEN r.enc ELSE NoBlob]
    /\ UNCHANGED <<rows, handler, remote, strays, platform, admin, kek, faults>>

\* LoadChannelForSync does not see a soft-deleted row.
LoadMissing(w) ==
    /\ worker[w].pc = "started"
    /\ rows[worker[w].ch].life # "live"
    /\ WorkerEnds(w)
    /\ UNCHANGED <<rows, handler, remote, strays, platform, admin, kek, faults>>

\* GetPlatformById fails: the goroutine returns without a mark.
PlatformMissing(w) ==
    /\ worker[w].pc = "loaded"
    /\ platform.life = "gone"
    /\ WorkerEnds(w)
    /\ UNCHANGED <<rows, handler, remote, strays, platform, admin, kek, faults>>

\* The token opens, the key (if there is one) opens, and there is either a key
\* to create a template with or a template to update.
Sendable(w) ==
    /\ platform.token = kek
    /\ worker[w].blob # NoBlob => worker[w].blob.kek = kek
    /\ worker[w].blob = NoBlob => worker[w].rid # None

\* A MarkFailed before any request is sent.
CannotSend(w) ==
    /\ worker[w].pc = "loaded"
    /\ platform.life = "present"
    /\ ~Sendable(w)
    /\ LET c == worker[w].ch IN rows' = Updated(c, FailedRow(rows[c]))
    /\ WorkerEnds(w)
    /\ UNCHANGED <<handler, remote, strays, platform, admin, kek, faults>>

\* The POST or PUT leaves.
Send(w) ==
    /\ worker[w].pc = "loaded"
    /\ platform.life = "present"
    /\ Sendable(w)
    /\ worker' = [worker EXCEPT ![w].pc = "await"]
    /\ UNCHANGED <<rows, handler, remote, strays, platform, admin, kek, faults>>

\* AGT applies the request and answers success with the id.
AgtApply(w, id) ==
    /\ worker[w].pc = "await"
    /\ AgtApplies(Request(w), id)
    /\ worker' = [worker EXCEPT ![w].pc = "answered", ![w].rid = id]
    /\ UNCHANGED <<rows, handler, strays, platform, admin, kek, faults>>

\* The answer to a request that carried a key arrives: MarkSynced.
MarkSynced(w) ==
    /\ worker[w].pc = "answered"
    /\ worker[w].blob # NoBlob
    /\ LET c == worker[w].ch
       IN  rows' = Updated(c, SyncedRow(rows[c], worker[w].rid))
    /\ WorkerEnds(w)
    /\ UNCHANGED <<handler, remote, strays, platform, admin, kek, faults>>

\* The answer to a metadata-only PUT arrives: MarkMetadataSynced.
MarkMetadataSynced(w) ==
    /\ worker[w].pc = "answered"
    /\ worker[w].blob = NoBlob
    /\ LET c == worker[w].ch IN rows' = Updated(c, MetadataSyncedRow(rows[c]))
    /\ WorkerEnds(w)
    /\ UNCHANGED <<handler, remote, strays, platform, admin, kek, faults>>

GivesUp_NeverUnanswered(w) == worker[w].pc = "answered"

\* client.do returns an error: an answer can be bad, no answer is waited for
\* longer than the time limits.
GivesUp(w) == worker[w].pc \in {"await", "answered"}

\* AGT rejects the request, or the answer is an error, lost or late: MarkFailed.
SyncFails(w) ==
    /\ GivesUp(w)
    /\ LET c == worker[w].ch IN rows' = Updated(c, FailedRow(rows[c]))
    /\ Abandons(w)
    /\ WorkerEnds(w)
    /\ UNCHANGED <<handler, remote, platform, admin, kek, faults>>

\* A statement of the goroutine fails: it ends, whatever AGT did.
WorkerDbError(w) ==
    /\ worker[w].pc # "idle"
    /\ Fault
    /\ Abandons(w)
    /\ WorkerEnds(w)
    /\ UNCHANGED <<rows, handler, remote, platform, admin, kek>>

\* AGT applies a request nobody waits for any more.
AgtApplyStray(q, id) ==
    /\ AgtApplies(q, id)
    /\ strays' = strays \ {q}
    /\ UNCHANGED <<rows, worker, handler, platform, admin, kek, faults>>

-----------------------------------------------------------------------------
(* Administrators and the process itself. *)

\* CreatePlatform seals the token after the row exists; UpdatePlatform may
\* seal another.
SetModexToken ==
    /\ platform.life = "present"
    /\ platform' = [platform EXCEPT !.token = kek]
    /\ UNCHANGED <<rows, worker, handler, remote, strays, admin, kek, faults>>

\* DeletePlatform, the count of the channels that reference it.
DeletePlatformCount ==
    /\ admin = "idle"
    /\ platform.life = "present"
    /\ \A c \in Channels : rows[c].life # "live"
    /\ admin' = "counted"
    /\ UNCHANGED <<rows, worker, handler, remote, strays, platform, kek, faults>>

\* DeletePlatform, the deletes that follow.
DeletePlatformRow ==
    /\ admin = "counted"
    /\ platform' = [platform EXCEPT !.life = "gone"]
    /\ admin' = "idle"
    /\ UNCHANGED <<rows, worker, handler, remote, strays, kek, faults>>

\* The process dies and comes back, perhaps with another MASTER_KEK.  Handlers
\* and goroutines are lost; main dispatches nothing for the rows they left.
Restart ==
    /\ Fault
    /\ worker' = [w \in Workers |-> IdleWorker]
    /\ handler' = [h \in Handlers |-> IdleHandler]
    /\ \E lost \in SUBSET {Request(w) : w \in {v \in Workers : worker[v].pc = "await"}} :
         /\ Cardinality(strays \cup lost) <= MaxStrays
         /\ strays' = strays \cup lost
    /\ admin' = "idle"
    /\ kek' \in KEKs
    /\ UNCHANGED <<rows, remote, platform>>

-----------------------------------------------------------------------------
HandlerSteps(h) ==
    \/ \E c \in Channels : CreateInsert(h, c)
    \/ EditWrite(h)
    \/ Rotate(h)

WorkerSteps(w) ==
    \/ Load(w)
    \/ LoadMissing(w)
    \/ PlatformMissing(w)
    \/ CannotSend(w)
    \/ Send(w)
    \/ MarkSynced(w)
    \/ MarkMetadataSynced(w)
    \/ SyncFails(w)

Next ==
    \/ \E h \in Handlers :
         \/ \E k \in Keys, m \in Models : CreateAuthorize(h, k, m)
         \/ HandlerSteps(h)
         \/ \E c \in Channels : EditRead(h, c) \/ ResyncCheck(h, c)
         \/ \E w \in Workers : Dispatch(h, w)
         \/ HandlerDbError(h)
    \/ \E w \in Workers :
         \/ WorkerSteps(w)
         \/ \E id \in RemoteIds : AgtApply(w, id)
         \/ WorkerDbError(w)
    \/ \E q \in strays, id \in RemoteIds : AgtApplyStray(q, id)
    \/ \E c \in Channels : DeleteChannel(c)
    \/ SetModexToken
    \/ DeletePlatformCount
    \/ DeletePlatformRow
    \/ Restart

Spec == Init /\ [][Next]_vars

\* Goroutines and handlers are scheduled, every AGT call has a time limit (30s
\* in the client, 45s in dispatchSync), and the go statement does not block:
\* that it waits for an idle worker is a bound of this model, hence SF.
Fairness ==
    /\ \A w \in Workers : WF_vars(WorkerSteps(w))
    /\ \A h \in Handlers : /\ WF_vars(HandlerSteps(h))
                           /\ SF_vars(\E w \in Workers : Dispatch(h, w))

FairSpec == Spec /\ Fairness

-----------------------------------------------------------------------------
(* Properties. *)

\* Every column, goroutine and request has its type; above all, what enc_key
\* holds is a sealed blob or nothing, never a plaintext key
\* (model/channel.go:33, "sealed; WIPED after sync").
TypeOK ==
    /\ rows \in [Channels -> Rows]
    /\ worker \in [Workers -> WorkerStates]
    /\ handler \in [Handlers -> HandlerStates]
    /\ remote \in [RemoteIds -> Templates]
    /\ strays \subseteq Requests
    /\ platform \in [life : {"present", "gone"}, token : KEKs \cup {None}]
    /\ admin \in {"idle", "counted"}
    /\ kek \in KEKs
    /\ faults \in Nat /\ faults <= MaxFaults

\* A row that says synced holds no key, whatever rotations, resyncs and late
\* goroutines did to it (MarkSynced wipes and marks in one statement,
\* model/channel.go:88-100; ReplaceKey re-arms and unmarks in one, 230-241).
SyncedHoldsNoKey ==
    \A c \in Channels : rows[c].keyState = "synced" => rows[c].enc = NoBlob

\* A channel whose key is gone from the database was published: the row names
\* a template of AGT that this channel's own POST created.  So the branch "no
\* key available to publish; supplier must re-upload" (service/sync/
\* worker.go:94-97) is never reached, and no failure, retry, crash or race
\* destroys a key before AGT has accepted one for the channel.
KeylessIsPublished ==
    \A c \in Channels :
        rows[c].life # "absent" /\ rows[c].enc = NoBlob =>
            /\ rows[c].remote \in RemoteIds
            /\ remote[rows[c].remote].owner = c

\* A key disappears from a row only by the success of a goroutine that sent a
\* key of that channel: not by a failure, an edit, or the success of a
\* metadata-only PUT that overlaps a rotation (service/sync/worker.go:63-104).
WipeNeedsAcceptance ==
    [][\A c \in Channels :
         rows[c].enc # NoBlob /\ rows'[c].enc = NoBlob =>
           \E w \in Workers : /\ worker[w].pc = "answered"
                              /\ worker[w].ch = c
                              /\ worker[w].blob # NoBlob
                              /\ remote[worker[w].rid].owner = c]_vars

\* Nothing a goroutine or a handler still has in flight changes a row after its
\* soft delete (gorm's deleted_at IS NULL, model/channel.go:90-247).
DeletedRowFrozen ==
    [][\A c \in Channels : rows[c].life = "deleted" => rows'[c] = rows[c]]_vars

\* How many syncs of c have been allowed to start and have not ended.
Outstanding(c) ==
    Cardinality({w \in Workers : worker[w].ch = c})
      + Cardinality({h \in Handlers : handler[h].pc = "dispatch" /\ handler[h].ch = c})

\* When the only edits are rotations, the check of ResyncChannel
\* (controller/supplier_channel.go:292) can be overtaken only by the syncs that
\* were already under way: the attempts exceed MaxSyncRetries by less than the
\* number of goroutines and requests that run at one time.
RetryOvershootBounded ==
    \A c \in Channels : rows[c].life = "live" =>
        rows[c].attempts + Outstanding(c)
          < MaxSyncRetries + Cardinality(Workers) + Cardinality(Handlers)

KeyAccepted(c) ==
    rows[c].keyState = "synced" =>
        /\ rows[c].remote \in RemoteIds
        /\ remote[rows[c].remote].key = rows[c].fp

\* A synced row's fingerprint is the fingerprint of the key AGT uses for it
\* (constant/role.go:25, "synced - AGT accepted it").  It holds as long as
\* nobody rotates keys: metadata edits and resyncs that overlap do not break it.
SyncedKeyWasAccepted == \A c \in Channels : KeyAccepted(c)

\* Nobody is doing or going to do anything to c.
Settled(c) ==
    /\ \A w \in Workers : worker[w].ch # c
    /\ \A h \in Handlers : handler[h].ch # c
    /\ \A q \in strays : q.ch # c

\* The same once everything has settled: constant/role.go:25 of a channel whose
\* key was rotated.
CurrentKeySurvives ==
    \A c \in Channels : Settled(c) /\ rows[c].life = "live" => KeyAccepted(c)

\* README.md:37, "After a successful sync, a database dump contains no
\* recoverable key".
SuccessWipesKey ==
    [][\A w \in Workers :
         MarkSynced(w) => rows'[worker[w].ch].enc = NoBlob]_vars

\* sync_status 1 is shown as synced: once everything has settled, AGT has the
\* models the row has (model/channel.go:222, an edit "needs re-sync to AGT").
SyncedMeansPublished ==
    \A c \in Channels :
        Settled(c) /\ rows[c].life = "live" /\ rows[c].syncStatus = 1 =>
            remote[rows[c].remote].models = rows[c].models

\* Every SyncChannel goroutine ends (the time limits of service/agt/client.go
\* and of dispatchSync, controller/supplier_channel.go:383).
SyncTerminates == \A w \in Workers : worker[w].pc # "idle" ~> worker[w].pc = "idle"

\* An uploaded or rotated key does not stay pending: the sync it dispatches
\* marks it synced or failed, unless the supplier deletes the channel or the
\* platform is gone (service/sync/worker.go:28-89).
UploadGetsOutcome ==
    \A c \in Channels :
        rows[c].life = "live" /\ rows[c].keyState = "pending"
          ~> \/ rows[c].keyState # "pending"
             \/ rows[c].life = "deleted"
             \/ platform.life = "gone"

\* Nor does an edit stay unsynced (controller/supplier_channel.go:234-255).
EditGetsOutcome ==
    \A c \in Channels :
        rows[c].life = "live" /\ rows[c].syncStatus = 0
          ~> \/ rows[c].syncStatus # 0
             \/ rows[c].life = "deleted"
             \/ platform.life = "gone"

\* The refinement of the custody contract.
CustodyOf(c) ==
    IF rows[c].life = "absent" THEN "none"
    ELSE IF rows[c].enc # NoBlob THEN "held" ELSE "destroyed"

Custody == INSTANCE KeyCustody WITH
    custody <- [c \in Channels |-> CustodyOf(c)],
    published <- {remote[id].owner : id \in RemoteIds} \ {None},
    closed <- {c \in Channels : rows[c].life = "deleted"}

\* The handlers, goroutines and tables above keep the promise of KeyCustody.
KeepsCustody == Custody!CSpec
=============================================================================
