-------------------------- MODULE ChannelSyncProofs --------------------------
(***************************************************************************)
(* Machine-checked proofs about ChannelSync, for every number of channels,  *)
(* goroutines, handlers, keys, templates and faults.                        *)
(*                                                                         *)
(* The inductive invariant IInv adds to the stated invariants what the      *)
(* processes carry from one of their steps to a later one: the row a        *)
(* goroutine or handler works on exists, and every template id that a row,  *)
(* a goroutine or an abandoned request names was created for that channel.  *)
(* RetryInv, KeysInv, ModelsInv and WatchInv extend it for the later          *)
(* theorems, by what a request may ask for, what AGT has of a channel and     *)
(* who is about to sync it.                                                  *)
(***************************************************************************)
EXTENDS ChannelSync, Counting

-----------------------------------------------------------------------------
(* The inductive invariant. *)

\* c names template id: the POST that made it was sent for c.
Owns(c, id) == id \in RemoteIds /\ remote[id].owner = c

RowsOK ==
    \A c \in Channels :
        /\ rows[c].life = "absent" => rows[c].keyState # "synced"
        /\ rows[c].life # "absent" => rows[c].models \in Models
        /\ rows[c].remote # None => Owns(c, rows[c].remote)

WorkersOK ==
    \A w \in Workers : worker[w].pc # "idle" =>
        /\ worker[w].ch \in Channels
        /\ rows[worker[w].ch].life # "absent"
        /\ worker[w].rid # None => Owns(worker[w].ch, worker[w].rid)
        /\ worker[w].pc \in {"loaded", "await"} => worker[w].models \in Models
        /\ worker[w].pc = "answered" => worker[w].rid # None

HandlersOK ==
    \A h \in Handlers :
        /\ handler[h].pc \in {"edit", "rotate", "dispatch"} =>
             /\ handler[h].ch \in Channels
             /\ rows[handler[h].ch].life # "absent"
        /\ handler[h].pc \in {"insert", "edit"} => handler[h].models \in Models
        /\ handler[h].pc \in {"insert", "rotate"} => handler[h].key \in Keys

StraysOK ==
    \A q \in strays :
        /\ rows[q.ch].life # "absent"
        /\ q.rid # None => Owns(q.ch, q.rid)

IInv ==
    /\ TypeOK
    /\ RowsOK
    /\ WorkersOK
    /\ HandlersOK
    /\ StraysOK
    /\ SyncedHoldsNoKey
    /\ KeylessIsPublished

-----------------------------------------------------------------------------
(* The rows the statements of model/channel.go write. *)

LEMMA SealedFacts ==
    ASSUME NEW k \in Keys, kek \in KEKs
    PROVE  Sealed(k) \in Blobs /\ Sealed(k) # NoBlob
BY NoneIsFresh DEF Sealed, Blobs, NoBlob

LEMMA AbsentRowFacts ==
    /\ AbsentRow \in Rows
    /\ AbsentRow.keyState = "pending"
    /\ AbsentRow.remote = None
    /\ AbsentRow.life = "absent"
    /\ AbsentRow.attempts = 0
<1>1. NoBlob \in Blobs
  BY DEF Blobs
<1>2. QED
  BY <1>1 DEF AbsentRow, Rows

LEMMA CreatedRowFacts ==
    ASSUME NEW k \in Keys, NEW m \in Models, kek \in KEKs
    PROVE  /\ CreatedRow(k, m) \in Rows
           /\ CreatedRow(k, m).life = "live"
           /\ CreatedRow(k, m).enc # NoBlob
           /\ CreatedRow(k, m).keyState = "pending"
           /\ CreatedRow(k, m).models = m
           /\ CreatedRow(k, m).remote = None
           /\ CreatedRow(k, m).attempts = 0
           /\ CreatedRow(k, m).fp = k /\ CreatedRow(k, m).enc.key = k
BY AbsentRowFacts, SealedFacts DEF CreatedRow, Rows, Sealed

LEMMA SyncedRowFacts ==
    ASSUME NEW r \in Rows, NEW id \in RemoteIds
    PROVE  /\ SyncedRow(r, id) \in Rows
           /\ SyncedRow(r, id).life = r.life
           /\ SyncedRow(r, id).enc = NoBlob
           /\ SyncedRow(r, id).keyState = "synced"
           /\ SyncedRow(r, id).models = r.models
           /\ SyncedRow(r, id).remote = id
           /\ SyncedRow(r, id).attempts = r.attempts
           /\ SyncedRow(r, id).fp = r.fp
BY DEF SyncedRow, Rows, Blobs

LEMMA FailedRowFacts ==
    ASSUME NEW r \in Rows
    PROVE  /\ FailedRow(r) \in Rows
           /\ FailedRow(r).life = r.life
           /\ FailedRow(r).enc = r.enc
           /\ FailedRow(r).keyState = "failed"
           /\ FailedRow(r).models = r.models
           /\ FailedRow(r).remote = r.remote
           /\ FailedRow(r).attempts = r.attempts + 1
           /\ FailedRow(r).fp = r.fp
<1>1. r.attempts + 1 \in Nat
  BY DEF Rows
<1>2. QED
  BY <1>1 DEF FailedRow, Rows

LEMMA MetadataSyncedRowFacts ==
    ASSUME NEW r \in Rows
    PROVE  /\ MetadataSyncedRow(r) \in Rows
           /\ MetadataSyncedRow(r).life = r.life
           /\ MetadataSyncedRow(r).enc = r.enc
           /\ MetadataSyncedRow(r).keyState = r.keyState
           /\ MetadataSyncedRow(r).models = r.models
           /\ MetadataSyncedRow(r).remote = r.remote
           /\ MetadataSyncedRow(r).attempts = r.attempts
           /\ MetadataSyncedRow(r).fp = r.fp
BY DEF MetadataSyncedRow, Rows

LEMMA EditedRowFacts ==
    ASSUME NEW r \in Rows, NEW m \in Models
    PROVE  /\ EditedRow(r, m) \in Rows
           /\ EditedRow(r, m).life = r.life
           /\ EditedRow(r, m).enc = r.enc
           /\ EditedRow(r, m).keyState = r.keyState
           /\ EditedRow(r, m).models = m
           /\ EditedRow(r, m).remote = r.remote
           /\ EditedRow(r, m).attempts = r.attempts
           /\ EditedRow(r, m).fp = r.fp
BY DEF EditedRow, Rows

LEMMA RekeyedRowFacts ==
    ASSUME NEW r \in Rows, NEW k \in Keys, kek \in KEKs
    PROVE  /\ RekeyedRow(r, k) \in Rows
           /\ RekeyedRow(r, k).life = r.life
           /\ RekeyedRow(r, k).enc # NoBlob
           /\ RekeyedRow(r, k).keyState = "pending"
           /\ RekeyedRow(r, k).models = r.models
           /\ RekeyedRow(r, k).remote = r.remote
           /\ RekeyedRow(r, k).attempts = 0
BY SealedFacts DEF RekeyedRow, Rows

-----------------------------------------------------------------------------
(* What steps have in common. *)

RowsStay ==
    \A c \in Channels : rows[c].life # "absent" => rows'[c].life # "absent"

OwnersStay ==
    \A id \in RemoteIds, c \in Channels :
        remote[id].owner = c => remote'[id].owner = c

LEMMA IdleFacts ==
    /\ IdleWorker \in WorkerStates /\ IdleWorker.pc = "idle"
    /\ IdleHandler \in HandlerStates /\ IdleHandler.pc = "idle"
<1>1. NoBlob \in Blobs
  BY DEF Blobs
<1>2. QED
  BY <1>1 DEF IdleWorker, WorkerStates, IdleHandler, HandlerStates

\* An update that keeps the invariants of its row keeps those of the table.
LEMMA RowStep ==
    ASSUME TypeOK, RowsOK, SyncedHoldsNoKey, KeylessIsPublished,
           NEW c \in Channels, NEW r \in Rows,
           rows' = Updated(c, r), remote' = remote,
           r.life = rows[c].life,
           rows[c].life = "live" => r.models \in Models,
           r.remote # None => Owns(c, r.remote),
           r.keyState = "synced" => r.enc = NoBlob,
           rows[c].life = "live" /\ r.enc = NoBlob => r.remote # None
    PROVE  /\ rows' \in [Channels -> Rows]
           /\ RowsOK' /\ SyncedHoldsNoKey' /\ KeylessIsPublished'
           /\ RowsStay /\ OwnersStay
<1>1. rows \in [Channels -> Rows]
  BY DEF TypeOK
<1>2. \A d \in Channels : rows'[d] = rows[d] \/ (d = c /\ rows'[d] = r)
  BY <1>1 DEF Updated
<1>3. rows[c].life # "live" => rows' = rows
  BY DEF Updated
<1>4. rows' \in [Channels -> Rows]
  BY <1>1 DEF Updated
<1>5. RowsOK'
  BY <1>2, <1>3 DEF RowsOK, Owns
<1>6. SyncedHoldsNoKey'
  BY <1>2 DEF SyncedHoldsNoKey
<1>7. KeylessIsPublished'
  BY <1>2, <1>3 DEF KeylessIsPublished, Owns
<1>8. RowsStay /\ OwnersStay
  BY <1>2 DEF RowsStay, OwnersStay
<1>9. QED
  BY <1>4, <1>5, <1>6, <1>7, <1>8

\* A step that touches neither the table nor AGT.
LEMMA QuietStep ==
    ASSUME TypeOK, RowsOK, SyncedHoldsNoKey, KeylessIsPublished,
           rows' = rows, remote' = remote
    PROVE  /\ RowsOK' /\ SyncedHoldsNoKey' /\ KeylessIsPublished'
           /\ RowsStay /\ OwnersStay
BY DEF RowsOK, Owns, SyncedHoldsNoKey, KeylessIsPublished, RowsStay, OwnersStay

LEMMA WorkersKeep ==
    ASSUME WorkersOK, TypeOK, RowsStay, OwnersStay,
           \A w \in Workers : worker'[w] = worker[w] \/ worker'[w].pc = "idle"
    PROVE  WorkersOK'
BY DEF WorkersOK, TypeOK, WorkerStates, RowsStay, OwnersStay, Owns

LEMMA HandlersKeep ==
    ASSUME HandlersOK, TypeOK, RowsStay,
           \A h \in Handlers : handler'[h] = handler[h] \/ handler'[h].pc = "idle"
    PROVE  HandlersOK'
BY DEF HandlersOK, TypeOK, HandlerStates, RowsStay

LEMMA WorkerEndsFacts ==
    ASSUME TypeOK, NEW w \in Workers, WorkerEnds(w)
    PROVE  /\ worker' \in [Workers -> WorkerStates]
           /\ \A v \in Workers : worker'[v] = worker[v] \/ worker'[v].pc = "idle"
BY IdleFacts DEF TypeOK, WorkerEnds

LEMMA HandlerEndsFacts ==
    ASSUME TypeOK, NEW h \in Handlers, HandlerEnds(h)
    PROVE  /\ handler' \in [Handlers -> HandlerStates]
           /\ \A g \in Handlers : handler'[g] = handler[g] \/ handler'[g].pc = "idle"
BY IdleFacts DEF TypeOK, HandlerEnds

LEMMA RequestFacts ==
    ASSUME TypeOK, WorkersOK, NEW w \in Workers, worker[w].pc = "await"
    PROVE  /\ Request(w) \in Requests
           /\ Request(w).ch = worker[w].ch
           /\ Request(w).rid = worker[w].rid
<1>1. worker[w] \in WorkerStates
  BY DEF TypeOK
<1>2. worker[w].blob.key \in Keys \cup {None}
  BY <1>1 DEF WorkerStates, Blobs, NoBlob
<1>3. QED
  BY <1>1, <1>2 DEF WorkersOK, WorkerStates, Request, Requests

\* Requests nobody waits for come from goroutines that waited.
LEMMA StraysKeep ==
    ASSUME TypeOK, WorkersOK, StraysOK, RowsStay, OwnersStay,
           \A q \in strays' : \/ q \in strays
                             \/ \E w \in Workers : /\ worker[w].pc = "await"
                                                   /\ q = Request(w)
    PROVE  StraysOK' /\ strays' \subseteq Requests
<1>1. ASSUME NEW q \in strays'
      PROVE  /\ q \in Requests
             /\ rows'[q.ch].life # "absent"
             /\ q.rid # None => /\ q.rid \in RemoteIds
                                /\ remote'[q.rid].owner = q.ch
  <2>1. CASE q \in strays
    BY <2>1 DEF TypeOK, StraysOK, RowsStay, OwnersStay, Owns, Requests
  <2>2. CASE \E w \in Workers : worker[w].pc = "await" /\ q = Request(w)
    <3>1. PICK w \in Workers : worker[w].pc = "await" /\ q = Request(w)
      BY <2>2
    <3>2. QED
      BY <3>1, RequestFacts DEF WorkersOK, RowsStay, OwnersStay, Owns
  <2>3. QED
    BY <2>1, <2>2
<1>2. QED
  BY <1>1 DEF StraysOK, Owns

-----------------------------------------------------------------------------
(* The invariant holds at first and every action keeps it. *)

LEMMA InitEstablishes == Init => IInv
<1>1. SUFFICES ASSUME Init PROVE IInv
  OBVIOUS
<1>2. NoTemplate \in Templates
  BY DEF NoTemplate, Templates
<1>3. TypeOK
  BY <1>1, <1>2, AbsentRowFacts, IdleFacts, BoundsAreNaturals DEF Init, TypeOK
<1>4. RowsOK /\ SyncedHoldsNoKey /\ KeylessIsPublished
  BY <1>1, AbsentRowFacts
     DEF Init, RowsOK, SyncedHoldsNoKey, KeylessIsPublished
<1>5. WorkersOK /\ HandlersOK /\ StraysOK
  BY <1>1, IdleFacts DEF Init, WorkersOK, HandlersOK, StraysOK
<1>6. QED
  BY <1>3, <1>4, <1>5 DEF IInv

LEMMA CreateAuthorizeKeeps ==
    ASSUME IInv, NEW h \in Handlers, NEW k \in Keys, NEW m \in Models,
           CreateAuthorize(h, k, m)
    PROVE  IInv'
<1> DEFINE new == [pc |-> "insert", ch |-> None, key |-> k, models |-> m]
<1>1. /\ new \in HandlerStates
      /\ new.pc = "insert" /\ new.key = k /\ new.models = m
  BY DEF HandlerStates
<1>2. /\ handler' = [handler EXCEPT ![h] = new]
      /\ UNCHANGED <<rows, worker, remote, strays, platform, admin, kek, faults>>
  BY DEF CreateAuthorize
<1> HIDE DEF new
<1>3. RowsOK' /\ SyncedHoldsNoKey' /\ KeylessIsPublished' /\ RowsStay /\ OwnersStay
  BY <1>2, QuietStep DEF IInv
<1>4. TypeOK'
  BY <1>1, <1>2 DEF IInv, TypeOK
<1>5. WorkersOK'
  BY <1>2, <1>3, WorkersKeep DEF IInv
<1>6. HandlersOK'
  BY <1>1, <1>2 DEF IInv, TypeOK, HandlersOK
<1>7. StraysOK'
  BY <1>2 DEF IInv, StraysOK, Owns
<1>8. QED
  BY <1>3, <1>4, <1>5, <1>6, <1>7 DEF IInv

LEMMA CreateInsertKeeps ==
    ASSUME IInv, NEW h \in Handlers, NEW c \in Channels, CreateInsert(h, c)
    PROVE  IInv'
<1> DEFINE row == CreatedRow(handler[h].key, handler[h].models)
<1>1. handler[h].key \in Keys /\ handler[h].models \in Models
  BY DEF IInv, HandlersOK, CreateInsert
<1>2. /\ row \in Rows /\ row.life = "live" /\ row.enc # NoBlob
      /\ row.keyState = "pending" /\ row.models \in Models /\ row.remote = None
  BY <1>1, CreatedRowFacts DEF IInv, TypeOK
<1>3. /\ rows' = [rows EXCEPT ![c] = row]
      /\ handler' = [handler EXCEPT ![h].pc = "dispatch", ![h].ch = c]
      /\ UNCHANGED <<worker, remote, strays, platform, admin, kek, faults>>
  BY DEF CreateInsert
<1> HIDE DEF row
<1>4. handler' \in [Handlers -> HandlerStates]
  BY <1>3 DEF IInv, TypeOK, HandlerStates
<1>5. TypeOK'
  BY <1>2, <1>3, <1>4 DEF IInv, TypeOK
<1>6. RowsOK' /\ SyncedHoldsNoKey' /\ KeylessIsPublished'
  BY <1>2, <1>3
     DEF IInv, TypeOK, RowsOK, SyncedHoldsNoKey, KeylessIsPublished, Owns
<1>7. RowsStay /\ OwnersStay
  BY <1>2, <1>3 DEF IInv, TypeOK, RowsStay, OwnersStay
<1>8. WorkersOK'
  BY <1>3, <1>7, WorkersKeep DEF IInv
<1>9. HandlersOK'
  <2>1. \A g \in Handlers : g # h => handler'[g] = handler[g]
    BY <1>3 DEF IInv, TypeOK
  <2>2. /\ handler'[h].pc = "dispatch" /\ handler'[h].ch = c
        /\ rows'[c].life = "live"
    BY <1>2, <1>3 DEF IInv, TypeOK, HandlerStates
  <2>3. QED
    BY <1>7, <2>1, <2>2 DEF IInv, HandlersOK, RowsStay
<1>10. StraysOK'
  BY <1>3, <1>7, StraysKeep DEF IInv
<1>11. QED
  BY <1>5, <1>6, <1>8, <1>9, <1>10 DEF IInv

\* EditRead and ResyncCheck put an existing row in a handler.
LEMMA HandlerTakesRow ==
    ASSUME IInv, NEW h \in Handlers, NEW new \in HandlerStates,
           new.pc \in {"edit", "dispatch"},
           new.ch \in Channels, rows[new.ch].life = "live",
           new.pc = "edit" => new.models \in Models,
           handler' = [handler EXCEPT ![h] = new],
           UNCHANGED <<rows, worker, remote, strays, platform, admin, kek, faults>>
    PROVE  IInv'
<1>1. RowsOK' /\ SyncedHoldsNoKey' /\ KeylessIsPublished' /\ RowsStay /\ OwnersStay
  BY QuietStep DEF IInv
<1>2. TypeOK'
  BY DEF IInv, TypeOK
<1>3. WorkersOK'
  BY <1>1, WorkersKeep DEF IInv
<1>4. HandlersOK'
  BY DEF IInv, TypeOK, HandlersOK
<1>5. StraysOK'
  BY DEF IInv, StraysOK, Owns
<1>6. QED
  BY <1>1, <1>2, <1>3, <1>4, <1>5 DEF IInv

LEMMA EditReadKeeps ==
    ASSUME IInv, NEW h \in Handlers, NEW c \in Channels, EditRead(h, c)
    PROVE  IInv'
<1>1. PICK e \in EditRequests(c) :
        handler' = [handler EXCEPT ![h] =
                      [pc |-> "edit", ch |-> c, key |-> e.key, models |-> e.models]]
  BY DEF EditRead
<1> DEFINE new == [pc |-> "edit", ch |-> c, key |-> e.key, models |-> e.models]
<1>2. e.models \in Models /\ e.key \in Keys \cup {None}
  BY DEF EditRequests
<1>3. /\ new \in HandlerStates /\ new.pc = "edit" /\ new.ch = c
      /\ new.models \in Models
  BY <1>2 DEF HandlerStates
<1> HIDE DEF new
<1>4. /\ handler' = [handler EXCEPT ![h] = new]
      /\ rows[c].life = "live"
      /\ UNCHANGED <<rows, worker, remote, strays, platform, admin, kek, faults>>
  BY <1>1 DEF EditRead, new
<1>5. QED
  BY <1>3, <1>4, HandlerTakesRow

LEMMA ResyncCheckKeeps ==
    ASSUME IInv, NEW h \in Handlers, NEW c \in Channels, ResyncCheck(h, c)
    PROVE  IInv'
<1> DEFINE new == [IdleHandler EXCEPT !.pc = "dispatch", !.ch = c]
<1>1. new \in HandlerStates /\ new.pc = "dispatch" /\ new.ch = c
  BY DEF IdleHandler, HandlerStates
<1>2. /\ handler' = [handler EXCEPT ![h] = new]
      /\ rows[c].life = "live"
      /\ UNCHANGED <<rows, worker, remote, strays, platform, admin, kek, faults>>
  BY DEF ResyncCheck
<1> HIDE DEF new
<1>3. QED
  BY <1>1, <1>2, HandlerTakesRow

LEMMA RowFacts ==
    ASSUME IInv, NEW c \in Channels
    PROVE  /\ rows[c] \in Rows
           /\ rows[c].remote # None => Owns(c, rows[c].remote)
           /\ rows[c].keyState = "synced" => rows[c].enc = NoBlob
           /\ rows[c].life # "absent" => rows[c].models \in Models
           /\ rows[c].life # "absent" /\ rows[c].enc = NoBlob
                => rows[c].remote # None
BY NoneIsFresh
   DEF IInv, TypeOK, RowsOK, SyncedHoldsNoKey, KeylessIsPublished

\* EditWrite and Rotate write the handler's row and move the handler on.
LEMMA HandlerWritesRow ==
    ASSUME IInv, NEW h \in Handlers, handler[h].pc \in {"edit", "rotate"},
           NEW r \in Rows, rows' = Updated(handler[h].ch, r),
           r.life = rows[handler[h].ch].life,
           r.models \in Models,
           r.remote = rows[handler[h].ch].remote,
           r.keyState = "synced" => r.enc = NoBlob,
           r.enc = NoBlob => rows[handler[h].ch].enc = NoBlob,
           NEW p \in {"rotate", "dispatch"},
           p = "rotate" => handler[h].key \in Keys,
           handler' = [handler EXCEPT ![h].pc = p],
           UNCHANGED <<worker, remote, strays, platform, admin, kek, faults>>
    PROVE  IInv'
<1> DEFINE c == handler[h].ch
<1>1. c \in Channels /\ rows[c].life # "absent"
  BY DEF IInv, HandlersOK
<1>2. /\ r.remote # None => Owns(c, r.remote)
      /\ r.enc = NoBlob => r.remote # None
  BY <1>1, RowFacts
<1>3. /\ rows' \in [Channels -> Rows]
      /\ RowsOK' /\ SyncedHoldsNoKey' /\ KeylessIsPublished'
      /\ RowsStay /\ OwnersStay
  BY <1>1, <1>2, RowStep DEF IInv
<1>4. handler' \in [Handlers -> HandlerStates]
  BY DEF IInv, TypeOK, HandlerStates
<1>5. TypeOK'
  BY <1>3, <1>4 DEF IInv, TypeOK
<1>6. WorkersOK'
  BY <1>3, WorkersKeep DEF IInv
<1>7. HandlersOK'
  <2>1. \A g \in Handlers : g # h => handler'[g] = handler[g]
    BY DEF IInv, TypeOK
  <2>2. /\ handler'[h].pc = p /\ handler'[h].ch = c
        /\ handler'[h].key = handler[h].key
    BY DEF IInv, TypeOK, HandlerStates
  <2>3. rows'[c].life # "absent"
    BY <1>1, <1>3 DEF RowsStay
  <2>4. QED
    BY <1>1, <1>3, <2>1, <2>2, <2>3 DEF IInv, HandlersOK, RowsStay
<1>8. StraysOK'
  BY <1>3, StraysKeep DEF IInv
<1>9. QED
  BY <1>3, <1>5, <1>6, <1>7, <1>8 DEF IInv

LEMMA EditWriteKeeps ==
    ASSUME IInv, NEW h \in Handlers, EditWrite(h)
    PROVE  IInv'
<1> DEFINE c == handler[h].ch
           r == EditedRow(rows[c], handler[h].models)
           p == IF handler[h].key = None THEN "dispatch" ELSE "rotate"
<1>1. c \in Channels /\ handler[h].models \in Models
  BY DEF IInv, HandlersOK, EditWrite
<1>2. /\ r \in Rows /\ r.life = rows[c].life /\ r.enc = rows[c].enc
      /\ r.keyState = rows[c].keyState /\ r.models \in Models
      /\ r.remote = rows[c].remote
  BY <1>1, RowFacts, EditedRowFacts
<1>3. r.keyState = "synced" => r.enc = NoBlob
  BY <1>1, <1>2, RowFacts
<1>4. handler[h].key \in Keys \cup {None}
  BY DEF IInv, TypeOK, HandlerStates
<1>5. p \in {"rotate", "dispatch"} /\ (p = "rotate" => handler[h].key \in Keys)
  BY <1>4
<1>6. /\ handler[h].pc \in {"edit", "rotate"}
      /\ rows' = Updated(c, r) /\ handler' = [handler EXCEPT ![h].pc = p]
      /\ UNCHANGED <<worker, remote, strays, platform, admin, kek, faults>>
  BY DEF EditWrite
<1> HIDE DEF r, p
<1>7. QED
  BY <1>2, <1>3, <1>5, <1>6, HandlerWritesRow

LEMMA RotateKeeps ==
    ASSUME IInv, NEW h \in Handlers, Rotate(h)
    PROVE  IInv'
<1> DEFINE c == handler[h].ch
           r == RekeyedRow(rows[c], handler[h].key)
<1>1. c \in Channels /\ handler[h].key \in Keys /\ rows[c].life # "absent"
  BY DEF IInv, HandlersOK, Rotate
<1>2. /\ r \in Rows /\ r.life = rows[c].life /\ r.enc # NoBlob
      /\ r.keyState = "pending" /\ r.models = rows[c].models
      /\ r.remote = rows[c].remote
  BY <1>1, RowFacts, RekeyedRowFacts DEF IInv, TypeOK
<1>3. r.models \in Models
  BY <1>1, <1>2, RowFacts
<1>4. /\ handler[h].pc \in {"edit", "rotate"}
      /\ rows' = Updated(c, r)
      /\ handler' = [handler EXCEPT ![h].pc = "dispatch"]
      /\ UNCHANGED <<worker, remote, strays, platform, admin, kek, faults>>
  BY DEF Rotate
<1> HIDE DEF r
<1>5. QED
  BY <1>2, <1>3, <1>4, HandlerWritesRow

\* Steps of one goroutine that leave the table, AGT and the handlers' rows alone.
LEMMA WorkerMoves ==
    ASSUME IInv, NEW w \in Workers, NEW new \in WorkerStates,
           new.pc # "idle" => /\ new.ch \in Channels
                              /\ rows[new.ch].life # "absent",
           new.pc # "idle" /\ new.rid # None => Owns(new.ch, new.rid),
           new.pc \in {"loaded", "await"} => new.models \in Models,
           new.pc = "answered" => new.rid # None,
           worker' = [worker EXCEPT ![w] = new],
           handler' \in [Handlers -> HandlerStates],
           \A h \in Handlers : handler'[h] = handler[h] \/ handler'[h].pc = "idle",
           UNCHANGED <<rows, remote, strays, platform, admin, kek, faults>>
    PROVE  IInv'
<1>1. RowsOK' /\ SyncedHoldsNoKey' /\ KeylessIsPublished' /\ RowsStay /\ OwnersStay
  BY QuietStep DEF IInv
<1>2. TypeOK'
  BY DEF IInv, TypeOK
<1>3. WorkersOK'
  <2>1. \A v \in Workers : worker'[v] = IF v = w THEN new ELSE worker[v]
    BY DEF IInv, TypeOK
  <2>2. QED
    BY <2>1 DEF IInv, WorkersOK, Owns
<1>4. HandlersOK'
  BY <1>1, HandlersKeep DEF IInv
<1>5. StraysOK'
  BY DEF IInv, StraysOK, Owns
<1>6. QED
  BY <1>1, <1>2, <1>3, <1>4, <1>5 DEF IInv

LEMMA DispatchKeeps ==
    ASSUME IInv, NEW h \in Handlers, NEW w \in Workers, Dispatch(h, w)
    PROVE  IInv'
<1> DEFINE new == [IdleWorker EXCEPT !.pc = "started", !.ch = handler[h].ch]
<1>1. handler[h].ch \in Channels /\ rows[handler[h].ch].life # "absent"
  BY DEF IInv, HandlersOK, Dispatch
<1>2. /\ new \in WorkerStates /\ new.pc = "started"
      /\ new.ch = handler[h].ch /\ new.rid = None
  <2>1. IdleWorker.rid = None
    BY DEF IdleWorker
  <2>2. QED
    BY <1>1, <2>1, IdleFacts DEF WorkerStates
<1>3. /\ worker' = [worker EXCEPT ![w] = new]
      /\ UNCHANGED <<rows, remote, strays, platform, admin, kek, faults>>
  BY DEF Dispatch
<1>4. /\ handler' \in [Handlers -> HandlerStates]
      /\ \A g \in Handlers : handler'[g] = handler[g] \/ handler'[g].pc = "idle"
  BY HandlerEndsFacts DEF Dispatch, IInv
<1> HIDE DEF new
<1>5. QED
  BY <1>1, <1>2, <1>3, <1>4, WorkerMoves

LEMMA HandlerDbErrorKeeps ==
    ASSUME IInv, NEW h \in Handlers, HandlerDbError(h)
    PROVE  IInv'
<1>1. UNCHANGED <<rows, worker, remote, strays, platform, admin, kek>>
  BY DEF HandlerDbError
<1>2. RowsOK' /\ SyncedHoldsNoKey' /\ KeylessIsPublished' /\ RowsStay /\ OwnersStay
  BY <1>1, QuietStep DEF IInv
<1>3. faults' \in Nat /\ faults' <= MaxFaults
  BY BoundsAreNaturals DEF IInv, TypeOK, HandlerDbError, Fault
<1>4. /\ handler' \in [Handlers -> HandlerStates]
      /\ \A g \in Handlers : handler'[g] = handler[g] \/ handler'[g].pc = "idle"
  BY HandlerEndsFacts DEF HandlerDbError, IInv
<1>5. TypeOK'
  BY <1>1, <1>3, <1>4 DEF IInv, TypeOK
<1>6. WorkersOK' /\ HandlersOK'
  BY <1>1, <1>2, <1>4, WorkersKeep, HandlersKeep DEF IInv
<1>7. StraysOK'
  BY <1>1 DEF IInv, StraysOK, Owns
<1>8. QED
  BY <1>2, <1>5, <1>6, <1>7 DEF IInv

LEMMA DeleteChannelKeeps ==
    ASSUME IInv, NEW c \in Channels, DeleteChannel(c)
    PROVE  IInv'
<1>1. /\ rows[c].life = "live"
      /\ rows' = [rows EXCEPT ![c].life = "deleted"]
      /\ UNCHANGED <<worker, handler, remote, strays, platform, admin, kek, faults>>
  BY DEF DeleteChannel
<1>2. \A d \in Channels :
        /\ rows'[d] \in Rows
        /\ rows'[d].life = IF d = c THEN "deleted" ELSE rows[d].life
        /\ rows'[d].enc = rows[d].enc /\ rows'[d].keyState = rows[d].keyState
        /\ rows'[d].models = rows[d].models /\ rows'[d].remote = rows[d].remote
  BY <1>1 DEF IInv, TypeOK, Rows
<1>3. rows' \in [Channels -> Rows]
  BY <1>1, <1>2 DEF IInv, TypeOK
<1>4. TypeOK'
  BY <1>1, <1>3 DEF IInv, TypeOK
<1>5. RowsOK' /\ SyncedHoldsNoKey' /\ KeylessIsPublished'
  BY <1>1, <1>2 DEF IInv, RowsOK, SyncedHoldsNoKey, KeylessIsPublished, Owns
<1>6. RowsStay /\ OwnersStay
  BY <1>1, <1>2 DEF RowsStay, OwnersStay
<1>7. WorkersOK' /\ HandlersOK'
  BY <1>1, <1>6, WorkersKeep, HandlersKeep DEF IInv
<1>8. StraysOK'
  BY <1>1 DEF IInv, StraysOK, Owns
<1>9. QED
  BY <1>4, <1>5, <1>7, <1>8 DEF IInv

LEMMA WorkerFacts ==
    ASSUME IInv, NEW w \in Workers, worker[w].pc # "idle"
    PROVE  /\ worker[w] \in WorkerStates
           /\ worker[w].ch \in Channels
           /\ rows[worker[w].ch].life # "absent"
           /\ worker[w].rid # None => Owns(worker[w].ch, worker[w].rid)
           /\ worker[w].pc = "answered" => Owns(worker[w].ch, worker[w].rid)
BY DEF IInv, TypeOK, WorkersOK

LEMMA LoadKeeps ==
    ASSUME IInv, NEW w \in Workers, Load(w)
    PROVE  IInv'
<1> DEFINE c == worker[w].ch
           r == rows[c]
           new == [worker[w] EXCEPT !.pc = "loaded", !.rid = r.remote,
                     !.models = r.models,
                     !.blob = IF HasRecoverableKey(r) THEN r.enc ELSE NoBlob]
<1>1. c \in Channels /\ worker[w] \in WorkerStates /\ r.life = "live"
  BY WorkerFacts DEF Load
<1>2. /\ r \in Rows /\ r.models \in Models
      /\ r.remote # None => Owns(c, r.remote)
  BY <1>1, RowFacts
<1>3. r.enc \in Blobs /\ NoBlob \in Blobs /\ r.remote \in RemoteIds \cup {None}
  BY <1>2 DEF Rows, Blobs
<1>4. /\ new \in WorkerStates /\ new.pc = "loaded" /\ new.ch = c
      /\ new.rid = r.remote /\ new.models = r.models
  BY <1>1, <1>2, <1>3 DEF WorkerStates
<1>5. /\ worker' = [worker EXCEPT ![w] = new]
      /\ UNCHANGED <<rows, handler, remote, strays, platform, admin, kek, faults>>
  BY DEF Load
<1>6. handler' \in [Handlers -> HandlerStates]
  BY <1>5 DEF IInv, TypeOK
<1> HIDE DEF new
<1>7. QED
  BY <1>1, <1>2, <1>4, <1>5, <1>6, WorkerMoves

LEMMA SendKeeps ==
    ASSUME IInv, NEW w \in Workers, Send(w)
    PROVE  IInv'
<1> DEFINE new == [worker[w] EXCEPT !.pc = "await"]
<1>1. /\ worker[w].pc = "loaded"
      /\ worker' = [worker EXCEPT ![w] = new]
      /\ UNCHANGED <<rows, handler, remote, strays, platform, admin, kek, faults>>
  BY DEF Send
<1>2. worker[w].models \in Models
  BY <1>1 DEF IInv, WorkersOK
<1>3. /\ new \in WorkerStates /\ new.pc = "await" /\ new.ch = worker[w].ch
      /\ new.rid = worker[w].rid /\ new.models = worker[w].models
  BY <1>1, WorkerFacts DEF WorkerStates
<1>4. handler' \in [Handlers -> HandlerStates]
  BY <1>1 DEF IInv, TypeOK
<1> HIDE DEF new
<1>5. QED
  BY <1>1, <1>2, <1>3, <1>4, WorkerFacts, WorkerMoves

\* LoadMissing, PlatformMissing and WorkerDbError: the goroutine ends, the row
\* stays as it is.
LEMMA WorkerLeaves ==
    ASSUME IInv, NEW w \in Workers, WorkerEnds(w), Abandons(w),
           faults' \in Nat, faults' <= MaxFaults,
           UNCHANGED <<rows, handler, remote, platform, admin, kek>>
    PROVE  IInv'
<1>1. RowsOK' /\ SyncedHoldsNoKey' /\ KeylessIsPublished' /\ RowsStay /\ OwnersStay
  BY QuietStep DEF IInv
<1>2. /\ worker' \in [Workers -> WorkerStates]
      /\ \A v \in Workers : worker'[v] = worker[v] \/ worker'[v].pc = "idle"
  BY WorkerEndsFacts DEF IInv
<1>3. StraysOK' /\ strays' \subseteq Requests
  BY <1>1, StraysKeep DEF IInv, Abandons
<1>4. TypeOK'
  BY <1>2, <1>3 DEF IInv, TypeOK
<1>5. WorkersOK' /\ HandlersOK'
  BY <1>1, <1>2, WorkersKeep, HandlersKeep DEF IInv
<1>6. QED
  BY <1>1, <1>3, <1>4, <1>5 DEF IInv

\* CannotSend, MarkSynced, MarkMetadataSynced and SyncFails: the goroutine
\* writes its outcome in the row and ends.
LEMMA WorkerMarks ==
    ASSUME IInv, NEW w \in Workers, worker[w].pc # "idle",
           NEW r \in Rows, rows' = Updated(worker[w].ch, r),
           r.life = rows[worker[w].ch].life,
           r.models = rows[worker[w].ch].models,
           r.keyState = "synced" => r.enc = NoBlob,
           \/ /\ r.remote = rows[worker[w].ch].remote
              /\ r.enc = rows[worker[w].ch].enc
           \/ Owns(worker[w].ch, r.remote),
           WorkerEnds(w), Abandons(w),
           UNCHANGED <<handler, remote, platform, admin, kek, faults>>
    PROVE  IInv'
<1> DEFINE c == worker[w].ch
<1>1. c \in Channels /\ rows[c].life # "absent"
  BY WorkerFacts
<1>2. /\ rows[c].life = "live" => r.models \in Models
      /\ r.remote # None => Owns(c, r.remote)
      /\ rows[c].life = "live" /\ r.enc = NoBlob => r.remote # None
  BY <1>1, RowFacts, NoneIsFresh DEF Owns
<1>3. /\ rows' \in [Channels -> Rows]
      /\ RowsOK' /\ SyncedHoldsNoKey' /\ KeylessIsPublished'
      /\ RowsStay /\ OwnersStay
  BY <1>1, <1>2, RowStep DEF IInv
<1>4. /\ worker' \in [Workers -> WorkerStates]
      /\ \A v \in Workers : worker'[v] = worker[v] \/ worker'[v].pc = "idle"
  BY WorkerEndsFacts DEF IInv
<1>5. StraysOK' /\ strays' \subseteq Requests
  BY <1>3, StraysKeep DEF IInv, Abandons
<1>6. TypeOK'
  BY <1>3, <1>4, <1>5 DEF IInv, TypeOK
<1>7. WorkersOK' /\ HandlersOK'
  BY <1>3, <1>4, WorkersKeep, HandlersKeep DEF IInv
<1>8. QED
  BY <1>3, <1>5, <1>6, <1>7 DEF IInv

\* CannotSend and SyncFails.
LEMMA WorkerFails ==
    ASSUME IInv, NEW w \in Workers, worker[w].pc # "idle",
           rows' = Updated(worker[w].ch, FailedRow(rows[worker[w].ch])),
           WorkerEnds(w), Abandons(w),
           UNCHANGED <<handler, remote, platform, admin, kek, faults>>
    PROVE  IInv'
<1> DEFINE c == worker[w].ch
           r == FailedRow(rows[c])
<1>1. rows[c] \in Rows
  BY WorkerFacts, RowFacts
<1>2. /\ r \in Rows /\ r.life = rows[c].life /\ r.enc = rows[c].enc
      /\ r.keyState = "failed" /\ r.models = rows[c].models
      /\ r.remote = rows[c].remote
  BY <1>1, FailedRowFacts
<1> HIDE DEF r
<1>3. rows' = Updated(c, r)
  BY DEF r
<1>4. QED
  BY <1>2, <1>3, WorkerMarks

LEMMA MarkSyncedKeeps ==
    ASSUME IInv, NEW w \in Workers, MarkSynced(w)
    PROVE  IInv'
<1> DEFINE c == worker[w].ch
           r == SyncedRow(rows[c], worker[w].rid)
<1>1. /\ worker[w].pc = "answered" /\ rows' = Updated(c, r) /\ WorkerEnds(w)
      /\ UNCHANGED <<handler, remote, strays, platform, admin, kek, faults>>
  BY DEF MarkSynced
<1>2. c \in Channels /\ Owns(c, worker[w].rid)
  BY <1>1, WorkerFacts
<1>3. /\ r \in Rows /\ r.life = rows[c].life /\ r.enc = NoBlob
      /\ r.models = rows[c].models /\ r.remote = worker[w].rid
  BY <1>2, RowFacts, SyncedRowFacts DEF Owns
<1>4. Abandons(w)
  BY <1>1 DEF Abandons
<1> HIDE DEF r
<1>5. QED
  BY <1>1, <1>2, <1>3, <1>4, WorkerMarks

LEMMA MarkMetadataSyncedKeeps ==
    ASSUME IInv, NEW w \in Workers, MarkMetadataSynced(w)
    PROVE  IInv'
<1> DEFINE c == worker[w].ch
           r == MetadataSyncedRow(rows[c])
<1>1. /\ worker[w].pc = "answered" /\ rows' = Updated(c, r) /\ WorkerEnds(w)
      /\ UNCHANGED <<handler, remote, strays, platform, admin, kek, faults>>
  BY DEF MarkMetadataSynced
<1>2. c \in Channels
  BY <1>1, WorkerFacts
<1>3. /\ r \in Rows /\ r.life = rows[c].life /\ r.enc = rows[c].enc
      /\ r.keyState = rows[c].keyState /\ r.models = rows[c].models
      /\ r.remote = rows[c].remote
  BY <1>2, RowFacts, MetadataSyncedRowFacts
<1>4. r.keyState = "synced" => r.enc = NoBlob
  BY <1>2, <1>3, RowFacts
<1>5. Abandons(w)
  BY <1>1 DEF Abandons
<1> HIDE DEF r
<1>6. QED
  BY <1>1, <1>3, <1>4, <1>5, WorkerMarks

LEMMA WorkerStepsKeep ==
    ASSUME IInv, NEW w \in Workers, WorkerSteps(w) \/ WorkerDbError(w)
    PROVE  IInv'
<1>1. CASE Load(w)
  BY <1>1, LoadKeeps
<1>2. CASE LoadMissing(w) \/ PlatformMissing(w)
  <2>1. faults' \in Nat /\ faults' <= MaxFaults
    BY <1>2 DEF LoadMissing, PlatformMissing, IInv, TypeOK
  <2>2. QED
    BY <1>2, <2>1, WorkerLeaves DEF LoadMissing, PlatformMissing, Abandons
<1>3. CASE CannotSend(w)
  BY <1>3, WorkerFails DEF CannotSend, Abandons
<1>4. CASE Send(w)
  BY <1>4, SendKeeps
<1>5. CASE MarkSynced(w)
  BY <1>5, MarkSyncedKeeps
<1>6. CASE MarkMetadataSynced(w)
  BY <1>6, MarkMetadataSyncedKeeps
<1>7. CASE SyncFails(w)
  BY <1>7, WorkerFails DEF SyncFails, GivesUp
<1>8. CASE WorkerDbError(w)
  <2>1. faults' \in Nat /\ faults' <= MaxFaults
    BY <1>8, BoundsAreNaturals DEF WorkerDbError, Fault, IInv, TypeOK
  <2>2. QED
    BY <1>8, <2>1, WorkerLeaves DEF WorkerDbError
<1>9. QED
  BY <1>1, <1>2, <1>3, <1>4, <1>5, <1>6, <1>7, <1>8 DEF WorkerSteps

\* AGT never gives a template of one channel to another.
LEMMA AgtAppliesFacts ==
    ASSUME TypeOK, NEW q \in Requests, NEW id \in RemoteIds, AgtApplies(q, id),
           q.rid # None => Owns(q.ch, q.rid)
    PROVE  /\ remote' \in [RemoteIds -> Templates]
           /\ OwnersStay
           /\ remote'[id].owner = q.ch
<1>1. /\ q.ch \in Channels /\ q.key \in Keys \cup {None} /\ q.models \in Models
      /\ remote \in [RemoteIds -> Templates] /\ remote[id] \in Templates
  BY DEF Requests, TypeOK
<1>2. CASE /\ q.rid = None
           /\ remote[id].owner = None
           /\ remote' = [remote EXCEPT ![id] =
                           [owner |-> q.ch, key |-> q.key, models |-> q.models]]
  <2>1. [owner |-> q.ch, key |-> q.key, models |-> q.models] \in Templates
    BY <1>1 DEF Templates
  <2>2. QED
    BY <1>1, <1>2, <2>1, NoneIsFresh DEF OwnersStay
<1>3. CASE q.rid = id /\ remote' = [remote EXCEPT ![id] = Put(@, q)]
  <2>1. Put(remote[id], q) \in Templates /\ Put(remote[id], q).owner = remote[id].owner
    BY <1>1 DEF Put, Templates
  <2>2. remote[id].owner = q.ch
    BY <1>3, NoneIsFresh DEF Owns
  <2>3. QED
    BY <1>1, <1>3, <2>1, <2>2 DEF OwnersStay
<1>4. QED
  BY <1>2, <1>3 DEF AgtApplies

LEMMA AgtStep ==
    ASSUME IInv, rows' = rows, OwnersStay
    PROVE  RowsOK' /\ SyncedHoldsNoKey' /\ KeylessIsPublished' /\ RowsStay
BY DEF IInv, RowsOK, Owns, SyncedHoldsNoKey, KeylessIsPublished, RowsStay, OwnersStay

LEMMA AgtApplyKeeps ==
    ASSUME IInv, NEW w \in Workers, NEW id \in RemoteIds, AgtApply(w, id)
    PROVE  IInv'
<1> DEFINE q == Request(w)
           c == worker[w].ch
<1>1. /\ worker[w].pc = "await" /\ AgtApplies(q, id)
      /\ worker' = [worker EXCEPT ![w].pc = "answered", ![w].rid = id]
      /\ UNCHANGED <<rows, handler, strays, platform, admin, kek, faults>>
  BY DEF AgtApply
<1>2. /\ worker[w] \in WorkerStates /\ c \in Channels /\ rows[c].life # "absent"
      /\ worker[w].rid # None => Owns(c, worker[w].rid)
  BY <1>1, WorkerFacts
<1>3. q \in Requests /\ q.ch = c /\ q.rid = worker[w].rid
  BY <1>1, RequestFacts DEF IInv
<1>4. /\ remote' \in [RemoteIds -> Templates] /\ OwnersStay
      /\ remote'[id].owner = c
  BY <1>1, <1>2, <1>3, AgtAppliesFacts DEF IInv
<1>5. RowsOK' /\ SyncedHoldsNoKey' /\ KeylessIsPublished' /\ RowsStay
  BY <1>1, <1>4, AgtStep
<1>6. worker' \in [Workers -> WorkerStates]
  BY <1>1, <1>2 DEF IInv, TypeOK, WorkerStates
<1>7. TypeOK'
  BY <1>1, <1>4, <1>6 DEF IInv, TypeOK
<1>8. WorkersOK'
  <2>1. \A v \in Workers : v # w => worker'[v] = worker[v]
    BY <1>1 DEF IInv, TypeOK
  <2>2. /\ worker'[w].pc = "answered" /\ worker'[w].ch = c /\ worker'[w].rid = id
    BY <1>1, <1>2 DEF IInv, TypeOK, WorkerStates
  <2>3. ASSUME NEW v \in Workers, v # w, worker'[v].pc # "idle"
        PROVE  /\ worker'[v].ch \in Channels
               /\ rows'[worker'[v].ch].life # "absent"
               /\ worker'[v].rid # None =>
                    /\ worker'[v].rid \in RemoteIds
                    /\ remote'[worker'[v].rid].owner = worker'[v].ch
               /\ worker'[v].pc \in {"loaded", "await"} => worker'[v].models \in Models
               /\ worker'[v].pc = "answered" => worker'[v].rid # None
    <3>1. /\ worker'[v] = worker[v] /\ worker[v].pc # "idle"
          /\ worker[v] \in WorkerStates
      BY <2>1, <2>3 DEF IInv, TypeOK
    <3>2. /\ worker[v].ch \in Channels
          /\ worker[v].rid # None => /\ worker[v].rid \in RemoteIds
                                     /\ remote[worker[v].rid].owner = worker[v].ch
      BY <3>1, WorkerFacts DEF Owns
    <3>3. QED
      BY <1>1, <1>4, <3>1, <3>2 DEF IInv, WorkersOK, OwnersStay
  <2>4. /\ rows'[c].life # "absent" /\ id # None
        /\ id \in RemoteIds /\ remote'[id].owner = c
    BY <1>1, <1>2, <1>4, NoneIsFresh
  <2>5. QED
    BY <1>2, <2>2, <2>3, <2>4 DEF WorkersOK, Owns
<1>9. HandlersOK'
  BY <1>1, <1>5, HandlersKeep DEF IInv
<1>10. StraysOK'
  BY <1>1, <1>4, <1>5, StraysKeep DEF IInv
<1>11. QED
  BY <1>5, <1>7, <1>8, <1>9, <1>10 DEF IInv

LEMMA AgtApplyStrayKeeps ==
    ASSUME IInv, NEW q \in strays, NEW id \in RemoteIds, AgtApplyStray(q, id)
    PROVE  IInv'
<1>1. /\ AgtApplies(q, id) /\ strays' = strays \ {q}
      /\ UNCHANGED <<rows, worker, handler, platform, admin, kek, faults>>
  BY DEF AgtApplyStray
<1>2. q \in Requests /\ (q.rid # None => Owns(q.ch, q.rid))
  BY DEF IInv, TypeOK, StraysOK
<1>3. remote' \in [RemoteIds -> Templates] /\ OwnersStay
  BY <1>1, <1>2, AgtAppliesFacts DEF IInv
<1>4. RowsOK' /\ SyncedHoldsNoKey' /\ KeylessIsPublished' /\ RowsStay
  BY <1>1, <1>3, AgtStep
<1>5. StraysOK' /\ strays' \subseteq Requests
  BY <1>1, <1>3, <1>4, StraysKeep DEF IInv
<1>6. TypeOK'
  BY <1>1, <1>3, <1>5 DEF IInv, TypeOK
<1>7. WorkersOK' /\ HandlersOK'
  BY <1>1, <1>3, <1>4, WorkersKeep, HandlersKeep DEF IInv
<1>8. QED
  BY <1>4, <1>5, <1>6, <1>7 DEF IInv

LEMMA AdminKeeps ==
    ASSUME IInv, SetModexToken \/ DeletePlatformCount \/ DeletePlatformRow
    PROVE  IInv'
<1>1. UNCHANGED <<rows, worker, handler, remote, strays, kek, faults>>
  BY DEF SetModexToken, DeletePlatformCount, DeletePlatformRow
<1>2. RowsOK' /\ SyncedHoldsNoKey' /\ KeylessIsPublished' /\ RowsStay /\ OwnersStay
  BY <1>1, QuietStep DEF IInv
<1>3. /\ platform' \in [life : {"present", "gone"}, token : KEKs \cup {None}]
      /\ admin' \in {"idle", "counted"}
  BY DEF IInv, TypeOK, SetModexToken, DeletePlatformCount, DeletePlatformRow
<1>4. TypeOK'
  BY <1>1, <1>3 DEF IInv, TypeOK
<1>5. WorkersOK' /\ HandlersOK'
  BY <1>1, <1>2, WorkersKeep, HandlersKeep DEF IInv
<1>6. StraysOK'
  BY <1>1 DEF IInv, StraysOK, Owns
<1>7. QED
  BY <1>2, <1>4, <1>5, <1>6 DEF IInv

LEMMA RestartKeeps ==
    ASSUME IInv, Restart
    PROVE  IInv'
<1>1. /\ worker' = [w \in Workers |-> IdleWorker]
      /\ handler' = [h \in Handlers |-> IdleHandler]
      /\ admin' = "idle" /\ kek' \in KEKs
      /\ UNCHANGED <<rows, remote, platform>>
  BY DEF Restart
<1>2. RowsOK' /\ SyncedHoldsNoKey' /\ KeylessIsPublished' /\ RowsStay /\ OwnersStay
  BY <1>1, QuietStep DEF IInv
<1>3. PICK lost \in SUBSET {Request(w) : w \in {v \in Workers : worker[v].pc = "await"}} :
        strays' = strays \cup lost
  BY DEF Restart
<1>4. \A q \in strays' : \/ q \in strays
                        \/ \E w \in Workers : /\ worker[w].pc = "await"
                                              /\ q = Request(w)
  BY <1>3
<1>5. StraysOK' /\ strays' \subseteq Requests
  BY <1>2, <1>4, StraysKeep DEF IInv
<1>6. faults' \in Nat /\ faults' <= MaxFaults
  BY BoundsAreNaturals DEF Restart, Fault, IInv, TypeOK
<1>7. TypeOK'
  BY <1>1, <1>2, <1>5, <1>6, IdleFacts DEF IInv, TypeOK
<1>8. WorkersOK' /\ HandlersOK'
  BY <1>1, IdleFacts DEF WorkersOK, HandlersOK
<1>9. QED
  BY <1>2, <1>5, <1>7, <1>8 DEF IInv

LEMMA StutterKeeps ==
    ASSUME IInv, UNCHANGED vars
    PROVE  IInv'
<1>1. UNCHANGED <<rows, worker, handler, remote, strays, platform, admin, kek, faults>>
  BY DEF vars
<1>2. RowsOK' /\ SyncedHoldsNoKey' /\ KeylessIsPublished' /\ RowsStay /\ OwnersStay
  BY <1>1, QuietStep DEF IInv
<1>3. TypeOK'
  BY <1>1 DEF IInv, TypeOK
<1>4. WorkersOK' /\ HandlersOK' /\ StraysOK'
  BY <1>1, <1>2, WorkersKeep, HandlersKeep DEF IInv, StraysOK, Owns
<1>5. QED
  BY <1>2, <1>3, <1>4 DEF IInv

LEMMA NextKeeps == IInv /\ [Next]_vars => IInv'
<1> SUFFICES ASSUME IInv, [Next]_vars PROVE IInv'
  OBVIOUS
<1>2. CASE UNCHANGED vars
  BY <1>2, StutterKeeps
<1>3. ASSUME NEW h \in Handlers, NEW k \in Keys, NEW m \in Models,
             CreateAuthorize(h, k, m)
      PROVE  IInv'
  BY <1>3, CreateAuthorizeKeeps
<1>4. ASSUME NEW h \in Handlers, HandlerSteps(h)
      PROVE  IInv'
  BY <1>4, CreateInsertKeeps, EditWriteKeeps, RotateKeeps DEF HandlerSteps
<1>5. ASSUME NEW h \in Handlers, NEW c \in Channels, EditRead(h, c) \/ ResyncCheck(h, c)
      PROVE  IInv'
  BY <1>5, EditReadKeeps, ResyncCheckKeeps
<1>6. ASSUME NEW h \in Handlers, NEW w \in Workers, Dispatch(h, w)
      PROVE  IInv'
  BY <1>6, DispatchKeeps
<1>7. ASSUME NEW h \in Handlers, HandlerDbError(h)
      PROVE  IInv'
  BY <1>7, HandlerDbErrorKeeps
<1>8. ASSUME NEW w \in Workers, WorkerSteps(w) \/ WorkerDbError(w)
      PROVE  IInv'
  BY <1>8, WorkerStepsKeep
<1>9. ASSUME NEW w \in Workers, NEW id \in RemoteIds, AgtApply(w, id)
      PROVE  IInv'
  BY <1>9, AgtApplyKeeps
<1>10. ASSUME NEW q \in strays, NEW id \in RemoteIds, AgtApplyStray(q, id)
       PROVE  IInv'
  BY <1>10, AgtApplyStrayKeeps
<1>11. ASSUME NEW c \in Channels, DeleteChannel(c)
       PROVE  IInv'
  BY <1>11, DeleteChannelKeeps
<1>12. CASE SetModexToken \/ DeletePlatformCount \/ DeletePlatformRow
  BY <1>12, AdminKeeps
<1>13. CASE Restart
  BY <1>13, RestartKeeps
<1>14. QED
  BY <1>2, <1>3, <1>4, <1>5, <1>6, <1>7, <1>8, <1>9, <1>10, <1>11, <1>12, <1>13
     DEF Next

-----------------------------------------------------------------------------
(* The theorems. *)

\* IInv is an invariant: it holds at first, and every step keeps it.
THEOREM InvariantHolds == Spec => []IInv
<1>1. QED
  BY InitEstablishes, NextKeeps, PTL DEF Spec

\* Every column, goroutine, handler and request keeps its type: enc_key holds
\* sealed blobs only (controller/supplier_channel.go:129-165).
THEOREM TypeCorrect == Spec => []TypeOK
<1>1. IInv => TypeOK
  BY DEF IInv
<1>2. QED
  BY <1>1, InvariantHolds, PTL

\* However many rotations, resyncs and late goroutines interleave, a row that
\* says synced holds no key (model/channel.go:88-109).
THEOREM SyncedRowsAreWiped == Spec => []SyncedHoldsNoKey
<1>1. IInv => SyncedHoldsNoKey
  BY DEF IInv
<1>2. QED
  BY <1>1, InvariantHolds, PTL

\* No key leaves the database before AGT has accepted one for its channel, and
\* the id the row keeps is the id of a template of that very channel
\* (service/sync/worker.go:63-104).
THEOREM NoKeyLostBeforePublication == Spec => []KeylessIsPublished
<1>1. IInv => KeylessIsPublished
  BY DEF IInv
<1>2. QED
  BY <1>1, InvariantHolds, PTL

-----------------------------------------------------------------------------
(* Action properties and refinement: what a step does to the table. *)

\* A goroutine that sent a key of c has its success.
Accepted(c) ==
    \E w \in Workers : /\ worker[w].pc = "answered"
                      /\ worker[w].ch = c
                      /\ worker[w].blob # NoBlob
                      /\ remote[worker[w].rid].owner = c

Inserts(c) ==
    /\ rows[c].life = "absent"
    /\ \E r \in Rows : /\ r.life = "live" /\ r.enc # NoBlob
                       /\ rows' = [rows EXCEPT ![c] = r]

Deletes(c) ==
    /\ rows[c].life = "live"
    /\ rows' = [rows EXCEPT ![c].life = "deleted"]

Updates(c) ==
    /\ rows[c].life # "absent"
    /\ \E r \in Rows : /\ r.life = rows[c].life
                       /\ r.enc = rows[c].enc \/ r.enc # NoBlob \/ Accepted(c)
                       /\ rows' = Updated(c, r)

\* The steps of the specification, by what they do to the table and to the
\* owners of AGT's templates.
LEMMA StepKinds ==
    ASSUME IInv, [Next]_vars
    PROVE  \/ rows' = rows /\ remote' = remote
           \/ /\ remote' = remote
              /\ \E c \in Channels : Inserts(c) \/ Deletes(c) \/ Updates(c)
           \/ /\ rows' = rows
              /\ \E q \in Requests, id \in RemoteIds :
                   /\ AgtApplies(q, id)
                   /\ rows[q.ch].life # "absent"
                   /\ q.rid # None => Owns(q.ch, q.rid)
<1>1. ASSUME NEW h \in Handlers, NEW c \in Channels, CreateInsert(h, c)
      PROVE  remote' = remote /\ Inserts(c)
  <2>1. handler[h].key \in Keys /\ handler[h].models \in Models /\ kek \in KEKs
    BY <1>1 DEF IInv, TypeOK, HandlersOK, CreateInsert
  <2>2. QED
    BY <1>1, <2>1, CreatedRowFacts DEF CreateInsert, Inserts
<1>2. ASSUME NEW h \in Handlers, EditWrite(h)
      PROVE  remote' = remote /\ \E c \in Channels : Updates(c)
  <2> DEFINE c == handler[h].ch
  <2>1. /\ c \in Channels /\ rows[c].life # "absent" /\ rows[c] \in Rows
        /\ handler[h].models \in Models
    BY <1>2, RowFacts DEF IInv, HandlersOK, EditWrite
  <2>2. Updates(c)
    BY <1>2, <2>1, EditedRowFacts DEF EditWrite, Updates
  <2>3. QED
    BY <1>2, <2>1, <2>2 DEF EditWrite
<1>3. ASSUME NEW h \in Handlers, Rotate(h)
      PROVE  remote' = remote /\ \E c \in Channels : Updates(c)
  <2> DEFINE c == handler[h].ch
  <2>1. /\ c \in Channels /\ rows[c].life # "absent" /\ rows[c] \in Rows
        /\ handler[h].key \in Keys /\ kek \in KEKs
    BY <1>3, RowFacts DEF IInv, TypeOK, HandlersOK, Rotate
  <2>2. Updates(c)
    BY <1>3, <2>1, RekeyedRowFacts DEF Rotate, Updates
  <2>3. QED
    BY <1>3, <2>1, <2>2 DEF Rotate
<1>4. ASSUME NEW w \in Workers, CannotSend(w) \/ SyncFails(w)
      PROVE  remote' = remote /\ \E c \in Channels : Updates(c)
  <2> DEFINE c == worker[w].ch
  <2>1. /\ rows' = Updated(c, FailedRow(rows[c])) /\ remote' = remote
        /\ worker[w].pc # "idle"
    BY <1>4 DEF CannotSend, SyncFails, GivesUp
  <2>2. c \in Channels /\ rows[c].life # "absent" /\ rows[c] \in Rows
    BY <2>1, WorkerFacts, RowFacts
  <2>3. Updates(c)
    BY <2>1, <2>2, FailedRowFacts DEF Updates
  <2>4. QED
    BY <2>1, <2>2, <2>3
<1>5. ASSUME NEW w \in Workers, MarkMetadataSynced(w)
      PROVE  remote' = remote /\ \E c \in Channels : Updates(c)
  <2> DEFINE c == worker[w].ch
  <2>1. c \in Channels /\ rows[c].life # "absent" /\ rows[c] \in Rows
    BY <1>5, WorkerFacts, RowFacts DEF MarkMetadataSynced
  <2>2. Updates(c)
    BY <1>5, <2>1, MetadataSyncedRowFacts DEF MarkMetadataSynced, Updates
  <2>3. QED
    BY <1>5, <2>1, <2>2 DEF MarkMetadataSynced
<1>6. ASSUME NEW w \in Workers, MarkSynced(w)
      PROVE  remote' = remote /\ \E c \in Channels : Updates(c)
  <2> DEFINE c == worker[w].ch
  <2>1. /\ c \in Channels /\ rows[c].life # "absent" /\ rows[c] \in Rows
        /\ Owns(c, worker[w].rid)
    BY <1>6, WorkerFacts, RowFacts DEF MarkSynced
  <2>2. Accepted(c)
    BY <1>6, <2>1 DEF MarkSynced, Accepted, Owns
  <2>3. Updates(c)
    BY <1>6, <2>1, <2>2, SyncedRowFacts DEF MarkSynced, Updates, Owns
  <2>4. QED
    BY <1>6, <2>1, <2>3 DEF MarkSynced
<1>7. ASSUME NEW w \in Workers,
             Load(w) \/ LoadMissing(w) \/ PlatformMissing(w) \/ Send(w)
               \/ WorkerDbError(w)
      PROVE  rows' = rows /\ remote' = remote
  BY <1>7 DEF Load, LoadMissing, PlatformMissing, Send, WorkerDbError
<1>8. ASSUME NEW w \in Workers, NEW id \in RemoteIds, AgtApply(w, id)
      PROVE  /\ rows' = rows
             /\ \E q \in Requests :
                  /\ AgtApplies(q, id)
                  /\ rows[q.ch].life # "absent"
                  /\ q.rid # None => Owns(q.ch, q.rid)
  <2>1. worker[w].pc = "await" /\ rows' = rows /\ AgtApplies(Request(w), id)
    BY <1>8 DEF AgtApply
  <2>2. QED
    BY <2>1, WorkerFacts, RequestFacts DEF IInv
<1>9. ASSUME NEW q \in strays, NEW id \in RemoteIds, AgtApplyStray(q, id)
      PROVE  /\ rows' = rows /\ q \in Requests /\ AgtApplies(q, id)
             /\ rows[q.ch].life # "absent"
             /\ q.rid # None => Owns(q.ch, q.rid)
  BY <1>9 DEF IInv, TypeOK, StraysOK, AgtApplyStray
<1>10. ASSUME NEW c \in Channels, DeleteChannel(c)
       PROVE  remote' = remote /\ Deletes(c)
  BY <1>10 DEF DeleteChannel, Deletes
<1>11. ASSUME NEW h \in Handlers,
              \/ \E k \in Keys, m \in Models : CreateAuthorize(h, k, m)
              \/ \E c \in Channels : EditRead(h, c) \/ ResyncCheck(h, c)
              \/ \E w \in Workers : Dispatch(h, w)
              \/ HandlerDbError(h)
       PROVE  rows' = rows /\ remote' = remote
  BY <1>11 DEF CreateAuthorize, EditRead, ResyncCheck, Dispatch, HandlerDbError
<1>12. CASE SetModexToken \/ DeletePlatformCount \/ DeletePlatformRow \/ Restart
  BY <1>12 DEF SetModexToken, DeletePlatformCount, DeletePlatformRow, Restart
<1>13. CASE UNCHANGED vars
  BY <1>13 DEF vars
<1>14. QED
  BY <1>1, <1>2, <1>3, <1>4, <1>5, <1>6, <1>7, <1>8, <1>9, <1>10, <1>11, <1>12,
     <1>13 DEF Next, HandlerSteps, WorkerSteps

\* A key disappears from a row only by the success of a goroutine that sent a
\* key of that channel (service/sync/worker.go:63-104).
THEOREM OnlyAcceptanceWipes == Spec => WipeNeedsAcceptance
<1>1. ASSUME IInv, [Next]_vars, NEW c \in Channels,
             rows[c].enc # NoBlob, rows'[c].enc = NoBlob
      PROVE  Accepted(c)
  <2>1. rows \in [Channels -> Rows]
    BY <1>1 DEF IInv, TypeOK
  <2>2. CASE \E d \in Channels : Inserts(d)
    BY <1>1, <2>1, <2>2 DEF Inserts
  <2>3. CASE \E d \in Channels : Deletes(d)
    BY <1>1, <2>1, <2>3 DEF Deletes, Rows
  <2>4. CASE \E d \in Channels : Updates(d)
    BY <1>1, <2>1, <2>4 DEF Updates, Updated
  <2>5. QED
    BY <1>1, <2>2, <2>3, <2>4, StepKinds
<1>2. IInv /\ [Next]_vars =>
        [\A c \in Channels :
           rows[c].enc # NoBlob /\ rows'[c].enc = NoBlob =>
             \E w \in Workers : /\ worker[w].pc = "answered"
                                /\ worker[w].ch = c
                                /\ worker[w].blob # NoBlob
                                /\ remote[worker[w].rid].owner = c]_vars
  BY <1>1 DEF Accepted
<1>3. QED
  BY <1>2, InvariantHolds, PTL DEF Spec, WipeNeedsAcceptance

\* Nothing in flight changes a row after its soft delete
\* (model/channel.go:90-247).
THEOREM DeletedRowsNeverChange == Spec => DeletedRowFrozen
<1>1. ASSUME IInv, [Next]_vars, NEW c \in Channels, rows[c].life = "deleted"
      PROVE  rows'[c] = rows[c]
  <2>1. rows \in [Channels -> Rows]
    BY <1>1 DEF IInv, TypeOK
  <2>2. CASE \E d \in Channels : Inserts(d)
    BY <1>1, <2>1, <2>2 DEF Inserts
  <2>3. CASE \E d \in Channels : Deletes(d)
    BY <1>1, <2>1, <2>3 DEF Deletes
  <2>4. CASE \E d \in Channels : Updates(d)
    BY <1>1, <2>1, <2>4 DEF Updates, Updated
  <2>5. QED
    BY <1>1, <2>2, <2>3, <2>4, StepKinds
<1>2. IInv /\ [Next]_vars =>
        [\A c \in Channels : rows[c].life = "deleted" => rows'[c] = rows[c]]_vars
  BY <1>1
<1>3. QED
  BY <1>2, InvariantHolds, PTL DEF Spec, DeletedRowFrozen

-----------------------------------------------------------------------------
(* The refinement of KeyCustody. *)

Custodies == [c \in Channels |-> CustodyOf(c)]
Published == {remote[id].owner : id \in RemoteIds} \ {None}
Closed == {c \in Channels : rows[c].life = "deleted"}

\* An insertion is an upload.
LEMMA InsertsRefines ==
    ASSUME TypeOK, NEW c \in Channels, Inserts(c), remote' = remote
    PROVE  /\ Custodies[c] = "none"
           /\ Custodies' = [Custodies EXCEPT ![c] = "held"]
           /\ Published' = Published /\ Closed' = Closed
<1>1. PICK r \in Rows : /\ r.life = "live" /\ r.enc # NoBlob
                        /\ rows' = [rows EXCEPT ![c] = r]
  BY DEF Inserts
<1>2. rows[c].life = "absent" /\ rows \in [Channels -> Rows]
  BY DEF Inserts, TypeOK
<1>3. Custodies[c] = "none"
  BY <1>2 DEF Custodies, CustodyOf
<1>4. Custodies' = [Custodies EXCEPT ![c] = "held"]
  BY <1>1, <1>2 DEF Custodies, CustodyOf
<1>5. Published' = Published
  BY DEF Published
<1>6. Closed' = Closed
  BY <1>1, <1>2 DEF Closed
<1>7. QED
  BY <1>3, <1>4, <1>5, <1>6

\* A soft delete closes the channel and moves no key.
LEMMA DeletesRefines ==
    ASSUME TypeOK, NEW c \in Channels, Deletes(c), remote' = remote
    PROVE  /\ Custodies[c] # "none"
           /\ Custodies' = Custodies
           /\ Published' = Published /\ Closed' = Closed \cup {c}
<1>1. rows[c].life = "live" /\ rows \in [Channels -> Rows]
  BY DEF Deletes, TypeOK
<1>2. \A d \in Channels :
        /\ rows'[d].life = IF d = c THEN "deleted" ELSE rows[d].life
        /\ rows'[d].enc = rows[d].enc
  BY <1>1 DEF Deletes, Rows
<1>3. Custodies[c] # "none"
  BY <1>1 DEF Custodies, CustodyOf
<1>4. Custodies' = Custodies
  BY <1>1, <1>2 DEF Custodies, CustodyOf
<1>5. Published' = Published
  BY DEF Published
<1>6. Closed' = Closed \cup {c}
  BY <1>1, <1>2 DEF Closed
<1>7. QED
  BY <1>3, <1>4, <1>5, <1>6

\* An update of a row keeps its key, re-arms it, or destroys a published one.
LEMMA UpdatesRefines ==
    ASSUME TypeOK, NEW c \in Channels, Updates(c), remote' = remote
    PROVE  /\ Published' = Published /\ Closed' = Closed
           /\ \/ Custodies' = Custodies
              \/ /\ Custodies[c] = "destroyed" /\ c \notin Closed
                 /\ Custodies' = [Custodies EXCEPT ![c] = "held"]
              \/ /\ Custodies[c] = "held" /\ c \notin Closed /\ Accepted(c)
                 /\ Custodies' = [Custodies EXCEPT ![c] = "destroyed"]
<1>1. PICK r \in Rows : /\ r.life = rows[c].life
                        /\ r.enc = rows[c].enc \/ r.enc # NoBlob \/ Accepted(c)
                        /\ rows' = Updated(c, r)
  BY DEF Updates
<1>2. rows \in [Channels -> Rows] /\ rows[c].life # "absent"
  BY DEF Updates, TypeOK
<1>3. Published' = Published
  BY DEF Published
<1>4. CASE rows[c].life # "live"
  <2>1. rows' = rows
    BY <1>1, <1>4 DEF Updated
  <2>2. QED
    BY <1>3, <2>1 DEF Custodies, CustodyOf, Closed
<1>5. CASE rows[c].life = "live"
  <2>1. rows' = [rows EXCEPT ![c] = r]
    BY <1>1, <1>5 DEF Updated
  <2>2. Closed' = Closed /\ c \notin Closed
    BY <1>1, <1>2, <1>5, <2>1 DEF Closed
  <2>3. /\ Custodies[c] = IF rows[c].enc # NoBlob THEN "held" ELSE "destroyed"
        /\ Custodies' = [Custodies EXCEPT ![c] =
                           IF r.enc # NoBlob THEN "held" ELSE "destroyed"]
    BY <1>1, <1>2, <1>5, <2>1 DEF Custodies, CustodyOf
  <2>4. [Custodies EXCEPT ![c] = Custodies[c]] = Custodies
    BY DEF Custodies
  <2>5. QED
    BY <1>1, <1>3, <2>2, <2>3, <2>4
<1>6. QED
  BY <1>4, <1>5

\* AGT's answer to a POST publishes the channel.
LEMMA AgtRefines ==
    ASSUME TypeOK, NEW q \in Requests, NEW id \in RemoteIds, AgtApplies(q, id),
           rows' = rows, rows[q.ch].life # "absent",
           q.rid # None => Owns(q.ch, q.rid)
    PROVE  /\ Custodies[q.ch] # "none"
           /\ Custodies' = Custodies /\ Closed' = Closed
           /\ Published' = Published \cup {q.ch}
<1>1. q.ch \in Channels /\ q.ch # None
  BY NoneIsFresh DEF Requests
<1>2. Custodies[q.ch] # "none" /\ Custodies' = Custodies /\ Closed' = Closed
  BY <1>1 DEF Custodies, CustodyOf, Closed
<1>3. /\ remote'[id].owner = q.ch
      /\ remote[id].owner \in {None, q.ch}
      /\ \A i \in RemoteIds : i # id => remote'[i] = remote[i]
  <2>1. remote \in [RemoteIds -> Templates]
    BY DEF TypeOK
  <2>2. CASE q.rid = None /\ remote[id].owner = None
    BY <2>1, <2>2, AgtAppliesFacts DEF AgtApplies
  <2>3. CASE q.rid = id
    BY <2>1, <2>3, AgtAppliesFacts, NoneIsFresh DEF AgtApplies, Owns
  <2>4. QED
    BY <2>2, <2>3 DEF AgtApplies
<1>4. Published' = Published \cup {q.ch}
  BY <1>1, <1>3 DEF Published
<1>5. QED
  BY <1>2, <1>4

LEMMA StepRefines ==
    ASSUME IInv, [Next]_vars
    PROVE  [Custody!CNext]_(Custody!cvars)
<1> USE DEF Custody!CNext, Custody!cvars, Custody!Upload, Custody!Publish,
            Custody!Destroy, Custody!Rearm, Custody!Close
<1>1. TypeOK
  BY DEF IInv
<1>2. CASE rows' = rows /\ remote' = remote
  <2>1. Custodies' = Custodies /\ Published' = Published /\ Closed' = Closed
    BY <1>2 DEF Custodies, CustodyOf, Published, Closed
  <2>2. QED
    BY <2>1 DEF Custodies, Published, Closed
<1>3. ASSUME NEW c \in Channels, Inserts(c), remote' = remote
      PROVE  Custody!Upload(c)
  BY <1>1, <1>3, InsertsRefines DEF Custodies, Published, Closed
<1>4. ASSUME NEW c \in Channels, Deletes(c), remote' = remote
      PROVE  Custody!Close(c)
  BY <1>1, <1>4, DeletesRefines DEF Custodies, Published, Closed
<1>5. ASSUME NEW c \in Channels, Updates(c), remote' = remote
      PROVE  UNCHANGED Custody!cvars \/ Custody!Rearm(c) \/ Custody!Destroy(c)
  <2>1. Accepted(c) => c \in Published
    <3>1. SUFFICES ASSUME Accepted(c) PROVE c \in Published
      OBVIOUS
    <3>2. PICK w \in Workers : /\ worker[w].pc = "answered" /\ worker[w].ch = c
                               /\ remote[worker[w].rid].owner = c
      BY <3>1 DEF Accepted
    <3>3. worker[w].rid \in RemoteIds
      BY <3>2, WorkerFacts DEF Owns
    <3>4. QED
      BY <3>2, <3>3, NoneIsFresh DEF Published
  <2>2. QED
    BY <1>1, <1>5, <2>1, UpdatesRefines DEF Custodies, Published, Closed
<1>6. ASSUME NEW q \in Requests, NEW id \in RemoteIds, rows' = rows,
             AgtApplies(q, id), rows[q.ch].life # "absent",
             q.rid # None => Owns(q.ch, q.rid)
      PROVE  q.ch \in Channels /\ Custody!Publish(q.ch)
  <2>1. q.ch \in Channels
    BY DEF Requests
  <2>2. QED
    BY <1>1, <1>6, <2>1, AgtRefines DEF Custodies, Published, Closed
<1>7. QED
  BY <1>2, <1>3, <1>4, <1>5, <1>6, StepKinds

LEMMA InitRefines == Init => Custody!CInit
<1>1. SUFFICES ASSUME Init PROVE Custody!CInit
  OBVIOUS
<1>2. \A c \in Channels : rows[c].life = "absent"
  BY <1>1, AbsentRowFacts DEF Init
<1>3. \A id \in RemoteIds : remote[id].owner = None
  BY <1>1 DEF Init, NoTemplate
<1>4. /\ [c \in Channels |-> CustodyOf(c)] = [c \in Channels |-> "none"]
      /\ {c \in Channels : rows[c].life = "deleted"} = {}
  BY <1>2 DEF CustodyOf
<1>5. {remote[id].owner : id \in RemoteIds} \ {None} = {}
  BY <1>3
<1>6. QED
  BY <1>4, <1>5 DEF Custody!CInit

\* The handlers, goroutines and tables implement the custody contract of
\* KeyCustody, the "destroy-by-default" of model/channel.go:13-24.
THEOREM ImplementsKeyCustody == Spec => KeepsCustody
<1>1. QED
  BY InitRefines, InvariantHolds, StepRefines, PTL
     DEF Spec, KeepsCustody, Custody!CSpec

-----------------------------------------------------------------------------
(* The retry budget. *)

Syncing(c) == {w \in Workers : worker[w].ch = c}

Waiting(c) == {h \in Handlers : handler[h].pc = "dispatch" /\ handler[h].ch = c}

\* Every edit on its way carries a key, so Rotate will reset the attempts.
EditsRotate == \A h \in Handlers : handler[h].pc = "edit" => handler[h].key # None

RetryInv == IInv /\ EditsRotate /\ RetryOvershootBounded

LEMMA SyncsCounted ==
    ASSUME NEW c
    PROVE  /\ IsFiniteSet(Syncing(c)) /\ IsFiniteSet(Waiting(c))
           /\ Cardinality(Syncing(c)) \in Nat /\ Cardinality(Waiting(c)) \in Nat
           /\ Cardinality(Workers) \in Nat /\ Cardinality(Handlers) \in Nat
           /\ Cardinality(Syncing(c)) <= Cardinality(Workers)
           /\ Cardinality(Waiting(c)) <= Cardinality(Handlers)
           /\ Outstanding(c) = Cardinality(Syncing(c)) + Cardinality(Waiting(c))
<1>1. Syncing(c) \subseteq Workers /\ Waiting(c) \subseteq Handlers
  BY DEF Syncing, Waiting
<1>2. QED
  BY <1>1, CountSubset, ProcessesAreFinite DEF Outstanding, Syncing, Waiting

\* The same sets in the next state, whatever the step.
LEMMA NextSyncsCounted ==
    ASSUME NEW c
    PROVE  /\ Cardinality(Syncing(c)') \in Nat /\ Cardinality(Waiting(c)') \in Nat
           /\ Cardinality(Syncing(c)') <= Cardinality(Workers)
           /\ Cardinality(Waiting(c)') <= Cardinality(Handlers)
           /\ Outstanding(c)' = Cardinality(Syncing(c)') + Cardinality(Waiting(c)')
<1>1. Syncing(c)' \subseteq Workers /\ Waiting(c)' \subseteq Handlers
  BY DEF Syncing, Waiting
<1>2. QED
  BY <1>1, CountSubset, ProcessesAreFinite DEF Outstanding, Syncing, Waiting

\* An attempt is paid for by a sync that ends.
Spends(c) ==
    rows'[c].life = "live" =>
        /\ rows[c].life = "live"
        /\ rows'[c].attempts + Outstanding(c)' <= rows[c].attempts + Outstanding(c)

\* The row has attempts left.
HasBudget(c) == rows'[c].attempts < MaxSyncRetries

\* The step leaves the attempts of c alone and starts no sync of it.
LEMMA NoneStarted ==
    ASSUME TypeOK, NEW c \in Channels,
           rows'[c].life = "live" =>
             rows[c].life = "live" /\ rows'[c].attempts = rows[c].attempts,
           Syncing(c)' \subseteq Syncing(c), Waiting(c)' \subseteq Waiting(c)
    PROVE  Spends(c)
<1>1. rows[c].attempts \in Nat
  BY DEF TypeOK, Rows
<1>2. /\ Cardinality(Syncing(c)') <= Cardinality(Syncing(c))
      /\ Cardinality(Waiting(c)') <= Cardinality(Waiting(c))
  BY SyncsCounted, CountSubset
<1>3. Outstanding(c)' <= Outstanding(c) /\ Outstanding(c) \in Nat /\ Outstanding(c)' \in Nat
  BY <1>2, SyncsCounted, NextSyncsCounted
<1>4. QED
  BY <1>1, <1>3 DEF Spends

\* A handler that does not wait for its go statement is nobody's sync.
LEMMA HandlerElsewhere ==
    ASSUME TypeOK, NEW h \in Handlers, NEW s, NEW c,
           handler' = [handler EXCEPT ![h] = s],
           s.pc # "dispatch" \/ s.ch # c
    PROVE  Waiting(c)' \subseteq Waiting(c) \ {h}
BY DEF TypeOK, Waiting

LEMMA WorkerElsewhere ==
    ASSUME TypeOK, NEW w \in Workers, NEW s, NEW c,
           worker' = [worker EXCEPT ![w] = s],
           s.ch # c
    PROVE  Syncing(c)' \subseteq Syncing(c) \ {w}
BY DEF TypeOK, Syncing

LEMMA WorkerStays ==
    ASSUME TypeOK, NEW w \in Workers, NEW s, NEW c,
           worker' = [worker EXCEPT ![w] = s],
           s.ch = worker[w].ch
    PROVE  Syncing(c)' \subseteq Syncing(c)
BY DEF TypeOK, Syncing

LEMMA UpdatedRow ==
    ASSUME TypeOK, NEW c \in Channels, NEW r, rows' = Updated(c, r)
    PROVE  /\ \A d \in Channels : d # c => rows'[d] = rows[d]
           /\ rows[c].life = "live" => rows'[c] = r
           /\ rows[c].life # "live" => rows'[c] = rows[c]
BY DEF TypeOK, Updated

LEMMA CreateInsertRetries ==
    ASSUME IInv, MaxSyncRetries > 0, NEW c \in Channels,
           NEW h \in Handlers, NEW d \in Channels, CreateInsert(h, d)
    PROVE  Spends(c) \/ HasBudget(c)
<1> DEFINE s == [handler[h] EXCEPT !.pc = "dispatch", !.ch = d]
<1>1. handler[h].key \in Keys /\ handler[h].models \in Models /\ kek \in KEKs
  BY DEF IInv, TypeOK, HandlersOK, CreateInsert
<1>2. /\ rows' = [rows EXCEPT ![d] = CreatedRow(handler[h].key, handler[h].models)]
      /\ handler' = [handler EXCEPT ![h] = s]
      /\ worker' = worker /\ TypeOK /\ handler[h] \in HandlerStates
  BY DEF CreateInsert, IInv, TypeOK
<1>3. s.ch = d
  BY <1>2 DEF HandlerStates
<1> HIDE DEF s
<1>4. CASE c = d
  <2>1. rows'[c].attempts = 0
    BY <1>1, <1>2, <1>4, CreatedRowFacts DEF TypeOK
  <2>2. QED
    BY <2>1 DEF HasBudget
<1>5. CASE c # d
  <2>1. rows'[c] = rows[c]
    BY <1>2, <1>5 DEF TypeOK
  <2>2. Syncing(c)' = Syncing(c) /\ Waiting(c)' \subseteq Waiting(c)
    BY <1>2, <1>3, <1>5, HandlerElsewhere DEF Syncing
  <2>3. QED
    BY <1>2, <2>1, <2>2, NoneStarted
<1>6. QED
  BY <1>4, <1>5

LEMMA EditWriteRetries ==
    ASSUME IInv, EditsRotate, NEW c \in Channels, NEW h \in Handlers, EditWrite(h)
    PROVE  Spends(c)
<1> DEFINE d == handler[h].ch
           s == [handler[h] EXCEPT !.pc = "rotate"]
<1>1. /\ d \in Channels /\ rows[d] \in Rows /\ handler[h].models \in Models
      /\ handler[h].key # None /\ handler[h] \in HandlerStates /\ TypeOK
  BY RowFacts DEF IInv, TypeOK, HandlersOK, EditWrite, EditsRotate
<1>2. /\ rows' = Updated(d, EditedRow(rows[d], handler[h].models))
      /\ handler' = [handler EXCEPT ![h] = s]
      /\ worker' = worker
  BY <1>1 DEF EditWrite, TypeOK
<1>3. s.pc # "dispatch"
  BY <1>1 DEF HandlerStates
<1> HIDE DEF s
<1>4. rows'[c].life = rows[c].life /\ rows'[c].attempts = rows[c].attempts
  BY <1>1, <1>2, UpdatedRow, EditedRowFacts
<1>5. Syncing(c)' = Syncing(c) /\ Waiting(c)' \subseteq Waiting(c)
  BY <1>1, <1>2, <1>3, HandlerElsewhere DEF Syncing
<1>6. QED
  BY <1>1, <1>4, <1>5, NoneStarted

LEMMA RotateRetries ==
    ASSUME IInv, MaxSyncRetries > 0, NEW c \in Channels, NEW h \in Handlers, Rotate(h)
    PROVE  Spends(c) \/ HasBudget(c)
<1> DEFINE d == handler[h].ch
           s == [handler[h] EXCEPT !.pc = "dispatch"]
<1>1. /\ d \in Channels /\ rows[d] \in Rows /\ handler[h].key \in Keys /\ kek \in KEKs
      /\ handler[h] \in HandlerStates /\ TypeOK
  BY RowFacts DEF IInv, TypeOK, HandlersOK, Rotate
<1>2. /\ rows' = Updated(d, RekeyedRow(rows[d], handler[h].key))
      /\ handler' = [handler EXCEPT ![h] = s]
      /\ worker' = worker
  BY <1>1 DEF Rotate, TypeOK
<1>3. s.ch = d
  BY <1>1 DEF HandlerStates
<1> HIDE DEF s
<1>4. CASE c = d /\ rows[c].life = "live"
  <2>1. rows'[c].attempts = 0
    BY <1>1, <1>2, <1>4, UpdatedRow, RekeyedRowFacts
  <2>2. QED
    BY <2>1 DEF HasBudget
<1>5. CASE rows[c].life # "live"
  <2>1. rows'[c].life # "live"
    BY <1>1, <1>2, <1>5, UpdatedRow
  <2>2. QED
    BY <2>1 DEF Spends
<1>6. CASE c # d
  <2>1. rows'[c] = rows[c]
    BY <1>1, <1>2, <1>6, UpdatedRow
  <2>2. Syncing(c)' = Syncing(c) /\ Waiting(c)' \subseteq Waiting(c)
    BY <1>1, <1>2, <1>3, <1>6, HandlerElsewhere DEF Syncing
  <2>3. QED
    BY <1>1, <2>1, <2>2, NoneStarted
<1>7. QED
  BY <1>4, <1>5, <1>6

LEMMA ResyncCheckRetries ==
    ASSUME IInv, NEW c \in Channels, NEW h \in Handlers, NEW d \in Channels,
           ResyncCheck(h, d)
    PROVE  Spends(c) \/ HasBudget(c)
<1> DEFINE s == [IdleHandler EXCEPT !.pc = "dispatch", !.ch = d]
<1>1. s.ch = d
  BY DEF IdleHandler
<1>2. /\ rows' = rows /\ worker' = worker /\ TypeOK
      /\ handler' = [handler EXCEPT ![h] = s]
      /\ rows[d].attempts < MaxSyncRetries
  BY DEF ResyncCheck, IInv
<1> HIDE DEF s
<1>3. CASE c = d
  BY <1>2, <1>3 DEF HasBudget
<1>4. CASE c # d
  <2>1. Syncing(c)' = Syncing(c) /\ Waiting(c)' \subseteq Waiting(c)
    BY <1>1, <1>2, <1>4, HandlerElsewhere DEF Syncing
  <2>2. QED
    BY <1>2, <2>1, NoneStarted
<1>5. QED
  BY <1>3, <1>4

\* The go statement moves a sync from the handler to the goroutine.
LEMMA DispatchRetries ==
    ASSUME IInv, NEW c \in Channels, NEW h \in Handlers, NEW w \in Workers,
           Dispatch(h, w)
    PROVE  Spends(c)
<1> DEFINE s == [IdleWorker EXCEPT !.pc = "started", !.ch = handler[h].ch]
<1>1. s.ch = handler[h].ch
  BY DEF IdleWorker
<1>2. /\ rows' = rows /\ TypeOK /\ handler[h].pc = "dispatch"
      /\ handler' = [handler EXCEPT ![h] = IdleHandler]
      /\ worker' = [worker EXCEPT ![w] = s]
  BY DEF Dispatch, HandlerEnds, IInv
<1> HIDE DEF s
<1>3. Waiting(c)' \subseteq Waiting(c) \ {h}
  BY <1>2, IdleFacts, HandlerElsewhere
<1>4. CASE c # handler[h].ch
  BY <1>1, <1>2, <1>3, <1>4, WorkerElsewhere, NoneStarted
<1>5. CASE c = handler[h].ch
  <2>1. h \in Waiting(c)
    BY <1>2, <1>5 DEF Waiting
  <2>2. Syncing(c)' \subseteq Syncing(c) \cup {w}
    BY <1>2 DEF Syncing, TypeOK
  <2>3. /\ Cardinality(Waiting(c)') + 1 <= Cardinality(Waiting(c))
        /\ Cardinality(Syncing(c)') <= Cardinality(Syncing(c)) + 1
    BY <1>3, <2>1, <2>2, CountRemoved, CountAdded, SyncsCounted
  <2>4. Outstanding(c)' <= Outstanding(c) /\ Outstanding(c) \in Nat /\ Outstanding(c)' \in Nat
    BY <2>3, SyncsCounted, NextSyncsCounted
  <2>5. rows[c].attempts \in Nat
    BY <1>2 DEF TypeOK, Rows
  <2>6. QED
    BY <1>2, <2>4, <2>5 DEF Spends
<1>6. QED
  BY <1>4, <1>5

\* CannotSend and SyncFails: the failed attempt replaces the goroutine.
LEMMA FailedRetries ==
    ASSUME IInv, NEW c \in Channels, NEW w \in Workers, worker[w].pc # "idle",
           rows' = Updated(worker[w].ch, FailedRow(rows[worker[w].ch])),
           WorkerEnds(w), handler' = handler
    PROVE  Spends(c)
<1> DEFINE d == worker[w].ch
<1>1. /\ d \in Channels /\ rows[d] \in Rows /\ TypeOK
      /\ worker' = [worker EXCEPT ![w] = IdleWorker]
  BY WorkerFacts, RowFacts DEF IInv, WorkerEnds
<1>2. IdleWorker.ch # c
  BY NoneIsFresh DEF IdleWorker
<1>3. Syncing(c)' \subseteq Syncing(c) \ {w} /\ Waiting(c)' = Waiting(c)
  BY <1>1, <1>2, WorkerElsewhere DEF Waiting
<1>4. CASE c # d
  <2>1. rows'[c] = rows[c]
    BY <1>1, <1>4, UpdatedRow
  <2>2. QED
    BY <1>1, <1>3, <2>1, NoneStarted
<1>5. CASE c = d /\ rows[c].life = "live"
  <2>1. rows'[c].attempts = rows[c].attempts + 1 /\ rows[c].attempts \in Nat
    BY <1>1, <1>5, UpdatedRow, FailedRowFacts DEF Rows
  <2>2. w \in Syncing(c)
    BY <1>5 DEF Syncing
  <2>3. Cardinality(Syncing(c)') + 1 <= Cardinality(Syncing(c))
    BY <1>3, <2>2, CountRemoved, SyncsCounted
  <2>4. Outstanding(c)' + 1 <= Outstanding(c) /\ Outstanding(c) \in Nat /\ Outstanding(c)' \in Nat
    BY <1>3, <2>3, SyncsCounted, NextSyncsCounted
  <2>5. QED
    BY <1>5, <2>1, <2>4 DEF Spends
<1>6. CASE c = d /\ rows[c].life # "live"
  <2>1. rows'[c].life # "live"
    BY <1>1, <1>6, UpdatedRow
  <2>2. QED
    BY <2>1 DEF Spends
<1>7. QED
  BY <1>4, <1>5, <1>6

\* A goroutine's other steps: it goes on with its channel, or ends.
LEMMA WorkerRetries ==
    ASSUME IInv, NEW c \in Channels, NEW w \in Workers, WorkerSteps(w) \/ WorkerDbError(w)
    PROVE  Spends(c)
<1>1. TypeOK /\ IdleWorker.ch # c
  BY NoneIsFresh DEF IInv, IdleWorker
<1>2. ASSUME WorkerEnds(w), handler' = handler,
             rows'[c].life = rows[c].life, rows'[c].attempts = rows[c].attempts
      PROVE  Spends(c)
  <2>1. Syncing(c)' \subseteq Syncing(c) /\ Waiting(c)' = Waiting(c)
    BY <1>1, <1>2, WorkerElsewhere DEF WorkerEnds, Waiting
  <2>2. QED
    BY <1>1, <1>2, <2>1, NoneStarted
<1>3. ASSUME NEW s, worker' = [worker EXCEPT ![w] = s], s.ch = worker[w].ch,
             handler' = handler, rows' = rows
      PROVE  Spends(c)
  <2>1. Syncing(c)' \subseteq Syncing(c) /\ Waiting(c)' = Waiting(c)
    BY <1>1, <1>3, WorkerStays DEF Waiting
  <2>2. QED
    BY <1>1, <1>3, <2>1, NoneStarted
<1>4. CASE Load(w)
  <2> DEFINE r == rows[worker[w].ch]
             s == [worker[w] EXCEPT !.pc = "loaded", !.rid = r.remote,
                     !.models = r.models,
                     !.blob = IF HasRecoverableKey(r) THEN r.enc ELSE NoBlob]
  <2>1. worker' = [worker EXCEPT ![w] = s] /\ handler' = handler /\ rows' = rows
    BY <1>4 DEF Load
  <2>2. s.ch = worker[w].ch
    BY <1>1 DEF TypeOK, WorkerStates
  <2> HIDE DEF s
  <2>3. QED
    BY <1>3, <2>1, <2>2
<1>5. CASE Send(w)
  <2> DEFINE s == [worker[w] EXCEPT !.pc = "await"]
  <2>1. worker' = [worker EXCEPT ![w] = s] /\ handler' = handler /\ rows' = rows
    BY <1>5 DEF Send
  <2>2. s.ch = worker[w].ch
    BY <1>1 DEF TypeOK, WorkerStates
  <2> HIDE DEF s
  <2>3. QED
    BY <1>3, <2>1, <2>2
<1>6. CASE LoadMissing(w) \/ PlatformMissing(w) \/ WorkerDbError(w)
  BY <1>2, <1>6 DEF LoadMissing, PlatformMissing, WorkerDbError
<1>7. CASE CannotSend(w) \/ SyncFails(w)
  BY <1>7, FailedRetries DEF CannotSend, SyncFails, GivesUp
<1>8. CASE MarkSynced(w)
  <2> DEFINE d == worker[w].ch
  <2>1. /\ d \in Channels /\ worker[w].rid \in RemoteIds /\ rows[d] \in Rows
        /\ rows' = Updated(d, SyncedRow(rows[d], worker[w].rid))
        /\ WorkerEnds(w) /\ handler' = handler
    BY <1>8, WorkerFacts, RowFacts DEF MarkSynced, Owns
  <2>2. rows'[c].life = rows[c].life /\ rows'[c].attempts = rows[c].attempts
    BY <1>1, <2>1, UpdatedRow, SyncedRowFacts
  <2>3. QED
    BY <1>2, <2>1, <2>2
<1>9. CASE MarkMetadataSynced(w)
  <2> DEFINE d == worker[w].ch
  <2>1. /\ d \in Channels /\ rows[d] \in Rows
        /\ rows' = Updated(d, MetadataSyncedRow(rows[d]))
        /\ WorkerEnds(w) /\ handler' = handler
    BY <1>9, WorkerFacts, RowFacts DEF MarkMetadataSynced
  <2>2. rows'[c].life = rows[c].life /\ rows'[c].attempts = rows[c].attempts
    BY <1>1, <2>1, UpdatedRow, MetadataSyncedRowFacts
  <2>3. QED
    BY <1>2, <2>1, <2>2
<1>10. QED
  BY <1>4, <1>5, <1>6, <1>7, <1>8, <1>9 DEF WorkerSteps

\* AgtApply keeps the goroutine's channel.
LEMMA AgtApplyRetries ==
    ASSUME IInv, NEW c \in Channels, NEW w \in Workers, NEW id \in RemoteIds,
           AgtApply(w, id)
    PROVE  Spends(c)
<1> DEFINE s == [worker[w] EXCEPT !.pc = "answered", !.rid = id]
<1>1. /\ TypeOK /\ rows' = rows /\ handler' = handler
      /\ worker' = [worker EXCEPT ![w] = s]
  BY DEF AgtApply, IInv
<1>2. s.ch = worker[w].ch
  BY <1>1 DEF TypeOK, WorkerStates
<1> HIDE DEF s
<1>3. Syncing(c)' \subseteq Syncing(c) /\ Waiting(c)' = Waiting(c)
  BY <1>1, <1>2, WorkerStays DEF Waiting
<1>4. QED
  BY <1>1, <1>3, NoneStarted

\* CreateAuthorize, EditRead and HandlerDbError: the handler waits for no go
\* statement.
LEMMA HandlerRetries ==
    ASSUME IInv, NEW c \in Channels, NEW h \in Handlers,
           \/ \E k \in Keys, m \in Models : CreateAuthorize(h, k, m)
           \/ \E d \in Channels : EditRead(h, d)
           \/ HandlerDbError(h)
    PROVE  Spends(c)
<1>1. /\ rows' = rows /\ worker' = worker
      /\ \E s : s.pc # "dispatch" /\ handler' = [handler EXCEPT ![h] = s]
  <2>1. CASE \E k \in Keys, m \in Models : CreateAuthorize(h, k, m)
    BY <2>1 DEF CreateAuthorize
  <2>2. CASE \E d \in Channels : EditRead(h, d)
    BY <2>2 DEF EditRead
  <2>3. CASE HandlerDbError(h)
    BY <2>3, IdleFacts DEF HandlerDbError, HandlerEnds
  <2>4. QED
    BY <2>1, <2>2, <2>3
<1>2. TypeOK
  BY DEF IInv
<1>3. Syncing(c)' = Syncing(c) /\ Waiting(c)' \subseteq Waiting(c)
  BY <1>1, <1>2, HandlerElsewhere DEF Syncing
<1>4. QED
  BY <1>1, <1>2, <1>3, NoneStarted

LEMMA RetryStep ==
    ASSUME IInv, EditsRotate, MaxSyncRetries > 0, [Next]_vars, NEW c \in Channels
    PROVE  Spends(c) \/ HasBudget(c)
<1>1. ASSUME NEW h \in Handlers, HandlerSteps(h)
      PROVE  Spends(c) \/ HasBudget(c)
  BY <1>1, CreateInsertRetries, EditWriteRetries, RotateRetries DEF HandlerSteps
<1>2. ASSUME rows' = rows \/ (\E d \in Channels : DeleteChannel(d)),
             worker' = worker, handler' = handler
      PROVE  Spends(c)
  <2>1. Syncing(c)' = Syncing(c) /\ Waiting(c)' = Waiting(c)
    BY <1>2 DEF Syncing, Waiting
  <2>2. rows'[c].life = "live" =>
          rows[c].life = "live" /\ rows'[c].attempts = rows[c].attempts
    BY <1>2 DEF DeleteChannel, IInv, TypeOK, Rows
  <2>3. QED
    BY <2>1, <2>2, NoneStarted DEF IInv
<1>3. CASE Restart
  <2>1. IdleWorker.ch # c /\ IdleHandler.pc # "dispatch"
    BY IdleFacts, NoneIsFresh DEF IdleWorker
  <2>2. Syncing(c)' = {} /\ Waiting(c)' = {} /\ rows' = rows
    BY <1>3, <2>1 DEF Restart, Syncing, Waiting
  <2>3. QED
    BY <2>2, NoneStarted DEF IInv
<1>4. CASE SetModexToken \/ DeletePlatformCount \/ DeletePlatformRow
  BY <1>2, <1>4 DEF SetModexToken, DeletePlatformCount, DeletePlatformRow
<1>5. CASE UNCHANGED vars
  BY <1>2, <1>5 DEF vars
<1>6. ASSUME NEW d \in Channels, DeleteChannel(d) PROVE Spends(c)
  BY <1>2, <1>6 DEF DeleteChannel
<1>7. ASSUME NEW q \in strays, NEW id \in RemoteIds, AgtApplyStray(q, id)
      PROVE  Spends(c)
  BY <1>2, <1>7 DEF AgtApplyStray
<1>8. QED
  BY <1>1, <1>3, <1>4, <1>5, <1>6, <1>7, HandlerRetries, ResyncCheckRetries,
     DispatchRetries, WorkerRetries, AgtApplyRetries DEF Next

\* Where a handler can be after a step: what it asks for when it is editing, and
\* what it asked for when it goes on to rotate.
HandlerGoes(g) ==
    \/ handler'[g] = handler[g]
    \/ handler'[g].pc \notin {"edit", "rotate"}
    \/ /\ handler'[g].pc = "edit"
       /\ \E c \in Channels : \E e \in EditRequests(c) :
            /\ handler'[g].ch = c /\ rows[c].life = "live"
            /\ handler'[g].key = e.key /\ handler'[g].models = e.models
    \/ /\ handler'[g].pc = "rotate"
       /\ handler[g].pc = "edit" /\ handler[g].key # None

LEMMA HandlersGo ==
    ASSUME TypeOK, [Next]_vars, NEW g \in Handlers
    PROVE  HandlerGoes(g)
<1>1. ASSUME NEW h \in Handlers, NEW s, handler' = [handler EXCEPT ![h] = s],
             s.pc \notin {"edit", "rotate"}
      PROVE  HandlerGoes(g)
  BY <1>1 DEF TypeOK, HandlerGoes
<1>2. ASSUME NEW h \in Handlers, NEW c \in Channels, EditRead(h, c)
      PROVE  HandlerGoes(g)
  <2>1. PICK e \in EditRequests(c) :
          handler' = [handler EXCEPT ![h] =
                        [pc |-> "edit", ch |-> c, key |-> e.key, models |-> e.models]]
    BY <1>2 DEF EditRead
  <2> DEFINE s == [pc |-> "edit", ch |-> c, key |-> e.key, models |-> e.models]
  <2>2. /\ s.pc = "edit" /\ s.ch = c /\ s.key = e.key /\ s.models = e.models
        /\ handler' = [handler EXCEPT ![h] = s] /\ rows[c].life = "live"
    BY <1>2, <2>1 DEF EditRead
  <2> HIDE DEF s
  <2>3. QED
    BY <2>2 DEF TypeOK, HandlerGoes
<1>3. ASSUME NEW h \in Handlers,
             \/ \E k \in Keys, m \in Models : CreateAuthorize(h, k, m)
             \/ \E w \in Workers : Dispatch(h, w)
             \/ HandlerDbError(h)
      PROVE  \E s : /\ handler' = [handler EXCEPT ![h] = s]
                    /\ s.pc \notin {"edit", "rotate"}
  <2>1. CASE \E k \in Keys, m \in Models : CreateAuthorize(h, k, m)
    BY <2>1 DEF CreateAuthorize
  <2>2. CASE (\E w \in Workers : Dispatch(h, w)) \/ HandlerDbError(h)
    BY <2>2, IdleFacts DEF Dispatch, HandlerDbError, HandlerEnds
  <2>3. QED
    BY <1>3, <2>1, <2>2
<1>4. ASSUME NEW h \in Handlers, NEW c \in Channels, ResyncCheck(h, c)
      PROVE  HandlerGoes(g)
  <2> DEFINE s == [IdleHandler EXCEPT !.pc = "dispatch", !.ch = c]
  <2>1. handler' = [handler EXCEPT ![h] = s] /\ s.pc = "dispatch"
    BY <1>4 DEF ResyncCheck, IdleHandler
  <2> HIDE DEF s
  <2>2. QED
    BY <1>1, <2>1
<1>5. ASSUME NEW h \in Handlers, NEW c \in Channels, CreateInsert(h, c)
      PROVE  HandlerGoes(g)
  <2> DEFINE s == [handler[h] EXCEPT !.pc = "dispatch", !.ch = c]
  <2>1. handler' = [handler EXCEPT ![h] = s] /\ s.pc = "dispatch"
    BY <1>5 DEF CreateInsert, TypeOK, HandlerStates
  <2> HIDE DEF s
  <2>2. QED
    BY <1>1, <2>1
<1>6. ASSUME NEW h \in Handlers, EditWrite(h) \/ Rotate(h)
      PROVE  HandlerGoes(g)
  <2>1. PICK p \in {"rotate", "dispatch"} :
          /\ handler' = [handler EXCEPT ![h].pc = p]
          /\ p = "rotate" => handler[h].pc = "edit" /\ handler[h].key # None
    BY <1>6 DEF EditWrite, Rotate
  <2> DEFINE s == [handler[h] EXCEPT !.pc = p]
  <2>2. handler' = [handler EXCEPT ![h] = s] /\ s.pc = p
    BY <2>1 DEF TypeOK, HandlerStates
  <2> HIDE DEF s
  <2>3. QED
    BY <2>1, <2>2 DEF TypeOK, HandlerGoes
<1>7. CASE handler' = handler
  BY <1>7 DEF HandlerGoes
<1>8. CASE Restart
  BY <1>8, IdleFacts DEF Restart, HandlerGoes
<1>9. CASE UNCHANGED vars
  BY <1>9 DEF vars, HandlerGoes
<1>10. ASSUME NEW w \in Workers, WorkerSteps(w) \/ WorkerDbError(w)
       PROVE  handler' = handler
  BY <1>10 DEF WorkerSteps, WorkerDbError, Load, LoadMissing, PlatformMissing,
     CannotSend, Send, MarkSynced, MarkMetadataSynced, SyncFails
<1>11. ASSUME NEW w \in Workers, NEW id \in RemoteIds, AgtApply(w, id)
       PROVE  handler' = handler
  BY <1>11 DEF AgtApply
<1>12. ASSUME NEW q \in strays, NEW id \in RemoteIds, AgtApplyStray(q, id)
       PROVE  handler' = handler
  BY <1>12 DEF AgtApplyStray
<1>13. ASSUME \/ \E c \in Channels : DeleteChannel(c)
              \/ SetModexToken \/ DeletePlatformCount \/ DeletePlatformRow
       PROVE  handler' = handler
  BY <1>13 DEF DeleteChannel, SetModexToken, DeletePlatformCount, DeletePlatformRow
<1>14. QED
  BY <1>1, <1>2, <1>3, <1>4, <1>5, <1>6, <1>7, <1>8, <1>9, <1>10, <1>11, <1>12,
     <1>13 DEF Next, HandlerSteps

LEMMA EditsRotateStep ==
    ASSUME IInv, EditsRotate, "models" \notin EditKinds, [Next]_vars
    PROVE  EditsRotate'
<1>1. \A g \in Handlers : HandlerGoes(g)
  BY HandlersGo DEF IInv
<1>2. \A c \in Channels : \A e \in EditRequests(c) : e.key # None
  BY DEF EditRequests
<1>3. QED
  BY <1>1, <1>2 DEF HandlerGoes, EditsRotate

\* When the only edits are rotations, the attempts on a row exceed the limit of
\* ResyncChannel (controller/supplier_channel.go:292) by less than the number of
\* goroutines and requests that run at one time, whatever the limit.
THEOREM RetryOvershootIsBounded ==
    ASSUME "models" \notin EditKinds, MaxSyncRetries > 0
    PROVE  Spec => []RetryOvershootBounded
<1>1. Init => RetryInv
  <2>1. SUFFICES ASSUME Init PROVE RetryInv
    OBVIOUS
  <2>2. EditsRotate
    BY <2>1, IdleFacts DEF Init, EditsRotate
  <2>3. RetryOvershootBounded
    BY <2>1, AbsentRowFacts DEF Init, RetryOvershootBounded
  <2>4. QED
    BY <2>1, <2>2, <2>3, InitEstablishes DEF RetryInv
<1>2. RetryInv /\ [Next]_vars => RetryInv'
  <2>1. SUFFICES ASSUME RetryInv, [Next]_vars PROVE RetryInv'
    OBVIOUS
  <2>2. IInv' /\ EditsRotate'
    BY <2>1, NextKeeps, EditsRotateStep DEF RetryInv
  <2>3. ASSUME NEW c \in Channels, rows'[c].life = "live"
        PROVE  rows'[c].attempts + Outstanding(c)'
                 < MaxSyncRetries + Cardinality(Workers) + Cardinality(Handlers)
    <3>1. rows'[c].attempts \in Nat
      BY <2>2 DEF IInv, TypeOK, Rows
    <3>2. MaxSyncRetries \in Nat
      BY BoundsAreNaturals
    <3>3. CASE Spends(c)
      <4>1. rows[c].life = "live" /\ rows[c].attempts \in Nat
        BY <2>1, <2>3, <3>3 DEF Spends, RetryInv, IInv, TypeOK, Rows
      <4>2. rows[c].attempts + Outstanding(c)
              < MaxSyncRetries + Cardinality(Workers) + Cardinality(Handlers)
        BY <2>1, <4>1 DEF RetryInv, RetryOvershootBounded
      <4>3. /\ Outstanding(c) \in Nat /\ Outstanding(c)' \in Nat
            /\ Cardinality(Workers) \in Nat /\ Cardinality(Handlers) \in Nat
        BY SyncsCounted, NextSyncsCounted
      <4>4. rows'[c].attempts + Outstanding(c)' <= rows[c].attempts + Outstanding(c)
        BY <2>3, <3>3 DEF Spends
      <4>5. QED
        BY <3>1, <3>2, <4>1, <4>2, <4>3, <4>4
    <3>4. CASE HasBudget(c)
      BY <3>1, <3>2, <3>4, SyncsCounted, NextSyncsCounted DEF HasBudget
    <3>5. QED
      BY <2>1, <3>3, <3>4, RetryStep DEF RetryInv
  <2>4. QED
    BY <2>2, <2>3 DEF RetryInv, RetryOvershootBounded
<1>3. RetryInv => RetryOvershootBounded
  BY DEF RetryInv
<1>4. QED
  BY <1>1, <1>2, <1>3, PTL DEF Spec

-----------------------------------------------------------------------------
(* The accepted key, when nobody rotates. *)

NobodyRotates ==
    \A h \in Handlers : /\ handler[h].pc = "edit" => handler[h].key = None
                        /\ handler[h].pc # "rotate"

\* A row's sealed key is the key of its fingerprint.
RowsKeyed ==
    \A c \in Channels : rows[c].life # "absent" =>
        /\ rows[c].fp \in Keys
        /\ rows[c].enc # NoBlob => rows[c].enc.key = rows[c].fp

\* A request brings the key of its row, or leaves AGT's alone.
Keyed(q) == q.key = rows[q.ch].fp \/ (q.key = None /\ q.rid # None)

WorkersKeyed ==
    \A w \in Workers : worker[w].pc # "idle" =>
        /\ worker[w].blob # NoBlob => worker[w].blob.key = rows[worker[w].ch].fp
        /\ worker[w].pc = "await" => worker[w].blob # NoBlob \/ worker[w].rid # None

StraysKeyed == \A q \in strays : Keyed(q)

TemplatesKeyed ==
    \A id \in RemoteIds : remote[id].owner # None =>
        /\ rows[remote[id].owner].life # "absent"
        /\ remote[id].key = rows[remote[id].owner].fp

KeysInv ==
    /\ IInv
    /\ NobodyRotates
    /\ RowsKeyed
    /\ WorkersKeyed
    /\ StraysKeyed
    /\ TemplatesKeyed

FingerprintsStay ==
    \A c \in Channels : rows[c].life # "absent" =>
        rows'[c].life # "absent" /\ rows'[c].fp = rows[c].fp

LEMMA NobodyRotatesStep ==
    ASSUME IInv, NobodyRotates, "key" \notin EditKinds, [Next]_vars
    PROVE  NobodyRotates'
<1>1. \A g \in Handlers : HandlerGoes(g)
  BY HandlersGo DEF IInv
<1>2. \A c \in Channels : \A e \in EditRequests(c) : e.key = None
  BY DEF EditRequests
<1>3. QED
  BY <1>1, <1>2 DEF HandlerGoes, NobodyRotates

\* What an update does to a row's key when nobody rotates.
LEMMA UpdateKeepsKey ==
    ASSUME TypeOK, RowsKeyed, NEW c \in Channels, NEW r, rows' = Updated(c, r),
           r.life = rows[c].life, r.fp = rows[c].fp,
           r.enc = rows[c].enc \/ r.enc = NoBlob
    PROVE  FingerprintsStay /\ RowsKeyed'
BY UpdatedRow DEF FingerprintsStay, RowsKeyed

LEMMA RowsUnchangedKeepKeys ==
    ASSUME RowsKeyed, rows' = rows
    PROVE  FingerprintsStay /\ RowsKeyed'
BY DEF FingerprintsStay, RowsKeyed

LEMMA RowsKeyedStep ==
    ASSUME IInv, NobodyRotates, RowsKeyed, [Next]_vars
    PROVE  FingerprintsStay /\ RowsKeyed'
<1>1. TypeOK
  BY DEF IInv
<1>2. ASSUME NEW h \in Handlers, NEW c \in Channels, CreateInsert(h, c)
      PROVE  FingerprintsStay /\ RowsKeyed'
  <2> DEFINE k == handler[h].key
             r == CreatedRow(k, handler[h].models)
  <2>1. k \in Keys /\ handler[h].models \in Models /\ kek \in KEKs
    BY <1>2 DEF IInv, TypeOK, HandlersOK, CreateInsert
  <2>2. r.life = "live" /\ r.fp = k /\ r.enc.key = k
    BY <2>1, CreatedRowFacts
  <2>3. rows' = [rows EXCEPT ![c] = r] /\ rows[c].life = "absent"
    BY <1>2 DEF CreateInsert
  <2> HIDE DEF k, r
  <2>4. QED
    BY <1>1, <2>1, <2>2, <2>3 DEF TypeOK, FingerprintsStay, RowsKeyed
<1>3. ASSUME NEW h \in Handlers, EditWrite(h)
      PROVE  FingerprintsStay /\ RowsKeyed'
  <2>1. /\ handler[h].ch \in Channels /\ rows[handler[h].ch] \in Rows
        /\ handler[h].models \in Models
    BY <1>3, RowFacts DEF IInv, HandlersOK, EditWrite
  <2>2. QED
    BY <1>1, <1>3, <2>1, EditedRowFacts, UpdateKeepsKey DEF EditWrite
<1>4. ASSUME NEW h \in Handlers, Rotate(h) PROVE FALSE
  BY <1>4 DEF Rotate, NobodyRotates
<1>5. ASSUME NEW w \in Workers, CannotSend(w) \/ SyncFails(w)
      PROVE  FingerprintsStay /\ RowsKeyed'
  <2> DEFINE c == worker[w].ch
  <2>1. rows' = Updated(c, FailedRow(rows[c])) /\ worker[w].pc # "idle"
    BY <1>5 DEF CannotSend, SyncFails, GivesUp
  <2>2. c \in Channels /\ rows[c] \in Rows
    BY <2>1, WorkerFacts, RowFacts
  <2>3. QED
    BY <1>1, <2>1, <2>2, FailedRowFacts, UpdateKeepsKey
<1>6. ASSUME NEW w \in Workers, MarkSynced(w)
      PROVE  FingerprintsStay /\ RowsKeyed'
  <2> DEFINE c == worker[w].ch
  <2>1. rows' = Updated(c, SyncedRow(rows[c], worker[w].rid))
    BY <1>6 DEF MarkSynced
  <2>2. c \in Channels /\ rows[c] \in Rows /\ worker[w].rid \in RemoteIds
    BY <1>6, WorkerFacts, RowFacts DEF MarkSynced, Owns
  <2>3. QED
    BY <1>1, <2>1, <2>2, SyncedRowFacts, UpdateKeepsKey
<1>7. ASSUME NEW w \in Workers, MarkMetadataSynced(w)
      PROVE  FingerprintsStay /\ RowsKeyed'
  <2> DEFINE c == worker[w].ch
  <2>1. rows' = Updated(c, MetadataSyncedRow(rows[c]))
    BY <1>7 DEF MarkMetadataSynced
  <2>2. c \in Channels /\ rows[c] \in Rows
    BY <1>7, WorkerFacts, RowFacts DEF MarkMetadataSynced
  <2>3. QED
    BY <1>1, <2>1, <2>2, MetadataSyncedRowFacts, UpdateKeepsKey
<1>8. ASSUME NEW c \in Channels, DeleteChannel(c)
      PROVE  FingerprintsStay /\ RowsKeyed'
  <2>1. \A d \in Channels :
          /\ rows'[d].fp = rows[d].fp /\ rows'[d].enc = rows[d].enc
          /\ rows[d].life # "absent" <=> rows'[d].life # "absent"
    BY <1>1, <1>8 DEF DeleteChannel, TypeOK, Rows
  <2>2. QED
    BY <2>1 DEF FingerprintsStay, RowsKeyed
<1>9. ASSUME NEW w \in Workers,
             \/ Load(w) \/ LoadMissing(w) \/ PlatformMissing(w) \/ Send(w)
             \/ WorkerDbError(w) \/ \E id \in RemoteIds : AgtApply(w, id)
      PROVE  rows' = rows
  BY <1>9 DEF Load, LoadMissing, PlatformMissing, Send, WorkerDbError, AgtApply
<1>10. ASSUME NEW h \in Handlers,
              \/ \E k \in Keys, m \in Models : CreateAuthorize(h, k, m)
              \/ \E c \in Channels : EditRead(h, c) \/ ResyncCheck(h, c)
              \/ \E w \in Workers : Dispatch(h, w)
              \/ HandlerDbError(h)
       PROVE  rows' = rows
  BY <1>10 DEF CreateAuthorize, EditRead, ResyncCheck, Dispatch, HandlerDbError
<1>11. ASSUME \/ \E q \in strays, id \in RemoteIds : AgtApplyStray(q, id)
              \/ SetModexToken \/ DeletePlatformCount \/ DeletePlatformRow \/ Restart
              \/ UNCHANGED vars
       PROVE  rows' = rows
  BY <1>11 DEF AgtApplyStray, SetModexToken, DeletePlatformCount, DeletePlatformRow,
     Restart, vars
<1>12. QED
  BY <1>2, <1>3, <1>4, <1>5, <1>6, <1>7, <1>8, <1>9, <1>10, <1>11,
     RowsUnchangedKeepKeys DEF Next, HandlerSteps, WorkerSteps

\* A goroutine's request brings the key it opened, or is a PUT without one.
LEMMA RequestKeyed ==
    ASSUME IInv, WorkersKeyed, NEW w \in Workers, worker[w].pc = "await"
    PROVE  Keyed(Request(w))
<1>1. Request(w).ch = worker[w].ch /\ Request(w).rid = worker[w].rid
  BY RequestFacts DEF IInv
<1>2. Request(w).key = worker[w].blob.key
  BY DEF Request
<1>3. CASE worker[w].blob # NoBlob
  BY <1>1, <1>2, <1>3 DEF WorkersKeyed, Keyed
<1>4. CASE worker[w].blob = NoBlob
  BY <1>1, <1>2, <1>4 DEF WorkersKeyed, Keyed, NoBlob
<1>5. QED
  BY <1>3, <1>4

\* What the goroutine w is after a step.
WorkerGoes(w) ==
    \/ worker'[w].pc = "idle"
    \/ /\ worker[w].pc = "idle" /\ worker'[w].pc = "started"
       /\ worker'[w].blob = NoBlob
    \/ /\ worker[w].pc = "started" /\ worker'[w].pc = "loaded"
       /\ worker'[w].ch = worker[w].ch
       /\ worker'[w].blob \in {NoBlob, rows[worker[w].ch].enc}
       /\ worker'[w].rid = rows[worker[w].ch].remote
       /\ worker'[w].models = rows[worker[w].ch].models
    \/ /\ worker[w].pc = "loaded" /\ worker'[w].pc = "await" /\ Sendable(w)
       /\ worker'[w].ch = worker[w].ch
       /\ worker'[w].blob = worker[w].blob /\ worker'[w].rid = worker[w].rid
       /\ worker'[w].models = worker[w].models
    \/ /\ worker[w].pc = "await" /\ worker'[w].pc = "answered"
       /\ worker'[w].ch = worker[w].ch /\ worker'[w].blob = worker[w].blob
    \/ worker'[w] = worker[w]

LEMMA WorkersGo ==
    ASSUME TypeOK, [Next]_vars, NEW v \in Workers
    PROVE  WorkerGoes(v)
<1>1. ASSUME NEW h \in Handlers, NEW w \in Workers, Dispatch(h, w)
      PROVE  WorkerGoes(v)
  <2> DEFINE s == [IdleWorker EXCEPT !.pc = "started", !.ch = handler[h].ch]
  <2>1. /\ worker' = [worker EXCEPT ![w] = s] /\ worker[w].pc = "idle"
        /\ s.pc = "started" /\ s.blob = NoBlob
    BY <1>1 DEF Dispatch, IdleWorker
  <2> HIDE DEF s
  <2>2. QED
    BY <2>1 DEF TypeOK, WorkerGoes
<1>2. ASSUME NEW w \in Workers, Load(w)
      PROVE  WorkerGoes(v)
  <2> DEFINE r == rows[worker[w].ch]
             s == [worker[w] EXCEPT !.pc = "loaded", !.rid = r.remote,
                     !.models = r.models,
                     !.blob = IF HasRecoverableKey(r) THEN r.enc ELSE NoBlob]
  <2>1. worker' = [worker EXCEPT ![w] = s] /\ worker[w].pc = "started"
    BY <1>2 DEF Load
  <2>2. /\ s.pc = "loaded" /\ s.ch = worker[w].ch /\ s.blob \in {NoBlob, r.enc}
        /\ s.rid = r.remote /\ s.models = r.models
    BY DEF TypeOK, WorkerStates
  <2> HIDE DEF s
  <2>3. QED
    BY <2>1, <2>2 DEF TypeOK, WorkerGoes
<1>3. ASSUME NEW w \in Workers, Send(w)
      PROVE  WorkerGoes(v)
  <2> DEFINE s == [worker[w] EXCEPT !.pc = "await"]
  <2>1. worker' = [worker EXCEPT ![w] = s] /\ worker[w].pc = "loaded" /\ Sendable(w)
    BY <1>3 DEF Send
  <2>2. /\ s.pc = "await" /\ s.ch = worker[w].ch /\ s.blob = worker[w].blob
        /\ s.rid = worker[w].rid /\ s.models = worker[w].models
    BY DEF TypeOK, WorkerStates
  <2> HIDE DEF s
  <2>3. QED
    BY <2>1, <2>2 DEF TypeOK, WorkerGoes
<1>4. ASSUME NEW w \in Workers, NEW id \in RemoteIds, AgtApply(w, id)
      PROVE  WorkerGoes(v)
  <2> DEFINE s == [worker[w] EXCEPT !.pc = "answered", !.rid = id]
  <2>1. worker' = [worker EXCEPT ![w] = s] /\ worker[w].pc = "await"
    BY <1>4 DEF AgtApply
  <2>2. s.pc = "answered" /\ s.ch = worker[w].ch /\ s.blob = worker[w].blob
    BY DEF TypeOK, WorkerStates
  <2> HIDE DEF s
  <2>3. QED
    BY <2>1, <2>2 DEF TypeOK, WorkerGoes
<1>5. ASSUME NEW w \in Workers, WorkerEnds(w)
      PROVE  WorkerGoes(v)
  BY <1>5, IdleFacts DEF TypeOK, WorkerEnds, WorkerGoes
<1>6. CASE worker' = worker
  BY <1>6 DEF WorkerGoes
<1>7. CASE Restart
  BY <1>7, IdleFacts DEF Restart, WorkerGoes
<1>8. ASSUME NEW w \in Workers, WorkerSteps(w) \/ WorkerDbError(w)
      PROVE  Load(w) \/ Send(w) \/ WorkerEnds(w)
  BY <1>8 DEF WorkerSteps, WorkerDbError, LoadMissing, PlatformMissing,
     CannotSend, MarkSynced, MarkMetadataSynced, SyncFails
<1>9. ASSUME NEW h \in Handlers,
              \/ \E k \in Keys, m \in Models : CreateAuthorize(h, k, m)
              \/ \E c \in Channels : EditRead(h, c) \/ ResyncCheck(h, c)
              \/ HandlerSteps(h)
              \/ HandlerDbError(h)
      PROVE  worker' = worker
  BY <1>9 DEF CreateAuthorize, EditRead, ResyncCheck, HandlerSteps, HandlerDbError,
     CreateInsert, EditWrite, Rotate
<1>10. ASSUME \/ \E q \in strays, id \in RemoteIds : AgtApplyStray(q, id)
              \/ \E c \in Channels : DeleteChannel(c)
              \/ SetModexToken \/ DeletePlatformCount \/ DeletePlatformRow
              \/ UNCHANGED vars
       PROVE  worker' = worker
  BY <1>10 DEF AgtApplyStray, SetModexToken, DeletePlatformCount, DeletePlatformRow,
     DeleteChannel, vars
<1>11. QED
  BY <1>1, <1>2, <1>3, <1>4, <1>5, <1>6, <1>7, <1>8, <1>9, <1>10 DEF Next

LEMMA WorkersKeyedStep ==
    ASSUME KeysInv, FingerprintsStay, [Next]_vars
    PROVE  WorkersKeyed'
<1> SUFFICES ASSUME NEW w \in Workers, worker'[w].pc # "idle"
             PROVE  /\ worker'[w].blob # NoBlob =>
                         worker'[w].blob.key = rows'[worker'[w].ch].fp
                    /\ worker'[w].pc = "await" =>
                         worker'[w].blob # NoBlob \/ worker'[w].rid # None
  BY DEF WorkersKeyed
<1>1. WorkerGoes(w)
  BY WorkersGo DEF KeysInv, IInv
<1>2. worker[w].pc # "idle" =>
        /\ worker[w].ch \in Channels
        /\ rows[worker[w].ch].life # "absent"
        /\ rows'[worker[w].ch].fp = rows[worker[w].ch].fp
  BY WorkerFacts DEF KeysInv, FingerprintsStay
<1>3. QED
  BY <1>1, <1>2 DEF WorkerGoes, KeysInv, WorkersKeyed, RowsKeyed, Sendable

\* Requests nobody waits for are those of goroutines that waited.
LEMMA StraysCome ==
    ASSUME [Next]_vars
    PROVE  \A q \in strays' :
             \/ q \in strays
             \/ \E w \in Workers : worker[w].pc = "await" /\ q = Request(w)
<1>1. ASSUME NEW w \in Workers, WorkerSteps(w) \/ WorkerDbError(w)
      PROVE  strays' = strays \/ Abandons(w)
  BY <1>1 DEF WorkerSteps, WorkerDbError, Load, LoadMissing, PlatformMissing,
     CannotSend, Send, MarkSynced, MarkMetadataSynced, SyncFails
<1>2. CASE \E w \in Workers : Abandons(w)
  BY <1>2 DEF Abandons
<1>3. CASE strays' \subseteq strays
  BY <1>3
<1>4. CASE Restart
  BY <1>4 DEF Restart
<1>5. ASSUME NEW q \in strays, NEW id \in RemoteIds, AgtApplyStray(q, id)
      PROVE  strays' \subseteq strays
  BY <1>5 DEF AgtApplyStray
<1>6. ASSUME NEW h \in Handlers,
             \/ \E k \in Keys, m \in Models : CreateAuthorize(h, k, m)
             \/ \E c \in Channels : EditRead(h, c) \/ ResyncCheck(h, c)
             \/ HandlerSteps(h)
             \/ \E w \in Workers : Dispatch(h, w)
             \/ HandlerDbError(h)
      PROVE  strays' = strays
  BY <1>6 DEF CreateAuthorize, EditRead, ResyncCheck, HandlerSteps, HandlerDbError,
     CreateInsert, EditWrite, Rotate, Dispatch
<1>7. ASSUME \/ \E w \in Workers, id \in RemoteIds : AgtApply(w, id)
             \/ \E c \in Channels : DeleteChannel(c)
             \/ SetModexToken \/ DeletePlatformCount \/ DeletePlatformRow
             \/ UNCHANGED vars
      PROVE  strays' = strays
  BY <1>7 DEF AgtApply, SetModexToken, DeletePlatformCount, DeletePlatformRow,
     DeleteChannel, vars
<1>8. QED
  BY <1>1, <1>2, <1>3, <1>4, <1>5, <1>6, <1>7 DEF Next

LEMMA StraysKeyedStep ==
    ASSUME KeysInv, FingerprintsStay, [Next]_vars
    PROVE  StraysKeyed'
<1>1. ASSUME NEW q \in Requests, Keyed(q), rows[q.ch].life # "absent"
      PROVE  Keyed(q)'
  BY <1>1 DEF Keyed, FingerprintsStay, Requests
<1>2. \A q \in strays' : \/ q \in strays
                        \/ \E w \in Workers : worker[w].pc = "await" /\ q = Request(w)
  BY StraysCome
<1>3. ASSUME NEW q \in strays' PROVE Keyed(q)'
  <2>1. CASE q \in strays
    BY <1>1, <2>1 DEF KeysInv, IInv, TypeOK, StraysOK, StraysKeyed
  <2>2. CASE \E w \in Workers : worker[w].pc = "await" /\ q = Request(w)
    <3>1. PICK w \in Workers : worker[w].pc = "await" /\ q = Request(w)
      BY <2>2
    <3>2. q \in Requests /\ rows[q.ch].life # "absent" /\ Keyed(q)
      BY <3>1, RequestFacts, RequestKeyed, WorkerFacts DEF KeysInv, IInv
    <3>3. QED
      BY <1>1, <3>2
  <2>3. QED
    BY <1>2, <2>1, <2>2
<1>4. QED
  BY <1>3 DEF StraysKeyed

\* AGT keeps the key of a template in step with the row of its owner.
LEMMA TemplateKeyed ==
    ASSUME KeysInv, FingerprintsStay, NEW q \in Requests, NEW id \in RemoteIds,
           AgtApplies(q, id), Keyed(q), rows[q.ch].life # "absent",
           q.rid # None => Owns(q.ch, q.rid)
    PROVE  TemplatesKeyed'
<1>1. remote \in [RemoteIds -> Templates] /\ q.ch \in Channels
  BY DEF KeysInv, IInv, TypeOK, Requests
<1>2. rows'[q.ch].life # "absent" /\ rows'[q.ch].fp = rows[q.ch].fp
  BY <1>1 DEF FingerprintsStay
<1>3. \A i \in RemoteIds : i # id => remote'[i] = remote[i]
  BY <1>1 DEF AgtApplies
<1>4. remote'[id].owner = q.ch /\ remote'[id].key = rows[q.ch].fp
  <2>1. CASE /\ q.rid = None
             /\ remote' = [remote EXCEPT ![id] =
                             [owner |-> q.ch, key |-> q.key, models |-> q.models]]
    BY <1>1, <2>1 DEF Keyed
  <2>2. CASE q.rid = id /\ remote' = [remote EXCEPT ![id] = Put(@, q)]
    <3>1. remote[id].owner = q.ch /\ remote[id].key = rows[q.ch].fp
      BY <1>1, <2>2, NoneIsFresh DEF Owns, KeysInv, TemplatesKeyed
    <3>2. /\ Put(remote[id], q).owner = remote[id].owner
          /\ Put(remote[id], q).key \in {remote[id].key, rows[q.ch].fp}
      BY <1>1 DEF Put, Templates, Keyed
    <3>3. QED
      BY <1>1, <2>2, <3>1, <3>2
  <2>3. QED
    BY <2>1, <2>2 DEF AgtApplies
<1>5. ASSUME NEW i \in RemoteIds, i # id, remote'[i].owner # None
      PROVE  /\ rows'[remote'[i].owner].life # "absent"
             /\ remote'[i].key = rows'[remote'[i].owner].fp
  <2>1. remote'[i] = remote[i] /\ remote[i].owner \in Channels
    BY <1>1, <1>3, <1>5 DEF Templates
  <2>2. QED
    BY <1>5, <2>1 DEF KeysInv, TemplatesKeyed, FingerprintsStay
<1>6. QED
  BY <1>2, <1>4, <1>5 DEF TemplatesKeyed

\* AGT's templates change by the requests of goroutines and by strays.
LEMMA RemoteChanges ==
    ASSUME [Next]_vars
    PROVE  \/ remote' = remote
           \/ \E w \in Workers, id \in RemoteIds :
                worker[w].pc = "await" /\ AgtApplies(Request(w), id)
           \/ \E q \in strays, id \in RemoteIds : AgtApplies(q, id)
<1>1. ASSUME \/ \E w \in Workers, id \in RemoteIds : AgtApply(w, id)
             \/ \E q \in strays, id \in RemoteIds : AgtApplyStray(q, id)
      PROVE  \/ \E w \in Workers, id \in RemoteIds :
                  worker[w].pc = "await" /\ AgtApplies(Request(w), id)
             \/ \E q \in strays, id \in RemoteIds : AgtApplies(q, id)
  BY <1>1 DEF AgtApply, AgtApplyStray
<1>2. ASSUME NEW w \in Workers, WorkerSteps(w) \/ WorkerDbError(w)
      PROVE  remote' = remote
  BY <1>2 DEF WorkerSteps, WorkerDbError, Load, LoadMissing, PlatformMissing,
     CannotSend, Send, MarkSynced, MarkMetadataSynced, SyncFails
<1>3. ASSUME NEW h \in Handlers,
             \/ \E k \in Keys, m \in Models : CreateAuthorize(h, k, m)
             \/ \E c \in Channels : EditRead(h, c) \/ ResyncCheck(h, c)
             \/ HandlerSteps(h)
             \/ \E w \in Workers : Dispatch(h, w)
             \/ HandlerDbError(h)
      PROVE  remote' = remote
  BY <1>3 DEF CreateAuthorize, EditRead, ResyncCheck, HandlerSteps, HandlerDbError,
     CreateInsert, EditWrite, Rotate, Dispatch
<1>4. ASSUME \/ \E c \in Channels : DeleteChannel(c)
             \/ SetModexToken \/ DeletePlatformCount \/ DeletePlatformRow
             \/ Restart \/ UNCHANGED vars
      PROVE  remote' = remote
  BY <1>4 DEF SetModexToken, DeletePlatformCount, DeletePlatformRow,
     DeleteChannel, Restart, vars
<1>5. QED
  BY <1>1, <1>2, <1>3, <1>4 DEF Next

LEMMA TemplatesKeyedStep ==
    ASSUME KeysInv, FingerprintsStay, [Next]_vars
    PROVE  TemplatesKeyed'
<1>1. ASSUME NEW w \in Workers, NEW id \in RemoteIds,
             worker[w].pc = "await", AgtApplies(Request(w), id)
      PROVE  TemplatesKeyed'
  BY <1>1, RequestFacts, RequestKeyed, WorkerFacts, TemplateKeyed DEF KeysInv, IInv
<1>2. ASSUME NEW q \in strays, NEW id \in RemoteIds, AgtApplies(q, id)
      PROVE  TemplatesKeyed'
  BY <1>2, TemplateKeyed DEF KeysInv, IInv, TypeOK, StraysOK, StraysKeyed
<1>3. CASE remote' = remote
  BY <1>3 DEF KeysInv, IInv, TypeOK, Templates, TemplatesKeyed, FingerprintsStay
<1>4. QED
  BY <1>1, <1>2, <1>3, RemoteChanges

\* When nobody rotates keys, a row that says synced has the key AGT uses for
\* it, whatever edits, resyncs, failures and late requests did in between
\* (constant/role.go:25, service/sync/worker.go:63-104).
THEOREM SyncedKeysWereAccepted ==
    ASSUME "key" \notin EditKinds
    PROVE  Spec => []SyncedKeyWasAccepted
<1>1. Init => KeysInv
  <2>1. SUFFICES ASSUME Init PROVE KeysInv
    OBVIOUS
  <2>2. NobodyRotates /\ WorkersKeyed /\ StraysKeyed
    BY <2>1, IdleFacts DEF Init, NobodyRotates, WorkersKeyed, StraysKeyed
  <2>3. RowsKeyed /\ TemplatesKeyed
    BY <2>1, AbsentRowFacts DEF Init, RowsKeyed, TemplatesKeyed, NoTemplate
  <2>4. QED
    BY <2>1, <2>2, <2>3, InitEstablishes DEF KeysInv
<1>2. KeysInv /\ [Next]_vars => KeysInv'
  <2>1. SUFFICES ASSUME KeysInv, [Next]_vars PROVE KeysInv'
    OBVIOUS
  <2>2. IInv' /\ NobodyRotates' /\ FingerprintsStay /\ RowsKeyed'
    BY <2>1, NextKeeps, NobodyRotatesStep, RowsKeyedStep DEF KeysInv
  <2>3. WorkersKeyed' /\ StraysKeyed' /\ TemplatesKeyed'
    BY <2>1, <2>2, WorkersKeyedStep, StraysKeyedStep, TemplatesKeyedStep
  <2>4. QED
    BY <2>2, <2>3 DEF KeysInv
<1>3. KeysInv => SyncedKeyWasAccepted
  <2>1. SUFFICES ASSUME KeysInv, NEW c \in Channels, rows[c].keyState = "synced"
                 PROVE  /\ rows[c].remote \in RemoteIds
                        /\ remote[rows[c].remote].key = rows[c].fp
    BY DEF SyncedKeyWasAccepted, KeyAccepted
  <2>2. rows[c].enc = NoBlob /\ rows[c].life # "absent"
    BY <2>1 DEF KeysInv, IInv, RowsOK, SyncedHoldsNoKey
  <2>3. rows[c].remote \in RemoteIds /\ remote[rows[c].remote].owner = c /\ c # None
    BY <2>2, NoneIsFresh, <2>1 DEF KeysInv, IInv, KeylessIsPublished
  <2>4. QED
    BY <2>1, <2>3 DEF KeysInv, TemplatesKeyed
<1>4. QED
  BY <1>1, <1>2, <1>3, PTL DEF Spec

-----------------------------------------------------------------------------
(* The published models, when nobody edits them. *)

EditsKeepModels ==
    \A h \in Handlers :
        handler[h].pc = "edit" => handler[h].models = rows[handler[h].ch].models

\* A sync without a key is a PUT to the template the row names.
WorkersKeepModels ==
    \A w \in Workers :
        /\ worker[w].pc \in {"loaded", "await"} =>
             /\ worker[w].models = rows[worker[w].ch].models
             /\ worker[w].rid # None => rows[worker[w].ch].remote # None
        /\ worker[w].pc \in {"await", "answered"} /\ worker[w].blob = NoBlob =>
             rows[worker[w].ch].remote # None

StraysKeepModels == \A q \in strays : q.models = rows[q.ch].models

TemplatesKeepModels ==
    \A id \in RemoteIds : remote[id].owner # None =>
        /\ rows[remote[id].owner].life # "absent"
        /\ remote[id].models = rows[remote[id].owner].models

SyncedHasTemplate ==
    \A c \in Channels : rows[c].syncStatus = 1 => rows[c].remote # None

ModelsInv ==
    /\ IInv
    /\ EditsKeepModels
    /\ WorkersKeepModels
    /\ StraysKeepModels
    /\ TemplatesKeepModels
    /\ SyncedHasTemplate

\* No row that exists changes its models or forgets its template.
ModelsStay ==
    \A c \in Channels : rows[c].life # "absent" =>
        /\ rows'[c].life # "absent"
        /\ rows'[c].models = rows[c].models
        /\ rows[c].remote # None => rows'[c].remote # None

\* What an update may do to a row when nobody edits models.
LEMMA UpdateKeepsModels ==
    ASSUME TypeOK, SyncedHasTemplate, NEW c \in Channels, NEW r, rows' = Updated(c, r),
           r.life = rows[c].life, r.models = rows[c].models,
           rows[c].remote # None => r.remote # None,
           r.syncStatus = 1 => r.remote # None
    PROVE  ModelsStay /\ SyncedHasTemplate'
BY UpdatedRow DEF ModelsStay, SyncedHasTemplate

LEMMA RowsUnchangedKeepModels ==
    ASSUME SyncedHasTemplate, rows' = rows
    PROVE  ModelsStay /\ SyncedHasTemplate'
BY DEF ModelsStay, SyncedHasTemplate

LEMMA ModelsStayStep ==
    ASSUME ModelsInv, [Next]_vars
    PROVE  ModelsStay /\ SyncedHasTemplate'
<1>1. IInv /\ TypeOK /\ SyncedHasTemplate
  BY DEF ModelsInv, IInv
<1>2. ASSUME NEW h \in Handlers, NEW c \in Channels, CreateInsert(h, c)
      PROVE  ModelsStay /\ SyncedHasTemplate'
  <2> DEFINE r == CreatedRow(handler[h].key, handler[h].models)
  <2>1. handler[h].key \in Keys /\ handler[h].models \in Models /\ kek \in KEKs
    BY <1>1, <1>2 DEF IInv, TypeOK, HandlersOK, CreateInsert
  <2>2. r.life = "live" /\ r.syncStatus = 0
    BY <2>1, CreatedRowFacts, AbsentRowFacts DEF CreatedRow, AbsentRow
  <2>3. rows' = [rows EXCEPT ![c] = r] /\ rows[c].life = "absent"
    BY <1>2 DEF CreateInsert
  <2> HIDE DEF r
  <2>4. QED
    BY <1>1, <2>2, <2>3 DEF TypeOK, ModelsStay, SyncedHasTemplate
<1>3. ASSUME NEW h \in Handlers, EditWrite(h)
      PROVE  ModelsStay /\ SyncedHasTemplate'
  <2> DEFINE c == handler[h].ch
             r == EditedRow(rows[c], handler[h].models)
  <2>1. /\ c \in Channels /\ rows[c] \in Rows
        /\ handler[h].models \in Models /\ handler[h].models = rows[c].models
    BY <1>1, <1>3, RowFacts DEF IInv, HandlersOK, EditWrite, ModelsInv, EditsKeepModels
  <2>2. /\ r.life = rows[c].life /\ r.models = rows[c].models
        /\ r.remote = rows[c].remote /\ r.syncStatus = 0
    BY <2>1, EditedRowFacts DEF EditedRow, Rows
  <2>3. rows' = Updated(c, r)
    BY <1>3 DEF EditWrite
  <2> HIDE DEF r
  <2>4. QED
    BY <1>1, <2>1, <2>2, <2>3, UpdateKeepsModels
<1>4. ASSUME NEW h \in Handlers, Rotate(h)
      PROVE  ModelsStay /\ SyncedHasTemplate'
  <2> DEFINE c == handler[h].ch
             r == RekeyedRow(rows[c], handler[h].key)
  <2>1. c \in Channels /\ rows[c] \in Rows /\ handler[h].key \in Keys /\ kek \in KEKs
    BY <1>1, <1>4, RowFacts DEF IInv, TypeOK, HandlersOK, Rotate
  <2>2. /\ r.life = rows[c].life /\ r.models = rows[c].models
        /\ r.remote = rows[c].remote /\ r.syncStatus = 0
    BY <2>1, RekeyedRowFacts DEF RekeyedRow, Rows
  <2>3. rows' = Updated(c, r)
    BY <1>4 DEF Rotate
  <2> HIDE DEF r
  <2>4. QED
    BY <1>1, <2>1, <2>2, <2>3, UpdateKeepsModels
<1>5. ASSUME NEW w \in Workers, CannotSend(w) \/ SyncFails(w)
      PROVE  ModelsStay /\ SyncedHasTemplate'
  <2> DEFINE c == worker[w].ch
             r == FailedRow(rows[c])
  <2>1. rows' = Updated(c, r) /\ worker[w].pc # "idle"
    BY <1>5 DEF CannotSend, SyncFails, GivesUp
  <2>2. c \in Channels /\ rows[c] \in Rows
    BY <1>1, <2>1, WorkerFacts, RowFacts
  <2>3. /\ r.life = rows[c].life /\ r.models = rows[c].models
        /\ r.remote = rows[c].remote /\ r.syncStatus = 2
    BY <2>2, FailedRowFacts DEF FailedRow, Rows
  <2> HIDE DEF r
  <2>4. QED
    BY <1>1, <2>1, <2>2, <2>3, UpdateKeepsModels
<1>6. ASSUME NEW w \in Workers, MarkSynced(w)
      PROVE  ModelsStay /\ SyncedHasTemplate'
  <2> DEFINE c == worker[w].ch
             r == SyncedRow(rows[c], worker[w].rid)
  <2>1. rows' = Updated(c, r)
    BY <1>6 DEF MarkSynced
  <2>2. c \in Channels /\ rows[c] \in Rows /\ worker[w].rid \in RemoteIds
    BY <1>1, <1>6, WorkerFacts, RowFacts DEF MarkSynced, Owns
  <2>3. r.life = rows[c].life /\ r.models = rows[c].models /\ r.remote # None
    BY <2>2, SyncedRowFacts, NoneIsFresh
  <2> HIDE DEF r
  <2>4. QED
    BY <1>1, <2>1, <2>2, <2>3, UpdateKeepsModels
<1>7. ASSUME NEW w \in Workers, MarkMetadataSynced(w)
      PROVE  ModelsStay /\ SyncedHasTemplate'
  <2> DEFINE c == worker[w].ch
             r == MetadataSyncedRow(rows[c])
  <2>1. rows' = Updated(c, r) /\ rows[c].remote # None
    BY <1>7 DEF MarkMetadataSynced, ModelsInv, WorkersKeepModels
  <2>2. c \in Channels /\ rows[c] \in Rows
    BY <1>1, <1>7, WorkerFacts, RowFacts DEF MarkMetadataSynced
  <2>3. /\ r.life = rows[c].life /\ r.models = rows[c].models
        /\ r.remote = rows[c].remote
    BY <2>2, MetadataSyncedRowFacts
  <2> HIDE DEF r
  <2>4. QED
    BY <1>1, <2>1, <2>2, <2>3, UpdateKeepsModels
<1>8. ASSUME NEW c \in Channels, DeleteChannel(c)
      PROVE  ModelsStay /\ SyncedHasTemplate'
  <2>1. \A d \in Channels :
          /\ rows'[d].models = rows[d].models /\ rows'[d].remote = rows[d].remote
          /\ rows'[d].syncStatus = rows[d].syncStatus
          /\ rows[d].life # "absent" <=> rows'[d].life # "absent"
    BY <1>1, <1>8 DEF DeleteChannel, TypeOK, Rows
  <2>2. QED
    BY <1>1, <2>1 DEF ModelsStay, SyncedHasTemplate
<1>9. ASSUME NEW w \in Workers,
             \/ Load(w) \/ LoadMissing(w) \/ PlatformMissing(w) \/ Send(w)
             \/ WorkerDbError(w) \/ \E id \in RemoteIds : AgtApply(w, id)
      PROVE  rows' = rows
  BY <1>9 DEF Load, LoadMissing, PlatformMissing, Send, WorkerDbError, AgtApply
<1>10. ASSUME NEW h \in Handlers,
              \/ \E k \in Keys, m \in Models : CreateAuthorize(h, k, m)
              \/ \E c \in Channels : EditRead(h, c) \/ ResyncCheck(h, c)
              \/ \E w \in Workers : Dispatch(h, w)
              \/ HandlerDbError(h)
       PROVE  rows' = rows
  BY <1>10 DEF CreateAuthorize, EditRead, ResyncCheck, Dispatch, HandlerDbError
<1>11. ASSUME \/ \E q \in strays, id \in RemoteIds : AgtApplyStray(q, id)
              \/ SetModexToken \/ DeletePlatformCount \/ DeletePlatformRow \/ Restart
              \/ UNCHANGED vars
       PROVE  rows' = rows
  BY <1>11 DEF AgtApplyStray, SetModexToken, DeletePlatformCount, DeletePlatformRow,
     Restart, vars
<1>12. QED
  BY <1>1, <1>2, <1>3, <1>4, <1>5, <1>6, <1>7, <1>8, <1>9, <1>10, <1>11,
     RowsUnchangedKeepModels DEF Next, HandlerSteps, WorkerSteps

LEMMA ProcessesKeepModels ==
    ASSUME ModelsInv, ModelsStay, "models" \notin EditKinds, [Next]_vars
    PROVE  EditsKeepModels' /\ WorkersKeepModels'
<1>1. EditsKeepModels'
  <2> SUFFICES ASSUME NEW h \in Handlers, handler'[h].pc = "edit"
               PROVE  handler'[h].models = rows'[handler'[h].ch].models
    BY DEF EditsKeepModels
  <2>1. HandlerGoes(h)
    BY HandlersGo DEF ModelsInv, IInv
  <2>2. CASE handler'[h] = handler[h]
    BY <2>2 DEF ModelsInv, IInv, HandlersOK, EditsKeepModels, ModelsStay
  <2>3. CASE handler'[h] # handler[h]
    <3>1. PICK c \in Channels : \E e \in EditRequests(c) :
            /\ handler'[h].ch = c /\ rows[c].life = "live"
            /\ handler'[h].models = e.models
      BY <2>1, <2>3 DEF HandlerGoes
    <3>2. \A e \in EditRequests(c) : e.models = rows[c].models
      BY DEF EditRequests
    <3>3. QED
      BY <3>1, <3>2 DEF ModelsStay
  <2>4. QED
    BY <2>2, <2>3
<1>2. ASSUME NEW w \in Workers
      PROVE  /\ worker'[w].pc \in {"loaded", "await"} =>
                  /\ worker'[w].models = rows'[worker'[w].ch].models
                  /\ worker'[w].rid # None => rows'[worker'[w].ch].remote # None
             /\ worker'[w].pc \in {"await", "answered"} /\ worker'[w].blob = NoBlob =>
                  rows'[worker'[w].ch].remote # None
  <2>1. WorkerGoes(w)
    BY WorkersGo DEF ModelsInv, IInv
  <2>2. worker[w].pc # "idle" =>
          /\ rows'[worker[w].ch].models = rows[worker[w].ch].models
          /\ rows[worker[w].ch].remote # None => rows'[worker[w].ch].remote # None
    BY WorkerFacts DEF ModelsInv, ModelsStay
  <2>3. /\ worker[w].pc \in {"loaded", "await"} =>
             /\ worker[w].models = rows[worker[w].ch].models
             /\ worker[w].rid # None => rows[worker[w].ch].remote # None
        /\ worker[w].pc \in {"await", "answered"} /\ worker[w].blob = NoBlob =>
             rows[worker[w].ch].remote # None
    BY DEF ModelsInv, WorkersKeepModels
  <2>4. QED
    BY <2>1, <2>2, <2>3 DEF WorkerGoes, Sendable
<1>3. QED
  BY <1>1, <1>2 DEF WorkersKeepModels

LEMMA StraysKeepModelsStep ==
    ASSUME ModelsInv, ModelsStay, [Next]_vars
    PROVE  StraysKeepModels'
<1>1. ASSUME NEW q \in strays' PROVE q.models = rows'[q.ch].models
  <2>1. CASE q \in strays
    BY <2>1 DEF ModelsInv, ModelsStay, IInv, TypeOK, StraysOK, StraysKeepModels, Requests
  <2>2. CASE \E w \in Workers : worker[w].pc = "await" /\ q = Request(w)
    <3>1. PICK w \in Workers : worker[w].pc = "await" /\ q = Request(w)
      BY <2>2
    <3>2. q.ch = worker[w].ch /\ q.models = worker[w].models
      BY <3>1, RequestFacts DEF ModelsInv, IInv, Request
    <3>3. QED
      BY <3>1, <3>2, WorkerFacts DEF ModelsInv, WorkersKeepModels, ModelsStay
  <2>3. QED
    BY <2>1, <2>2, StraysCome
<1>2. QED
  BY <1>1 DEF StraysKeepModels

LEMMA TemplateTakesModels ==
    ASSUME ModelsInv, ModelsStay, NEW q \in Requests, NEW id \in RemoteIds,
           AgtApplies(q, id), q.models = rows[q.ch].models, rows[q.ch].life # "absent",
           q.rid # None => Owns(q.ch, q.rid)
    PROVE  TemplatesKeepModels'
<1>1. remote \in [RemoteIds -> Templates] /\ q.ch \in Channels
  BY DEF ModelsInv, IInv, TypeOK, Requests
<1>2. rows'[q.ch].life # "absent" /\ rows'[q.ch].models = rows[q.ch].models
  BY <1>1 DEF ModelsStay
<1>3. \A i \in RemoteIds : i # id => remote'[i] = remote[i]
  BY <1>1 DEF AgtApplies
<1>4. remote'[id].owner = q.ch /\ remote'[id].models = q.models
  <2>1. CASE /\ q.rid = None
             /\ remote' = [remote EXCEPT ![id] =
                             [owner |-> q.ch, key |-> q.key, models |-> q.models]]
    BY <1>1, <2>1
  <2>2. CASE q.rid = id /\ remote' = [remote EXCEPT ![id] = Put(@, q)]
    <3>1. remote[id].owner = q.ch
      BY <2>2, NoneIsFresh DEF Owns
    <3>2. /\ Put(remote[id], q).owner = remote[id].owner
          /\ Put(remote[id], q).models = q.models
      BY <1>1 DEF Put, Templates
    <3>3. QED
      BY <1>1, <2>2, <3>1, <3>2
  <2>3. QED
    BY <2>1, <2>2 DEF AgtApplies
<1>5. ASSUME NEW i \in RemoteIds, i # id, remote'[i].owner # None
      PROVE  /\ rows'[remote'[i].owner].life # "absent"
             /\ remote'[i].models = rows'[remote'[i].owner].models
  <2>1. remote'[i] = remote[i] /\ remote[i].owner \in Channels
    BY <1>1, <1>3, <1>5 DEF Templates
  <2>2. QED
    BY <1>5, <2>1 DEF ModelsInv, TemplatesKeepModels, ModelsStay
<1>6. QED
  BY <1>2, <1>4, <1>5 DEF TemplatesKeepModels

LEMMA TemplatesKeepModelsStep ==
    ASSUME ModelsInv, ModelsStay, [Next]_vars
    PROVE  TemplatesKeepModels'
<1>1. ASSUME NEW w \in Workers, NEW id \in RemoteIds,
             worker[w].pc = "await", AgtApplies(Request(w), id)
      PROVE  TemplatesKeepModels'
  <2>1. Request(w).models = worker[w].models
    BY DEF Request
  <2>2. QED
    BY <1>1, <2>1, RequestFacts, WorkerFacts, TemplateTakesModels
       DEF ModelsInv, IInv, WorkersKeepModels
<1>2. ASSUME NEW q \in strays, NEW id \in RemoteIds, AgtApplies(q, id)
      PROVE  TemplatesKeepModels'
  BY <1>2, TemplateTakesModels
     DEF ModelsInv, IInv, TypeOK, StraysOK, StraysKeepModels
<1>3. CASE remote' = remote
  BY <1>3 DEF ModelsInv, IInv, TypeOK, Templates, TemplatesKeepModels, ModelsStay
<1>4. QED
  BY <1>1, <1>2, <1>3, RemoteChanges

\* When nobody edits models, a row that says synced (sync_status 1) has its own
\* models at AGT, whatever rotations, resyncs, failures and late requests did in
\* between: the divergence of model/channel.go:222 takes an edit.
THEOREM UneditedModelsArePublished ==
    ASSUME "models" \notin EditKinds
    PROVE  Spec => []SyncedMeansPublished
<1>1. Init => ModelsInv
  <2>1. SUFFICES ASSUME Init PROVE ModelsInv
    OBVIOUS
  <2>2. EditsKeepModels /\ WorkersKeepModels /\ StraysKeepModels
    BY <2>1, IdleFacts DEF Init, EditsKeepModels, WorkersKeepModels, StraysKeepModels
  <2>3. TemplatesKeepModels /\ SyncedHasTemplate
    BY <2>1, AbsentRowFacts
       DEF Init, AbsentRow, NoTemplate, TemplatesKeepModels, SyncedHasTemplate
  <2>4. QED
    BY <2>1, <2>2, <2>3, InitEstablishes DEF ModelsInv
<1>2. ModelsInv /\ [Next]_vars => ModelsInv'
  <2>1. SUFFICES ASSUME ModelsInv, [Next]_vars PROVE ModelsInv'
    OBVIOUS
  <2>2. IInv' /\ ModelsStay /\ SyncedHasTemplate'
    BY <2>1, NextKeeps, ModelsStayStep DEF ModelsInv
  <2>3. /\ EditsKeepModels' /\ WorkersKeepModels'
        /\ StraysKeepModels' /\ TemplatesKeepModels'
    BY <2>1, <2>2, ProcessesKeepModels, StraysKeepModelsStep, TemplatesKeepModelsStep
  <2>4. QED
    BY <2>2, <2>3 DEF ModelsInv
<1>3. ModelsInv => SyncedMeansPublished
  <2>1. SUFFICES ASSUME ModelsInv, NEW c \in Channels, rows[c].life = "live",
                        rows[c].syncStatus = 1
                 PROVE  remote[rows[c].remote].models = rows[c].models
    BY DEF SyncedMeansPublished
  <2>2. Owns(c, rows[c].remote) /\ c # None
    BY <2>1, NoneIsFresh DEF ModelsInv, SyncedHasTemplate, IInv, RowsOK
  <2>3. QED
    BY <2>1, <2>2 DEF Owns, ModelsInv, TemplatesKeepModels
<1>4. QED
  BY <1>1, <1>2, <1>3, PTL DEF Spec

\* The other finding takes a rotation: without one, the key AGT has once all is
\* settled is the row's (constant/role.go:25).
THEOREM UnrotatedKeySurvives ==
    ASSUME "key" \notin EditKinds
    PROVE  Spec => []CurrentKeySurvives
<1>1. SyncedKeyWasAccepted => CurrentKeySurvives
  BY DEF SyncedKeyWasAccepted, CurrentKeySurvives
<1>2. QED
  BY <1>1, SyncedKeysWereAccepted, PTL

-----------------------------------------------------------------------------
(* Nothing is forgotten: the safe half of UploadGetsOutcome, EditGetsOutcome   *)
(* and SyncTerminates.                                                        *)

\* Neither a database error nor a restart, and the platform is still there.
Undisturbed == faults = 0 /\ platform.life = "present"

\* A sync of c that will load its key or has loaded one.
KeyAttended(c) ==
    \/ \E h \in Handlers : handler[h].pc = "dispatch" /\ handler[h].ch = c
    \/ \E w \in Workers : /\ worker[w].ch = c
                          /\ worker[w].pc # "idle"
                          /\ worker[w].pc = "started" \/ worker[w].blob # NoBlob

\* A sync of c that has not ended, or a request about to start one.
EditAttended(c) ==
    \/ \E h \in Handlers : /\ handler[h].pc \in {"rotate", "dispatch"}
                           /\ handler[h].ch = c
    \/ \E w \in Workers : worker[w].ch = c /\ worker[w].pc # "idle"

Watched(c) ==
    rows[c].life = "live" =>
        /\ rows[c].keyState = "pending" =>
             rows[c].enc # NoBlob /\ (Undisturbed => KeyAttended(c))
        /\ rows[c].syncStatus = 0 /\ Undisturbed => EditAttended(c)

WatchInv == IInv /\ \A c \in Channels : Watched(c)

\* No syncs of c are lost by the step.
StillAttended(c) ==
    /\ KeyAttended(c) => KeyAttended(c)'
    /\ EditAttended(c) => EditAttended(c)'

LEMMA DisturbedForGood ==
    ASSUME TypeOK, [Next]_vars, Undisturbed'
    PROVE  Undisturbed
<1>1. faults' = faults \/ faults' = faults + 1
  BY DEF Next, HandlerSteps, WorkerSteps, CreateAuthorize, CreateInsert, EditRead,
     EditWrite, Rotate, ResyncCheck, Dispatch, HandlerDbError, DeleteChannel, Load,
     LoadMissing, PlatformMissing, CannotSend, Send, AgtApply, MarkSynced,
     MarkMetadataSynced, SyncFails, WorkerDbError, AgtApplyStray, SetModexToken,
     DeletePlatformCount, DeletePlatformRow, Restart, Fault, vars
<1>2. platform'.life = "gone" \/ platform'.life = platform.life
  BY DEF Next, HandlerSteps, WorkerSteps, CreateAuthorize, CreateInsert, EditRead,
     EditWrite, Rotate, ResyncCheck, Dispatch, HandlerDbError, DeleteChannel, Load,
     LoadMissing, PlatformMissing, CannotSend, Send, AgtApply, MarkSynced,
     MarkMetadataSynced, SyncFails, WorkerDbError, AgtApplyStray, SetModexToken,
     DeletePlatformCount, DeletePlatformRow, Restart, vars, TypeOK
<1>3. faults \in Nat
  BY DEF TypeOK
<1>4. QED
  BY <1>1, <1>2, <1>3 DEF Undisturbed

\* The row says what it said, and is attended if it was.
LEMMA SameRowWatched ==
    ASSUME TypeOK, NEW c \in Channels, Watched(c), Undisturbed' => Undisturbed,
           rows'[c].life = "live" =>
             /\ rows[c].life = "live" /\ rows'[c].keyState = rows[c].keyState
             /\ rows'[c].enc = rows[c].enc /\ rows'[c].syncStatus = rows[c].syncStatus,
           StillAttended(c)
    PROVE  Watched(c)'
BY DEF Watched, StillAttended

\* A handler that was no sync of c moves.
LEMMA HandlerKeepsAttended ==
    ASSUME TypeOK, NEW c, NEW h \in Handlers, NEW s,
           handler[h].pc \notin {"rotate", "dispatch"} \/ handler[h].ch # c,
           handler' = [handler EXCEPT ![h] = s], worker' = worker
    PROVE  StillAttended(c)
BY DEF TypeOK, StillAttended, KeyAttended, EditAttended

\* A goroutine that was no sync of c moves, or it was and goes on as one.
LEMMA WorkerKeepsAttended ==
    ASSUME TypeOK, NEW c, NEW w \in Workers, NEW s,
           \/ worker[w].ch # c
           \/ worker[w].pc = "idle"
           \/ /\ s.ch = c /\ s.pc # "idle" /\ s.blob = worker[w].blob
              /\ worker[w].pc # "started",
           handler' = handler, worker' = [worker EXCEPT ![w] = s]
    PROVE  StillAttended(c)
BY DEF TypeOK, StillAttended, KeyAttended, EditAttended

LEMMA CreateInsertWatched ==
    ASSUME IInv, NEW c \in Channels, Watched(c), Undisturbed' => Undisturbed,
           NEW h \in Handlers, NEW d \in Channels, CreateInsert(h, d)
    PROVE  Watched(c)'
<1> DEFINE s == [handler[h] EXCEPT !.pc = "dispatch", !.ch = d]
           r == CreatedRow(handler[h].key, handler[h].models)
<1>1. /\ rows' = [rows EXCEPT ![d] = r] /\ worker' = worker
      /\ handler' = [handler EXCEPT ![h] = s]
      /\ handler[h].pc = "insert" /\ handler[h] \in HandlerStates
  BY DEF CreateInsert, IInv, TypeOK
<1>2. s.pc = "dispatch" /\ s.ch = d
  BY <1>1 DEF HandlerStates
<1>3. r.enc # NoBlob
  BY <1>1, CreatedRowFacts DEF IInv, TypeOK, HandlersOK
<1>4. rows \in [Channels -> Rows] /\ handler \in [Handlers -> HandlerStates]
  BY DEF IInv, TypeOK
<1> HIDE DEF s, r
<1>5. CASE c = d
  <2>1. handler'[h].pc = "dispatch" /\ handler'[h].ch = c
    BY <1>1, <1>2, <1>4, <1>5
  <2>2. KeyAttended(c)' /\ EditAttended(c)'
    BY <2>1 DEF KeyAttended, EditAttended
  <2>3. rows'[c].enc # NoBlob
    BY <1>1, <1>3, <1>4, <1>5
  <2>4. QED
    BY <2>2, <2>3 DEF Watched
<1>6. CASE c # d
  <2>1. rows'[c] = rows[c]
    BY <1>1, <1>4, <1>6
  <2>2. StillAttended(c)
    BY <1>1, HandlerKeepsAttended DEF IInv
  <2>3. QED
    BY <2>1, <2>2, SameRowWatched DEF IInv
<1>7. QED
  BY <1>5, <1>6

\* EditWrite and Rotate: the handler that wrote the row is about to start a sync.
LEMMA HandlerWriteWatched ==
    ASSUME IInv, NEW c \in Channels, Watched(c), Undisturbed' => Undisturbed,
           NEW h \in Handlers, NEW r \in Rows, NEW p \in {"rotate", "dispatch"},
           handler[h].pc \in {"edit", "rotate"},
           rows' = Updated(handler[h].ch, r),
           r.life = rows[handler[h].ch].life,
           \/ /\ r.keyState = rows[handler[h].ch].keyState
              /\ r.enc = rows[handler[h].ch].enc /\ handler[h].pc = "edit"
           \/ r.enc # NoBlob /\ p = "dispatch",
           handler' = [handler EXCEPT ![h].pc = p], worker' = worker
    PROVE  Watched(c)'
<1> DEFINE d == handler[h].ch
           s == [handler[h] EXCEPT !.pc = p]
<1>1. d \in Channels /\ TypeOK /\ handler \in [Handlers -> HandlerStates]
  BY DEF IInv, TypeOK, HandlersOK
<1>2. handler' = [handler EXCEPT ![h] = s] /\ s.pc = p /\ s.ch = d
  BY <1>1 DEF HandlerStates
<1> HIDE DEF s
<1>3. CASE c # d \/ rows[c].life # "live"
  <2>1. rows'[c] = rows[c]
    BY <1>1, <1>3, UpdatedRow
  <2>2. CASE rows[c].life # "live"
    BY <2>1, <2>2 DEF Watched
  <2>3. CASE c # d
    BY <1>1, <1>2, <2>1, <2>3, HandlerKeepsAttended, SameRowWatched
  <2>4. QED
    BY <1>3, <2>2, <2>3
<1>4. CASE c = d /\ rows[c].life = "live"
  <2>1. rows'[c] = r /\ handler'[h].pc = p /\ handler'[h].ch = c
    BY <1>1, <1>2, <1>4, UpdatedRow
  <2>2. EditAttended(c)'
    BY <2>1 DEF EditAttended
  <2>3. p = "dispatch" => KeyAttended(c)'
    BY <2>1 DEF KeyAttended
  <2>4. handler[h].pc = "edit" => StillAttended(c)
    BY <1>1, <1>2, HandlerKeepsAttended
  <2>5. QED
    BY <1>4, <2>1, <2>2, <2>3, <2>4 DEF Watched, StillAttended
<1>5. QED
  BY <1>3, <1>4

LEMMA EditWriteWatched ==
    ASSUME IInv, NEW c \in Channels, Watched(c), Undisturbed' => Undisturbed,
           NEW h \in Handlers, EditWrite(h)
    PROVE  Watched(c)'
<1> DEFINE d == handler[h].ch
           r == EditedRow(rows[d], handler[h].models)
           p == IF handler[h].key = None THEN "dispatch" ELSE "rotate"
<1>1. d \in Channels /\ rows[d] \in Rows /\ handler[h].models \in Models
  BY RowFacts DEF IInv, HandlersOK, EditWrite
<1>2. /\ r \in Rows /\ r.life = rows[d].life
      /\ r.enc = rows[d].enc /\ r.keyState = rows[d].keyState
  BY <1>1, EditedRowFacts
<1>3. /\ handler[h].pc = "edit" /\ rows' = Updated(d, r)
      /\ handler' = [handler EXCEPT ![h].pc = p] /\ worker' = worker
      /\ p \in {"rotate", "dispatch"}
  BY DEF EditWrite
<1> HIDE DEF r, p
<1>4. QED
  BY <1>2, <1>3, HandlerWriteWatched

LEMMA RotateWatched ==
    ASSUME IInv, NEW c \in Channels, Watched(c), Undisturbed' => Undisturbed,
           NEW h \in Handlers, Rotate(h)
    PROVE  Watched(c)'
<1> DEFINE d == handler[h].ch
           r == RekeyedRow(rows[d], handler[h].key)
<1>1. d \in Channels /\ rows[d] \in Rows /\ handler[h].key \in Keys /\ kek \in KEKs
  BY RowFacts DEF IInv, TypeOK, HandlersOK, Rotate
<1>2. r \in Rows /\ r.life = rows[d].life /\ r.enc # NoBlob
  BY <1>1, RekeyedRowFacts
<1>3. /\ handler[h].pc = "rotate" /\ rows' = Updated(d, r)
      /\ handler' = [handler EXCEPT ![h].pc = "dispatch"] /\ worker' = worker
  BY DEF Rotate
<1> HIDE DEF r
<1>4. QED
  BY <1>2, <1>3, HandlerWriteWatched

\* The goroutine takes over from the handler.
LEMMA DispatchWatched ==
    ASSUME IInv, NEW c \in Channels, Watched(c), Undisturbed' => Undisturbed,
           NEW h \in Handlers, NEW w \in Workers, Dispatch(h, w)
    PROVE  Watched(c)'
<1> DEFINE s == [IdleWorker EXCEPT !.pc = "started", !.ch = handler[h].ch]
<1>1. s.pc = "started" /\ s.ch = handler[h].ch
  BY DEF IdleWorker
<1>2. /\ rows' = rows /\ TypeOK /\ worker[w].pc = "idle"
      /\ handler' = [handler EXCEPT ![h] = IdleHandler]
      /\ worker' = [worker EXCEPT ![w] = s]
  BY DEF Dispatch, HandlerEnds, IInv
<1> HIDE DEF s
<1>3. worker'[w] = s /\ \A v \in Workers : v # w => worker'[v] = worker[v]
  BY <1>2 DEF TypeOK
<1>4. \A g \in Handlers : g # h => handler'[g] = handler[g]
  BY <1>2 DEF TypeOK
<1>5. StillAttended(c)
  <2>1. CASE c = handler[h].ch
    <3>1. KeyAttended(c)' /\ EditAttended(c)'
      BY <1>1, <1>3, <2>1 DEF KeyAttended, EditAttended
    <3>2. QED
      BY <3>1 DEF StillAttended
  <2>2. CASE c # handler[h].ch
    BY <1>2, <1>3, <1>4, <2>2 DEF StillAttended, KeyAttended, EditAttended
  <2>3. QED
    BY <2>1, <2>2
<1>6. QED
  BY <1>2, <1>5, SameRowWatched

\* A goroutine that ends has marked the row, unless the row or the platform is
\* gone.
LEMMA WorkerEndsWatched ==
    ASSUME IInv, NEW c \in Channels, Watched(c), Undisturbed' => Undisturbed,
           NEW w \in Workers, WorkerEnds(w), handler' = handler,
           \A d \in Channels : d # worker[w].ch => rows'[d] = rows[d],
           c = worker[w].ch => \/ rows'[c].life # "live"
                               \/ ~Undisturbed' /\ rows' = rows
                               \/ /\ rows'[c].keyState \in {"synced", "failed"}
                                  /\ rows'[c].syncStatus # 0
    PROVE  Watched(c)'
<1>1. TypeOK /\ worker' = [worker EXCEPT ![w] = IdleWorker]
  BY DEF IInv, WorkerEnds
<1>2. CASE c # worker[w].ch
  BY <1>1, <1>2, WorkerKeepsAttended, SameRowWatched
<1>3. CASE c = worker[w].ch
  BY <1>3 DEF Watched
<1>4. QED
  BY <1>2, <1>3

LEMMA MarkMetadataWatched ==
    ASSUME IInv, NEW c \in Channels, Watched(c), Undisturbed' => Undisturbed,
           NEW w \in Workers, MarkMetadataSynced(w)
    PROVE  Watched(c)'
<1> DEFINE d == worker[w].ch
           r == MetadataSyncedRow(rows[d])
<1>1. /\ rows' = Updated(d, r) /\ handler' = handler
      /\ worker' = [worker EXCEPT ![w] = IdleWorker]
      /\ worker[w].pc = "answered" /\ worker[w].blob = NoBlob
  BY DEF MarkMetadataSynced, WorkerEnds
<1>2. d \in Channels /\ TypeOK /\ rows[d] \in Rows
  BY <1>1, WorkerFacts, RowFacts DEF IInv
<1>3. /\ r.life = rows[d].life /\ r.enc = rows[d].enc
      /\ r.keyState = rows[d].keyState /\ r.syncStatus = 1
  BY <1>2, MetadataSyncedRowFacts DEF MetadataSyncedRow, Rows
<1> HIDE DEF r
<1>4. CASE c # d
  <2>1. rows'[c] = rows[c]
    BY <1>1, <1>2, <1>4, UpdatedRow
  <2>2. QED
    BY <1>1, <1>2, <1>4, <2>1, WorkerKeepsAttended, SameRowWatched
<1>5. CASE c = d
  <2>1. KeyAttended(c) => KeyAttended(c)'
    BY <1>1, <1>2 DEF TypeOK, KeyAttended
  <2>2. rows'[c].life = "live" =>
          /\ rows[c].life = "live" /\ rows'[c].enc = rows[c].enc
          /\ rows'[c].keyState = rows[c].keyState /\ rows'[c].syncStatus = 1
    BY <1>1, <1>2, <1>3, <1>5, UpdatedRow
  <2>3. QED
    BY <2>1, <2>2 DEF Watched
<1>6. QED
  BY <1>4, <1>5

LEMMA LoadWatched ==
    ASSUME IInv, NEW c \in Channels, Watched(c), Undisturbed' => Undisturbed,
           NEW w \in Workers, Load(w)
    PROVE  Watched(c)'
<1> DEFINE r == rows[worker[w].ch]
           s == [worker[w] EXCEPT !.pc = "loaded", !.rid = r.remote,
                   !.models = r.models,
                   !.blob = IF HasRecoverableKey(r) THEN r.enc ELSE NoBlob]
<1>1. /\ worker' = [worker EXCEPT ![w] = s] /\ handler' = handler /\ rows' = rows
      /\ TypeOK
  BY DEF Load, IInv
<1>2. /\ s.pc = "loaded" /\ s.ch = worker[w].ch
      /\ s.blob = IF HasRecoverableKey(r) THEN r.enc ELSE NoBlob
  BY <1>1 DEF TypeOK, WorkerStates
<1>3. r.keyState = "pending" /\ r.enc # NoBlob => s.blob # NoBlob
  BY <1>2 DEF HasRecoverableKey
<1> HIDE DEF s
<1>4. worker'[w] = s /\ \A v \in Workers : v # w => worker'[v] = worker[v]
  BY <1>1 DEF TypeOK
<1>5. CASE c # worker[w].ch
  BY <1>1, <1>5, WorkerKeepsAttended, SameRowWatched
<1>6. CASE c = worker[w].ch
  <2>1. EditAttended(c)'
    BY <1>2, <1>4, <1>6 DEF EditAttended
  <2>2. rows[c].keyState = "pending" /\ rows[c].enc # NoBlob => KeyAttended(c)'
    BY <1>2, <1>3, <1>4, <1>6 DEF KeyAttended
  <2>3. QED
    BY <1>1, <2>1, <2>2 DEF Watched
<1>7. QED
  BY <1>5, <1>6

LEMMA WorkerWatched ==
    ASSUME IInv, NEW c \in Channels, Watched(c), Undisturbed' => Undisturbed,
           NEW w \in Workers, WorkerSteps(w) \/ WorkerDbError(w)
    PROVE  Watched(c)'
<1>1. TypeOK
  BY DEF IInv
<1>2. CASE Load(w)
  BY <1>2, LoadWatched
<1>3. CASE LoadMissing(w)
  BY <1>3, WorkerEndsWatched DEF LoadMissing
<1>4. CASE PlatformMissing(w)
  BY <1>4, WorkerEndsWatched DEF PlatformMissing, Undisturbed
<1>5. CASE WorkerDbError(w)
  <2>1. faults' # 0
    BY <1>1, <1>5 DEF WorkerDbError, Fault, TypeOK
  <2>2. QED
    BY <1>5, <2>1, WorkerEndsWatched DEF WorkerDbError, Undisturbed
<1>6. CASE CannotSend(w) \/ SyncFails(w)
  <2> DEFINE d == worker[w].ch
  <2>1. /\ rows' = Updated(d, FailedRow(rows[d])) /\ worker[w].pc # "idle"
        /\ handler' = handler /\ WorkerEnds(w)
    BY <1>6 DEF CannotSend, SyncFails, GivesUp
  <2>2. d \in Channels /\ rows[d] \in Rows
    BY <2>1, WorkerFacts, RowFacts
  <2>3. FailedRow(rows[d]).keyState = "failed" /\ FailedRow(rows[d]).syncStatus = 2
    BY <2>2, FailedRowFacts DEF FailedRow, Rows
  <2>4. QED
    BY <1>1, <2>1, <2>2, <2>3, UpdatedRow, WorkerEndsWatched
<1>7. CASE MarkSynced(w)
  <2> DEFINE d == worker[w].ch
  <2>1. /\ rows' = Updated(d, SyncedRow(rows[d], worker[w].rid))
        /\ handler' = handler /\ WorkerEnds(w)
    BY <1>7 DEF MarkSynced
  <2>2. d \in Channels /\ rows[d] \in Rows /\ worker[w].rid \in RemoteIds
    BY <1>7, WorkerFacts, RowFacts DEF MarkSynced, Owns
  <2>3. /\ SyncedRow(rows[d], worker[w].rid).keyState = "synced"
        /\ SyncedRow(rows[d], worker[w].rid).syncStatus = 1
    BY <2>2, SyncedRowFacts DEF SyncedRow, Rows
  <2>4. QED
    BY <1>1, <2>1, <2>2, <2>3, UpdatedRow, WorkerEndsWatched
<1>8. CASE MarkMetadataSynced(w)
  BY <1>8, MarkMetadataWatched
<1>9. CASE Send(w)
  <2> DEFINE s == [worker[w] EXCEPT !.pc = "await"]
  <2>1. /\ worker' = [worker EXCEPT ![w] = s] /\ worker[w].pc = "loaded"
        /\ handler' = handler /\ rows' = rows
    BY <1>9 DEF Send
  <2>2. s.pc = "await" /\ s.ch = worker[w].ch /\ s.blob = worker[w].blob
    BY <1>1 DEF TypeOK, WorkerStates
  <2> HIDE DEF s
  <2>3. QED
    BY <1>1, <2>1, <2>2, WorkerKeepsAttended, SameRowWatched
<1>10. QED
  BY <1>2, <1>3, <1>4, <1>5, <1>6, <1>7, <1>8, <1>9 DEF WorkerSteps

LEMMA AgtApplyWatched ==
    ASSUME IInv, NEW c \in Channels, Watched(c), Undisturbed' => Undisturbed,
           NEW w \in Workers, NEW id \in RemoteIds, AgtApply(w, id)
    PROVE  Watched(c)'
<1> DEFINE s == [worker[w] EXCEPT !.pc = "answered", !.rid = id]
<1>1. /\ worker' = [worker EXCEPT ![w] = s] /\ worker[w].pc = "await"
      /\ handler' = handler /\ rows' = rows /\ TypeOK
  BY DEF AgtApply, IInv
<1>2. s.pc = "answered" /\ s.ch = worker[w].ch /\ s.blob = worker[w].blob
  BY <1>1 DEF TypeOK, WorkerStates
<1> HIDE DEF s
<1>3. QED
  BY <1>1, <1>2, WorkerKeepsAttended, SameRowWatched

\* Requests that begin: the handler was idle.
LEMMA HandlerBeginsWatched ==
    ASSUME IInv, NEW c \in Channels, Watched(c), Undisturbed' => Undisturbed,
           NEW h \in Handlers,
           \/ \E k \in Keys, m \in Models : CreateAuthorize(h, k, m)
           \/ \E d \in Channels : EditRead(h, d) \/ ResyncCheck(h, d)
    PROVE  Watched(c)'
<1>1. /\ rows' = rows /\ worker' = worker /\ handler[h].pc = "idle"
      /\ \E s : handler' = [handler EXCEPT ![h] = s]
  BY DEF CreateAuthorize, EditRead, ResyncCheck
<1>2. TypeOK
  BY DEF IInv
<1>3. QED
  BY <1>1, <1>2, HandlerKeepsAttended, SameRowWatched

LEMMA WatchStep ==
    ASSUME WatchInv, [Next]_vars
    PROVE  WatchInv'
<1>1. IInv /\ TypeOK /\ IInv' /\ (Undisturbed' => Undisturbed)
  BY NextKeeps, DisturbedForGood DEF WatchInv, IInv
<1> SUFFICES ASSUME NEW c \in Channels PROVE Watched(c)'
  BY <1>1 DEF WatchInv
<1>2. Watched(c)
  BY DEF WatchInv
<1>3. ASSUME NEW h \in Handlers, HandlerSteps(h) PROVE Watched(c)'
  BY <1>1, <1>2, <1>3, CreateInsertWatched, EditWriteWatched, RotateWatched
     DEF HandlerSteps
<1>4. ASSUME worker' = worker, handler' = handler,
             rows' = rows \/ \E d \in Channels : DeleteChannel(d)
      PROVE  Watched(c)'
  <2>1. StillAttended(c)
    BY <1>4 DEF StillAttended, KeyAttended, EditAttended
  <2>2. rows'[c] = rows[c] \/ rows'[c].life # "live"
    BY <1>1, <1>4 DEF DeleteChannel, TypeOK, Rows
  <2>3. QED
    BY <1>1, <1>2, <2>1, <2>2, SameRowWatched
<1>5. ASSUME rows' = rows, ~Undisturbed' PROVE Watched(c)'
  BY <1>2, <1>5 DEF Watched
<1>6. ASSUME NEW h \in Handlers, HandlerDbError(h) PROVE Watched(c)'
  BY <1>1, <1>5, <1>6 DEF HandlerDbError, Fault, Undisturbed, TypeOK
<1>7. CASE Restart
  BY <1>1, <1>5, <1>7 DEF Restart, Fault, Undisturbed, TypeOK
<1>8. CASE SetModexToken \/ DeletePlatformCount \/ DeletePlatformRow
  BY <1>4, <1>8 DEF SetModexToken, DeletePlatformCount, DeletePlatformRow
<1>9. ASSUME NEW d \in Channels, DeleteChannel(d) PROVE Watched(c)'
  BY <1>4, <1>9 DEF DeleteChannel
<1>10. ASSUME NEW q \in strays, NEW id \in RemoteIds, AgtApplyStray(q, id)
       PROVE  Watched(c)'
  BY <1>4, <1>10 DEF AgtApplyStray
<1>11. CASE UNCHANGED vars
  BY <1>4, <1>11 DEF vars
<1>12. QED
  BY <1>1, <1>2, <1>3, <1>6, <1>7, <1>8, <1>9, <1>10, <1>11, HandlerBeginsWatched,
     DispatchWatched, WorkerWatched, AgtApplyWatched DEF Next

LEMMA WatchInit == Init => WatchInv
<1>1. SUFFICES ASSUME Init, NEW c \in Channels PROVE Watched(c)
  BY InitEstablishes DEF WatchInv
<1>2. rows[c].life = "absent"
  BY <1>1, AbsentRowFacts DEF Init
<1>3. QED
  BY <1>2 DEF Watched

\* A live row whose key is pending still holds it, and, as long as no statement
\* failed, the process did not restart and the platform is there, a sync that
\* will send it or is sending it is on its way: no overlap of rotations, edits
\* and metadata-only syncs leaves an upload with nobody to publish it.
\* UploadGetsOutcome adds that the sync ends.
PendingIsAttended ==
    \A c \in Channels :
        rows[c].life = "live" /\ rows[c].keyState = "pending" =>
            rows[c].enc # NoBlob /\ (Undisturbed => KeyAttended(c))

\* In the same way an edit that is not yet synced has a sync on its way.
EditIsAttended ==
    \A c \in Channels :
        rows[c].life = "live" /\ rows[c].syncStatus = 0 /\ Undisturbed =>
            EditAttended(c)

\* PendingIsAttended: the go statements of supplier_channel.go:165-301 forget no
\* upload and no rotation.
THEOREM PendingKeysAreAttended == Spec => []PendingIsAttended
<1>1. WatchInv => PendingIsAttended
  BY DEF WatchInv, Watched, PendingIsAttended
<1>2. QED
  BY <1>1, WatchInit, WatchStep, PTL DEF Spec

\* EditIsAttended: nor any edit (controller/supplier_channel.go:234-255).
THEOREM EditsAreAttended == Spec => []EditIsAttended
<1>1. WatchInv => EditIsAttended
  BY DEF WatchInv, Watched, EditIsAttended
<1>2. QED
  BY <1>1, WatchInit, WatchStep, PTL DEF Spec

Follows(p, q) ==
    \/ q = "idle"
    \/ <<p, q>> \in {<<"started", "loaded">>, <<"loaded", "await">>,
                     <<"await", "answered">>}

\* A goroutine only goes forward, for its own channel: loaded, sent, answered,
\* ended.  So it takes at most four steps, and SyncTerminates needs no more than
\* that its steps are taken.
SyncRunsForward ==
    [][\A w \in Workers : worker[w].pc # "idle" /\ worker'[w] # worker[w] =>
         /\ Follows(worker[w].pc, worker'[w].pc)
         /\ worker'[w].pc # "idle" => worker'[w].ch = worker[w].ch]_vars

\* SyncRunsForward: SyncChannel has no loop (service/sync/worker.go:28-104).
THEOREM SyncsRunForward == Spec => SyncRunsForward
<1>1. IInv /\ [Next]_vars =>
        [\A w \in Workers : worker[w].pc # "idle" /\ worker'[w] # worker[w] =>
           /\ Follows(worker[w].pc, worker'[w].pc)
           /\ worker'[w].pc # "idle" => worker'[w].ch = worker[w].ch]_vars
  BY WorkersGo DEF IInv, WorkerGoes, Follows
<1>2. QED
  BY <1>1, InvariantHolds, PTL DEF Spec, SyncRunsForward

==============================================================================
