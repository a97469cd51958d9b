-------------------------- MODULE PlatformAdminProofs --------------------------
(***************************************************************************)
(* Theorems about PlatformAdmin, for any number of requests, platforms,      *)
(* suppliers, addresses and tokens.  The invariant adds to RowIsAsAsked what *)
(* a request that is between its statements knows of the row it edits.       *)
(***************************************************************************)
EXTENDS PlatformAdmin, FiniteSetTheorems, TLAPS

\* What a request carries at each of its statements.
Known(r) ==
    /\ r.pc # "idle" => r.id \in Ids
    /\ r.pc = "write" =>
         r.copy.url # None /\ r.copy.status # None /\ r.action = "UPDATE_PLATFORM"
    /\ r.pc = "seal" => r.edit.token # None
    /\ r.pc \in {"cascade", "delete"} => r.action = "DELETE_PLATFORM"
    /\ r.pc \in {"find", "insertGrant"} => r.supplier \in Suppliers

Shape == TypeOK /\ \A c \in Clients : Known(request[c])

Creates(r) == r.pc = "audit" /\ r.action = "CREATE_PLATFORM"

\* The row a request edits or reports: it was created, and has its token by the
\* time that is reported.
RowThere(r) ==
    /\ r.pc \in {"write", "seal"} \/ Creates(r) => platforms[r.id].life # "absent"
    /\ Creates(r) /\ Present(r.id) => platforms[r.id].token # None

\* What an edit that nobody has overtaken is about to write.
Fresh(r) ==
    r.alone /\ r.pc \in {"write", "seal"} /\ Present(r.id) /\ r.id \notin overtaken =>
        /\ r.pc = "write" =>
             /\ r.copy.url = Given(r.edit.url, asked[r.id].url)
             /\ r.copy.status = Given(r.edit.status, asked[r.id].status)
        /\ r.pc = "seal" => asked[r.id].token = r.edit.token

TokensAsked == \A id \in Ids : Present(id) => asked[id].token # None

CreatedHaveTokens ==
    \A id \in created : /\ platforms[id].life # "absent"
                        /\ Present(id) => platforms[id].token # None

IInv ==
    /\ Shape
    /\ \A c \in Clients : RowThere(request[c]) /\ Fresh(request[c])
    /\ TokensAsked
    /\ CreatedHaveTokens
    /\ RowIsAsAsked

-----------------------------------------------------------------------------
(* Rows and requests. *)

LEMMA IdleKnown == Idle \in Requests /\ Known(Idle) /\ NoEdit \in Edits
  BY PlatformAdminAssumption
     DEF Idle, Requests, Pcs, NoEdit, Edits, Rows, Empty, Statuses, Known

LEMMA EmptyRow == \A l \in {"absent", "present", "gone"} : Empty(l) \in Rows /\ Empty(l).life = l
  BY DEF Empty, Rows

LEMMA MergedRow ==
    ASSUME NEW row \in Rows, NEW e \in Edits
    PROVE  /\ Merged(row, e) \in Rows
           /\ Merged(row, e).url = Given(e.url, row.url)
           /\ Merged(row, e).status = Given(e.status, row.status)
  BY DEF Merged, Rows, Edits, Given

LEMMA ColumnsRow ==
    ASSUME NEW row \in Rows, NEW copy \in Rows
    PROVE  /\ Columns(row, copy) \in Rows
           /\ Columns(row, copy).life = row.life /\ Columns(row, copy).token = row.token
           /\ Columns(row, copy).url = copy.url /\ Columns(row, copy).status = copy.status
  BY DEF Columns, Rows

LEMMA SealedRow ==
    ASSUME NEW row \in Rows, NEW t \in Tokens \cup {None}
    PROVE  /\ Sealed(row, t) \in Rows
           /\ Sealed(row, t).life = row.life /\ Sealed(row, t).token = t
           /\ Sealed(row, t).url = row.url /\ Sealed(row, t).status = row.status
  BY DEF Sealed, Rows

LEMMA TakenRow ==
    ASSUME NEW row \in Rows, NEW e \in Edits
    PROVE  /\ Taken(row, e) \in Rows
           /\ Taken(row, e).url = Given(e.url, row.url)
           /\ Taken(row, e).status = Given(e.status, row.status)
           /\ Taken(row, e).token = Given(e.token, row.token)
  BY DEF Taken, Rows, Edits, Given

LEMMA UpdatedRow ==
    ASSUME Shape, NEW id \in Ids, NEW row \in Rows
    PROVE  /\ Updated(id, row) \in [Ids -> Rows]
           /\ \A p \in Ids : Updated(id, row)[p] =
                IF p = id /\ Present(id) THEN row ELSE platforms[p]
  BY DEF Shape, TypeOK, Updated

LEMMA WrittenRequest ==
    ASSUME NEW r \in Requests, r.id \in Ids
    PROVE  /\ Written(r) \in Requests /\ Known(Written(r))
           /\ Written(r).pc = "audit" /\ Written(r).id = r.id /\ Written(r).action = r.action
  BY IdleKnown DEF Written, Requests, Idle, Pcs, Known

\* One request goes on as r.
LEMMA OneRequest ==
    ASSUME Shape, NEW c \in Clients, NEW r \in Requests, Known(r),
           request' = [request EXCEPT ![c] = r]
    PROVE  /\ request' \in [Clients -> Requests]
           /\ \A d \in Clients : Known(request'[d])
           /\ \A d \in Clients : request'[d] = IF d = c THEN r ELSE request[d]
  BY DEF Shape, TypeOK

\* An edit overtakes the others of its platform.
LEMMA OvertakenRequests ==
    ASSUME Shape, NEW c \in Clients, NEW r \in Requests, Known(r),
           NEW q, q = Overtakes(c, r)
    PROVE  /\ q \in [Clients -> Requests]
           /\ q[c] = r
           /\ \A d \in Clients \ {c} :
                \/ q[d] = request[d] /\ d \notin Editing(request[c].id)
                \/ /\ d \in Editing(request[c].id)
                   /\ q[d] = [request[d] EXCEPT !.alone = FALSE]
           /\ \A d \in Clients : Known(q[d])
  <1>1. \A d \in Clients : [request[d] EXCEPT !.alone = FALSE] \in Requests
    BY DEF Shape, TypeOK, Requests
  <1>2. \A d \in Clients : Known([request[d] EXCEPT !.alone = FALSE])
    BY DEF Shape, TypeOK, Requests, Known
  <1>3. /\ q \in [Clients -> Requests]
        /\ q[c] = r
        /\ \A d \in Clients \ {c} :
             \/ q[d] = request[d] /\ d \notin Editing(request[c].id)
             \/ /\ d \in Editing(request[c].id)
                /\ q[d] = [request[d] EXCEPT !.alone = FALSE]
    BY <1>1 DEF Overtakes, Shape, TypeOK
  <1>4. \A d \in Clients : Known(q[d])
    BY <1>2, <1>3 DEF Shape
  <1> QED
    BY <1>3, <1>4

LEMMA NotNone == \A v, w : w # None => Given(v, w) # None
  BY DEF Given

-----------------------------------------------------------------------------
(* Types. *)

LEMMA InitShape == Init => Shape
  <1> SUFFICES ASSUME Init PROVE Shape
    OBVIOUS
  <1>1. TypeOK
    <2>1. Empty("absent") \in Rows /\ Empty("absent").life = "absent" /\ Idle \in Requests
      BY IdleKnown, EmptyRow
    <2> QED
      BY <2>1 DEF Init, TypeOK, Present
  <1>2. \A c \in Clients : Known(request[c])
    BY IdleKnown DEF Init
  <1> QED
    BY <1>1, <1>2 DEF Shape

\* The rows of the tables after a step that leaves them alone.
LEMMA OneRequestShape ==
    ASSUME Shape, NEW c \in Clients, NEW r \in Requests, Known(r),
           request' = [request EXCEPT ![c] = r],
           platforms' = platforms, asked' = asked,
           grants' \subseteq Suppliers \X Ids, channels' \in [Ids -> Nat],
           created' \subseteq Ids, overtaken' \subseteq Ids
    PROVE  Shape'
  <1>1. request' \in [Clients -> Requests] /\ \A d \in Clients : Known(request'[d])
    BY OneRequest
  <1> QED
    BY <1>1 DEF Shape, TypeOK, Present

\* A row with an address and a status takes the place of one.
LEMMA RowShape ==
    ASSUME Shape, NEW id \in Ids, NEW row \in Rows,
           row.life = "present" => row.url # None /\ row.status # None,
           \/ platforms' = [platforms EXCEPT ![id] = row]
           \/ platforms' = Updated(id, row),
           request' \in [Clients -> Requests], \A d \in Clients : Known(request'[d]),
           grants' = grants, channels' = channels, created' = created,
           asked' \in [Ids -> Rows], overtaken' \subseteq Ids
    PROVE  Shape'
  <1>1. platforms' \in [Ids -> Rows]
    BY DEF Shape, TypeOK, Updated
  <1>2. \A p \in Ids : platforms'[p] = row \/ platforms'[p] = platforms[p]
    BY DEF Shape, TypeOK, Updated
  <1>3. \A p \in Ids : Present(p)' =>
          platforms'[p].url # None /\ platforms'[p].status # None
    BY <1>2 DEF Shape, TypeOK, Present
  <1> QED
    BY <1>1, <1>3 DEF Shape, TypeOK

\* The requests that begin.
LEMMA BegunCreate ==
    ASSUME NEW id \in Ids, NEW e \in Edits, e.token # None
    PROVE  LET r == [Idle EXCEPT !.pc = "seal", !.id = id, !.edit = e,
                                 !.action = "CREATE_PLATFORM"]
           IN  /\ r \in Requests /\ Known(r)
               /\ r.pc = "seal" /\ r.id = id /\ r.edit = e
  BY IdleKnown DEF Idle, Requests, Pcs, Known

LEMMA BegunDelete ==
    ASSUME NEW id \in Ids
    PROVE  LET r == [Idle EXCEPT !.pc = "cascade", !.id = id, !.action = "DELETE_PLATFORM"]
           IN  r \in Requests /\ Known(r) /\ r.pc = "cascade" /\ r.id = id
  BY IdleKnown DEF Idle, Requests, Pcs, Known

LEMMA BegunFind ==
    ASSUME NEW id \in Ids, NEW s \in Suppliers, NEW p \in {"find", "readGrant"}
    PROVE  LET r == [Idle EXCEPT !.pc = p, !.id = id, !.supplier = s]
           IN  r \in Requests /\ Known(r) /\ r.pc = p /\ r.id = id
  BY IdleKnown DEF Idle, Requests, Pcs, Known

\* The requests that go on to their next statement.
LEMMA NextSeals ==
    ASSUME NEW r \in Requests, Known(r), r.pc = "write", r.edit.token # None,
           NEW q, q = [r EXCEPT !.pc = "seal", !.copy = Empty("absent")]
    PROVE  /\ q \in Requests /\ Known(q) /\ q.pc = "seal" /\ q.id = r.id
           /\ q.edit = r.edit /\ q.alone = r.alone
  BY EmptyRow DEF Requests, Pcs, Known

LEMMA NextStatement ==
    ASSUME NEW r \in Requests, Known(r)
    PROVE  /\ r.pc = "cascade" =>
                LET q == [r EXCEPT !.pc = "delete"]
                IN  q \in Requests /\ Known(q) /\ q.pc = "delete" /\ q.id = r.id
           /\ r.pc = "find" =>
                LET q == [r EXCEPT !.pc = "insertGrant"]
                IN  q \in Requests /\ Known(q) /\ q.pc = "insertGrant" /\ q.id = r.id
           /\ r.pc = "readGrant" =>
                LET q == [r EXCEPT !.pc = "insertChannel"]
                IN  q \in Requests /\ Known(q) /\ q.pc = "insertChannel" /\ q.id = r.id
  BY EmptyRow DEF Requests, Pcs, Known

LEMMA RequestHas ==
    ASSUME Shape, NEW c \in Clients
    PROVE  /\ request[c] \in Requests /\ Known(request[c])
           /\ request[c].pc # "idle" => request[c].id \in Ids
           /\ request[c].edit \in Edits /\ request[c].copy \in Rows
           /\ request[c].edit.token \in Tokens \cup {None}
  BY DEF Shape, TypeOK, Known, Requests, Edits

\* The steps of an edit.
LEMMA CreateShape ==
    ASSUME Shape, NEW c \in Clients, NEW id \in Ids, NEW e \in Edits, CreatePlatform(c, id, e)
    PROVE  Shape'
  <1>1. e.url # None /\ e.token # None /\ e.url \in Urls /\ e.token \in Tokens
    BY DEF CreatePlatform, Edits
  <1>2. Given(e.status, "enabled") \in Statuses /\ Given(e.status, "enabled") # None
    BY PlatformAdminAssumption DEF Given, Edits, Statuses
  <1> DEFINE row == [life |-> "present", url |-> e.url,
                     status |-> Given(e.status, "enabled"), token |-> None]
             ask == [life |-> "present", url |-> e.url,
                     status |-> Given(e.status, "enabled"), token |-> e.token]
  <1>3. row \in Rows /\ row.url # None /\ row.status # None /\ ask \in Rows
    BY <1>1, <1>2 DEF Rows
  <1>4. request' \in [Clients -> Requests] /\ \A d \in Clients : Known(request'[d])
    BY <1>1, BegunCreate, OneRequest DEF CreatePlatform
  <1>5. /\ platforms' = [platforms EXCEPT ![id] = row]
        /\ asked' = [asked EXCEPT ![id] = ask]
        /\ grants' = grants /\ channels' = channels /\ created' = created
        /\ overtaken' = overtaken
    BY DEF CreatePlatform
  <1>6. asked' \in [Ids -> Rows] /\ overtaken' \subseteq Ids
    BY <1>3, <1>5 DEF Shape, TypeOK
  <1> HIDE DEF row, ask
  <1> QED
    BY <1>3, <1>4, <1>5, <1>6, RowShape

LEMMA UpdateShape ==
    ASSUME Shape, NEW c \in Clients, NEW id \in Ids, NEW e \in Edits, BeginUpdate(c, id, e)
    PROVE  Shape'
  <1>1. platforms[id] \in Rows /\ platforms[id].url # None /\ platforms[id].status # None
    BY DEF BeginUpdate, Shape, TypeOK
  <1> DEFINE copy == Merged(platforms[id], e)
  <1>2. copy \in Rows /\ copy.url # None /\ copy.status # None
    BY <1>1, MergedRow, NotNone
  <1> HIDE DEF copy
  <1>3. PICK r : /\ r = [Idle EXCEPT !.pc = "write", !.id = id, !.edit = e, !.copy = copy,
                                     !.action = "UPDATE_PLATFORM"]
                 /\ request' = [request EXCEPT ![c] = r]
    BY DEF BeginUpdate, copy
  <1>4. r \in Requests /\ Known(r)
    BY <1>2, <1>3, IdleKnown DEF Idle, Requests, Pcs, Known
  <1>5. UNCHANGED <<platforms, grants, channels, created, asked, overtaken>>
    BY DEF BeginUpdate
  <1> QED
    BY <1>3, <1>4, <1>5, OneRequestShape DEF Shape, TypeOK

LEMMA WriteShape == ASSUME Shape, NEW c \in Clients, WritePlatform(c) PROVE Shape'
  <1> DEFINE r == request[c]
             row == Columns(platforms[r.id], r.copy)
             q == IF r.edit.token = None THEN Written(r)
                  ELSE [r EXCEPT !.pc = "seal", !.copy = Empty("absent")]
  <1>1. /\ r \in Requests /\ Known(r) /\ r.pc = "write" /\ r.id \in Ids
        /\ r.copy \in Rows /\ r.edit \in Edits
    BY RequestHas DEF WritePlatform
  <1>2. platforms[r.id] \in Rows /\ r.copy.url # None /\ r.copy.status # None
    BY <1>1 DEF Known, Shape, TypeOK
  <1>3. row \in Rows /\ row.url # None /\ row.status # None
    BY <1>1, <1>2, ColumnsRow
  <1>4. q \in Requests /\ Known(q)
    BY <1>1, WrittenRequest, NextSeals
  <1>5. asked' \in [Ids -> Rows]
    <2>1. asked[r.id] \in Rows
      BY <1>1 DEF Shape, TypeOK
    <2>2. Taken(asked[r.id], r.edit) \in Rows
      BY <1>1, <2>1, TakenRow
    <2> QED
      BY <2>2 DEF WritePlatform, Asking, Shape, TypeOK
  <1>6. overtaken' \subseteq Ids
    BY <1>1 DEF WritePlatform, Marked, Shape, TypeOK
  <1>7. /\ platforms' = Updated(r.id, row) /\ request' = Overtakes(c, q)
        /\ grants' = grants /\ channels' = channels /\ created' = created
    BY DEF WritePlatform
  <1> HIDE DEF q, row
  <1>8. request' \in [Clients -> Requests] /\ \A d \in Clients : Known(request'[d])
    BY <1>4, <1>7, OvertakenRequests
  <1> QED
    BY <1>1, <1>3, <1>5, <1>6, <1>7, <1>8, RowShape

LEMMA SealShape == ASSUME Shape, NEW c \in Clients, SealToken(c) PROVE Shape'
  <1> DEFINE r == request[c]
             row == Sealed(platforms[r.id], r.edit.token)
  <1>1. /\ r \in Requests /\ Known(r) /\ r.pc = "seal" /\ r.id \in Ids
        /\ r.edit.token \in Tokens \cup {None}
    BY RequestHas DEF SealToken
  <1>2. platforms[r.id] \in Rows
    BY <1>1 DEF Shape, TypeOK
  <1>3. row \in Rows /\ (row.life = "present" => row.url # None /\ row.status # None)
    BY <1>1, <1>2, SealedRow DEF Shape, TypeOK, Present
  <1>4. Written(r) \in Requests /\ Known(Written(r))
    BY <1>1, WrittenRequest
  <1>5. overtaken' \subseteq Ids
    BY <1>1 DEF SealToken, Marked, Shape, TypeOK
  <1>6. /\ platforms' = Updated(r.id, row) /\ request' = [request EXCEPT ![c] = Written(r)]
        /\ UNCHANGED <<grants, channels, created, asked>>
    BY DEF SealToken
  <1> HIDE DEF row
  <1>7. request' \in [Clients -> Requests] /\ \A d \in Clients : Known(request'[d])
    BY <1>4, <1>6, OneRequest
  <1>8. asked' \in [Ids -> Rows]
    BY <1>6 DEF Shape, TypeOK
  <1> QED
    BY <1>1, <1>3, <1>5, <1>6, <1>7, <1>8, RowShape

LEMMA DeleteRowShape == ASSUME Shape, NEW c \in Clients, DeleteRow(c) PROVE Shape'
  <1> DEFINE r == request[c]
  <1>1. r \in Requests /\ Known(r) /\ r.pc = "delete" /\ r.id \in Ids
    BY RequestHas DEF DeleteRow
  <1>2. Empty("gone") \in Rows /\ Empty("gone").life = "gone" /\ Empty("absent") \in Rows
    BY EmptyRow
  <1>3. Written(r) \in Requests /\ Known(Written(r))
    BY <1>1, WrittenRequest
  <1>4. /\ platforms' = Updated(r.id, Empty("gone"))
        /\ request' = [request EXCEPT ![c] = Written(r)]
        /\ asked' = Forgotten(r.id)
        /\ UNCHANGED <<grants, channels, created, overtaken>>
    BY DEF DeleteRow, Shape, TypeOK
  <1>5. request' \in [Clients -> Requests] /\ \A d \in Clients : Known(request'[d])
    BY <1>3, <1>4, OneRequest
  <1>6. asked' \in [Ids -> Rows] /\ overtaken' \subseteq Ids
    BY <1>2, <1>4 DEF Shape, TypeOK, Forgotten
  <1> QED
    BY <1>1, <1>2, <1>4, <1>5, <1>6, RowShape

\* The steps of the other requests, of which the rows take no notice.
Bystander(c) ==
    \/ Audit(c)
    \/ \E id \in Ids : BeginDelete(c, id)
    \/ DeleteGrants(c)
    \/ \E s \in Suppliers, id \in Ids : BeginGrant(c, s, id) \/ Authorize(c, s, id)
    \/ FindGrant(c)
    \/ InsertGrant(c)
    \/ ReadGrant(c)
    \/ InsertChannel(c)

\* They leave the rows alone; their request is none that edits a row.
LEMMA BystanderStep ==
    ASSUME Shape, NEW c \in Clients, Bystander(c)
    PROVE  /\ UNCHANGED <<platforms, asked, overtaken>>
           /\ request[c].pc \notin {"write", "seal"}
           /\ grants' \subseteq Suppliers \X Ids /\ channels' \in [Ids -> Nat]
           /\ created' \subseteq Ids
           /\ \A id \in created' : id \in created \/ (Creates(request[c]) /\ id = request[c].id)
           /\ \E r \in Requests :
                /\ Known(r) /\ r.pc \notin {"write", "seal", "audit"}
                /\ request' = [request EXCEPT ![c] = r]
  <1>0. Idle \in Requests /\ Known(Idle) /\ Idle.pc = "idle"
    BY IdleKnown DEF Idle
  <1>1. /\ request[c] \in Requests /\ Known(request[c])
        /\ request[c].pc # "idle" => request[c].id \in Ids
    BY RequestHas
  <1>t. /\ grants \subseteq Suppliers \X Ids /\ channels \in [Ids -> Nat]
        /\ created \subseteq Ids
    BY DEF Shape, TypeOK
  <1>2. CASE Audit(c)
    BY <1>0, <1>1, <1>2, <1>t DEF Audit, Creates
  <1>3. ASSUME NEW id \in Ids, BeginDelete(c, id)
        PROVE  /\ UNCHANGED <<platforms, asked, overtaken, grants, channels, created>>
               /\ request[c].pc \notin {"write", "seal"}
               /\ \E r \in Requests :
                    /\ Known(r) /\ r.pc \notin {"write", "seal", "audit"}
                    /\ request' = [request EXCEPT ![c] = r]
    BY <1>3, BegunDelete DEF BeginDelete
  <1>4. CASE DeleteGrants(c)
    <2>1. [request[c] EXCEPT !.pc = "delete"] \in Requests
          /\ Known([request[c] EXCEPT !.pc = "delete"])
          /\ [request[c] EXCEPT !.pc = "delete"].pc = "delete"
      BY <1>1, <1>4, NextStatement DEF DeleteGrants
    <2>2. request' = [request EXCEPT ![c] = [request[c] EXCEPT !.pc = "delete"]]
      BY <1>4 DEF DeleteGrants
    <2> QED
      BY <1>4, <1>t, <2>1, <2>2 DEF DeleteGrants
  <1>5. ASSUME NEW s \in Suppliers, NEW id \in Ids, BeginGrant(c, s, id) \/ Authorize(c, s, id)
        PROVE  /\ UNCHANGED <<platforms, asked, overtaken, grants, channels, created>>
               /\ request[c].pc \notin {"write", "seal"}
               /\ \E r \in Requests :
                    /\ Known(r) /\ r.pc \notin {"write", "seal", "audit"}
                    /\ request' = [request EXCEPT ![c] = r]
    BY <1>5, BegunFind DEF BeginGrant, Authorize
  <1>6. CASE FindGrant(c)
    BY <1>0, <1>1, <1>6, <1>t, NextStatement DEF FindGrant
  <1>7. CASE InsertGrant(c)
    <2>1. request[c].supplier \in Suppliers /\ request[c].id \in Ids
      BY <1>1, <1>7 DEF InsertGrant, Known
    <2>2. grants' \subseteq Suppliers \X Ids /\ request' = [request EXCEPT ![c] = Idle]
      BY <1>7, <1>t, <2>1 DEF InsertGrant
    <2> QED
      BY <1>0, <1>7, <1>t, <2>2 DEF InsertGrant
  <1>8. CASE ReadGrant(c)
    BY <1>0, <1>1, <1>8, <1>t, NextStatement DEF ReadGrant
  <1>9. CASE InsertChannel(c)
    <2>1. request[c].id \in Ids
      BY <1>1, <1>9 DEF InsertChannel
    <2>2. channels' \in [Ids -> Nat] /\ request' = [request EXCEPT ![c] = Idle]
      BY <1>9, <1>t, <2>1 DEF InsertChannel
    <2> QED
      BY <1>0, <1>9, <1>t, <2>2 DEF InsertChannel
  <1> QED
    BY <1>2, <1>3, <1>4, <1>5, <1>6, <1>7, <1>8, <1>9, <1>t DEF Bystander

LEMMA OthersShape ==
    ASSUME Shape
    PROVE  /\ \A c \in Clients : Bystander(c) \/ RequestFails(c) => Shape'
           /\ \A g \in grants : DeleteGrant(g) => Shape'
           /\ \A id \in Ids : DeleteChannel(id) => Shape'
           /\ UNCHANGED vars => Shape'
  <1>1. ASSUME NEW c \in Clients, Bystander(c) PROVE Shape'
    <2>1. PICK r \in Requests : Known(r) /\ request' = [request EXCEPT ![c] = r]
      BY <1>1, BystanderStep
    <2>2. /\ platforms' = platforms /\ asked' = asked /\ overtaken' = overtaken
          /\ grants' \subseteq Suppliers \X Ids /\ channels' \in [Ids -> Nat]
          /\ created' \subseteq Ids
      BY <1>1, BystanderStep
    <2>3. overtaken' \subseteq Ids
      BY <2>2 DEF Shape, TypeOK
    <2> QED
      BY <2>1, <2>2, <2>3, OneRequestShape
  <1>2. ASSUME NEW c \in Clients, RequestFails(c) PROVE Shape'
    <2>1. overtaken' \subseteq Ids
      BY <1>2, RequestHas DEF RequestFails, Shape, TypeOK
    <2> QED
      BY <1>2, <2>1, IdleKnown, OneRequestShape DEF RequestFails, Shape, TypeOK
  <1>3. ASSUME NEW g \in grants, DeleteGrant(g) PROVE Shape'
    BY <1>3 DEF DeleteGrant, Shape, TypeOK, Present
  <1>4. ASSUME NEW id \in Ids, DeleteChannel(id) PROVE Shape'
    <2>1. channels' \in [Ids -> Nat]
      BY <1>4 DEF DeleteChannel, Shape, TypeOK
    <2> QED
      BY <1>4, <2>1 DEF DeleteChannel, Shape, TypeOK, Present
  <1>5. ASSUME UNCHANGED vars PROVE Shape'
    BY <1>5 DEF vars, Shape, TypeOK, Present
  <1> QED
    BY <1>1, <1>2, <1>3, <1>4, <1>5

\* The steps, in groups.
LEMMA Steps ==
    ASSUME [Next]_vars
    PROVE  \/ \E c \in Clients :
                \/ \E id \in Ids, e \in Edits : CreatePlatform(c, id, e) \/ BeginUpdate(c, id, e)
                \/ WritePlatform(c) \/ SealToken(c) \/ DeleteRow(c)
                \/ Bystander(c) \/ RequestFails(c)
           \/ \E g \in grants : DeleteGrant(g)
           \/ \E id \in Ids : DeleteChannel(id)
           \/ UNCHANGED vars
  BY Zenon DEF Next, Bystander

LEMMA NextShape == Shape /\ [Next]_vars => Shape'
  BY Steps, CreateShape, UpdateShape, WriteShape, SealShape, DeleteRowShape, OthersShape

\* Types, and every present platform has an address and a status, for any number
\* of requests under way.
THEOREM TypeCorrect == Spec => []TypeOK
  <1>1. Shape => TypeOK
    BY DEF Shape
  <1> QED
    BY InitShape, NextShape, <1>1, PTL DEF Spec

-----------------------------------------------------------------------------
(* The invariant. *)

LEMMA InitIInv == Init => IInv
  <1> SUFFICES ASSUME Init PROVE IInv
    OBVIOUS
  <1>1. /\ Shape
        /\ \A c \in Clients : request[c] = Idle /\ Idle.pc = "idle"
        /\ \A id \in Ids : ~Present(id)
        /\ created = {}
    BY InitShape, EmptyRow DEF Init, Idle, Present
  <1>2. \A c \in Clients : RowThere(request[c]) /\ Fresh(request[c])
    BY <1>1 DEF RowThere, Fresh, Creates
  <1> QED
    BY <1>1, <1>2 DEF IInv, TokensAsked, CreatedHaveTokens, RowIsAsAsked

\* A request that edits no row becomes another such, or breaks off.
LEMMA BystanderIInv ==
    ASSUME IInv, Shape', NEW c \in Clients,
           platforms' = platforms, asked' = asked, overtaken \subseteq overtaken',
           \A d \in Clients \ {c} : request'[d] = request[d],
           request'[c].pc \notin {"write", "seal", "audit"},
           request[c].pc = "seal" => request[c].id \in overtaken',
           CreatedHaveTokens'
    PROVE  IInv'
  <1>1. \A id \in Ids : Present(id)' = Present(id)
    BY DEF Present
  <1>2. ASSUME NEW d \in Clients PROVE RowThere(request[d])' /\ Fresh(request[d])'
    <2>1. CASE d = c
      BY <2>1 DEF RowThere, Fresh, Creates
    <2>2. CASE d # c
      <3>1. request'[d] = request[d] /\ RowThere(request[d]) /\ Fresh(request[d])
        BY <2>2 DEF IInv
      <3>2. RowThere(request[d])'
        BY <3>1 DEF RowThere, Creates, Present
      <3>3. Fresh(request[d])'
        BY <3>1 DEF Fresh, Present
      <3> QED
        BY <3>2, <3>3
    <2> QED
      BY <2>1, <2>2
  <1>3. TokensAsked'
    BY <1>1 DEF IInv, TokensAsked
  <1>4. RowIsAsAsked'
    <2> SUFFICES ASSUME NEW id \in Ids, id \notin overtaken', Present(id)
                 PROVE  /\ platforms[id].url = asked[id].url
                        /\ platforms[id].status = asked[id].status
                        /\ Sealing(id)' = {} => platforms[id].token = asked[id].token
      BY <1>1 DEF RowIsAsAsked
    <2>1. Sealing(id) \subseteq Sealing(id)'
      BY DEF Sealing
    <2> QED
      BY <2>1 DEF IInv, RowIsAsAsked
  <1> QED
    BY <1>2, <1>3, <1>4 DEF IInv

LEMMA OthersIInv ==
    ASSUME IInv, Shape'
    PROVE  /\ \A c \in Clients : Bystander(c) \/ RequestFails(c) => IInv'
           /\ \A g \in grants : DeleteGrant(g) => IInv'
           /\ \A id \in Ids : DeleteChannel(id) => IInv'
           /\ UNCHANGED vars => IInv'
  <1>0. Shape /\ CreatedHaveTokens
    BY DEF IInv
  <1>1. ASSUME NEW c \in Clients, Bystander(c) PROVE IInv'
    <2>1. PICK r \in Requests :
            /\ Known(r) /\ r.pc \notin {"write", "seal", "audit"}
            /\ request' = [request EXCEPT ![c] = r]
      BY <1>0, <1>1, BystanderStep
    <2>2. \A d \in Clients : request'[d] = IF d = c THEN r ELSE request[d]
      BY <1>0, <2>1, OneRequest
    <2>3. /\ platforms' = platforms /\ asked' = asked /\ overtaken' = overtaken
          /\ request[c].pc # "seal"
          /\ \A id \in created' : id \in created \/ (Creates(request[c]) /\ id = request[c].id)
      BY <1>0, <1>1, BystanderStep
    <2>4. CreatedHaveTokens'
      <3>1. ASSUME NEW id \in created' PROVE /\ platforms[id].life # "absent"
                                             /\ Present(id) => platforms[id].token # None
        BY <1>0, <2>3, <3>1 DEF IInv, CreatedHaveTokens, RowThere
      <3> QED
        BY <2>3, <3>1 DEF CreatedHaveTokens, Present
    <2> QED
      BY <2>1, <2>2, <2>3, <2>4, BystanderIInv
  <1>2. ASSUME NEW c \in Clients, RequestFails(c) PROVE IInv'
    <2>1. /\ platforms' = platforms /\ asked' = asked /\ overtaken \subseteq overtaken'
          /\ created' = created /\ (request[c].pc = "seal" => request[c].id \in overtaken')
      BY <1>2 DEF RequestFails
    <2>2. \A d \in Clients : request'[d] = IF d = c THEN Idle ELSE request[d]
      BY <1>0, <1>2, IdleKnown, OneRequest DEF RequestFails
    <2>3. request'[c].pc \notin {"write", "seal", "audit"}
      BY <2>2 DEF Idle
    <2>4. CreatedHaveTokens'
      BY <1>0, <2>1 DEF CreatedHaveTokens, Present
    <2> QED
      BY <2>1, <2>2, <2>3, <2>4, BystanderIInv
  <1>3. ASSUME UNCHANGED <<platforms, asked, overtaken, request, created>> PROVE IInv'
    BY <1>3 DEF IInv, RowThere, Fresh, Creates, TokensAsked, CreatedHaveTokens,
                RowIsAsAsked, Present, Sealing
  <1>4. ASSUME NEW g \in grants, DeleteGrant(g) PROVE IInv'
    BY <1>3, <1>4 DEF DeleteGrant
  <1>5. ASSUME NEW id \in Ids, DeleteChannel(id) PROVE IInv'
    BY <1>3, <1>5 DEF DeleteChannel
  <1> QED
    BY <1>1, <1>2, <1>3, <1>4, <1>5 DEF vars

LEMMA CreateIInv ==
    ASSUME IInv, Shape', NEW c \in Clients, NEW id \in Ids, NEW e \in Edits,
           CreatePlatform(c, id, e)
    PROVE  IInv'
  <1>0. Shape
    BY DEF IInv
  <1>1. /\ platforms[id].life = "absent" /\ e.token # None
        /\ created' = created /\ overtaken' = overtaken
        /\ platforms'[id].life = "present" /\ platforms'[id].url = e.url
        /\ platforms'[id].status = Given(e.status, "enabled")
        /\ asked'[id].url = e.url /\ asked'[id].status = Given(e.status, "enabled")
        /\ asked'[id].token = e.token
        /\ \A p \in Ids \ {id} : platforms'[p] = platforms[p] /\ asked'[p] = asked[p]
    BY <1>0 DEF CreatePlatform, Shape, TypeOK
  <1>2. PICK r \in Requests :
          /\ Known(r) /\ r.pc = "seal" /\ r.id = id /\ r.edit = e
          /\ request' = [request EXCEPT ![c] = r]
    BY <1>1, BegunCreate DEF CreatePlatform
  <1>3. \A d \in Clients : request'[d] = IF d = c THEN r ELSE request[d]
    BY <1>0, <1>2, OneRequest
  <1>4. ASSUME NEW d \in Clients PROVE RowThere(request[d])' /\ Fresh(request[d])'
    <2>1. CASE d = c
      BY <1>1, <1>2, <1>3, <2>1 DEF RowThere, Fresh, Creates
    <2>2. CASE d # c
      <3>1. /\ request'[d] = request[d] /\ RowThere(request[d]) /\ Fresh(request[d])
            /\ request[d].pc # "idle" => request[d].id \in Ids
        BY <1>0, <1>3, <2>2, RequestHas DEF IInv
      <3>2. request[d].pc \in {"write", "seal"} \/ Creates(request[d]) =>
              request[d].id \in Ids \ {id}
        BY <1>1, <3>1 DEF RowThere, Creates
      <3>3. RowThere(request[d])'
        BY <1>1, <3>1, <3>2 DEF RowThere, Creates, Present
      <3>4. Fresh(request[d])'
        BY <1>1, <3>1, <3>2 DEF Fresh, Present
      <3> QED
        BY <3>3, <3>4
    <2> QED
      BY <2>1, <2>2
  <1>5. TokensAsked'
    BY <1>1 DEF IInv, TokensAsked, Present
  <1>6. CreatedHaveTokens'
    <2>1. created \subseteq Ids
      BY <1>0 DEF Shape, TypeOK
    <2> QED
      BY <1>1, <2>1 DEF IInv, CreatedHaveTokens, Present
  <1>7. RowIsAsAsked'
    <2> SUFFICES ASSUME NEW p \in Ids, p \notin overtaken, Present(p)'
                 PROVE  /\ platforms'[p].url = asked'[p].url
                        /\ platforms'[p].status = asked'[p].status
                        /\ Sealing(p)' = {} => platforms'[p].token = asked'[p].token
      BY <1>1 DEF RowIsAsAsked
    <2>1. CASE p = id
      <3>1. c \in Sealing(id)'
        BY <1>2, <1>3 DEF Sealing
      <3> QED
        BY <1>1, <2>1, <3>1
    <2>2. CASE p # id
      <3>1. Sealing(p) \subseteq Sealing(p)'
        BY <1>3 DEF Sealing, CreatePlatform
      <3> QED
        BY <1>1, <2>2, <3>1 DEF IInv, RowIsAsAsked, Present
    <2> QED
      BY <2>1, <2>2
  <1> QED
    BY <1>4, <1>5, <1>6, <1>7 DEF IInv

LEMMA UpdateIInv ==
    ASSUME IInv, Shape', NEW c \in Clients, NEW id \in Ids, NEW e \in Edits,
           BeginUpdate(c, id, e)
    PROVE  IInv'
  <1>0. Shape
    BY DEF IInv
  <1>1. /\ UNCHANGED <<platforms, asked, overtaken, created>>
        /\ request[c].pc = "idle" /\ Present(id)
        /\ platforms[id] \in Rows /\ platforms[id].url # None /\ platforms[id].status # None
    BY <1>0 DEF BeginUpdate, Shape, TypeOK
  <1> DEFINE copy == Merged(platforms[id], e)
  <1>2. /\ copy \in Rows
        /\ copy.url = Given(e.url, platforms[id].url)
        /\ copy.status = Given(e.status, platforms[id].status)
    BY <1>1, MergedRow
  <1>3. copy.url # None /\ copy.status # None
    BY <1>1, <1>2, NotNone
  <1> HIDE DEF copy
  <1>4. PICK r : /\ r = [Idle EXCEPT !.pc = "write", !.id = id, !.edit = e, !.copy = copy,
                                     !.action = "UPDATE_PLATFORM"]
                 /\ request' = [request EXCEPT ![c] = r]
    BY DEF BeginUpdate, copy
  <1>5. /\ r \in Requests /\ Known(r)
        /\ r.pc = "write" /\ r.id = id /\ r.edit = e /\ r.copy = copy
    BY <1>2, <1>3, <1>4, IdleKnown DEF Idle, Requests, Pcs, Known
  <1>6. \A d \in Clients : request'[d] = IF d = c THEN r ELSE request[d]
    BY <1>0, <1>4, <1>5, OneRequest
  <1>7. ASSUME NEW d \in Clients PROVE RowThere(request[d])' /\ Fresh(request[d])'
    <2>1. CASE d = c
      <3>1. RowThere(request[d])'
        BY <1>1, <1>5, <1>6, <2>1 DEF RowThere, Creates, Present
      <3>2. id \notin overtaken =>
              asked[id].url = platforms[id].url /\ asked[id].status = platforms[id].status
        BY <1>1 DEF IInv, RowIsAsAsked
      <3>3. Fresh(request[d])'
        BY <1>1, <1>2, <1>5, <1>6, <2>1, <3>2 DEF Fresh
      <3> QED
        BY <3>1, <3>3
    <2>2. CASE d # c
      BY <1>1, <1>6, <2>2 DEF IInv, RowThere, Fresh, Creates, Present
    <2> QED
      BY <2>1, <2>2
  <1>8. TokensAsked' /\ CreatedHaveTokens'
    BY <1>1 DEF IInv, TokensAsked, CreatedHaveTokens, Present
  <1>9. RowIsAsAsked'
    <2>1. \A p \in Ids : Sealing(p) \subseteq Sealing(p)'
      BY <1>1, <1>6 DEF Sealing
    <2> QED
      BY <1>1, <2>1 DEF IInv, RowIsAsAsked, Present
  <1> QED
    BY <1>7, <1>8, <1>9 DEF IInv

LEMMA WriteIInv == ASSUME IInv, Shape', NEW c \in Clients, WritePlatform(c) PROVE IInv'
  <1>0. Shape
    BY DEF IInv
  <1> DEFINE r == request[c]
             i == r.id
             q == IF r.edit.token = None THEN Written(r)
                  ELSE [r EXCEPT !.pc = "seal", !.copy = Empty("absent")]
  <1>1. /\ r \in Requests /\ Known(r) /\ r.pc = "write" /\ i \in Ids
        /\ r.copy \in Rows /\ r.edit \in Edits /\ r.action = "UPDATE_PLATFORM"
        /\ platforms[i] \in Rows /\ asked[i] \in Rows /\ overtaken \subseteq Ids
    BY <1>0, RequestHas DEF WritePlatform, Known, Shape, TypeOK
  <1>2. /\ q \in Requests /\ Known(q) /\ q.id = i
        /\ q.pc = IF r.edit.token = None THEN "audit" ELSE "seal"
        /\ r.edit.token = None => q.action = "UPDATE_PLATFORM"
        /\ r.edit.token # None => q.edit = r.edit /\ q.alone = r.alone
    <2>1. CASE r.edit.token = None
      BY <1>1, <2>1, WrittenRequest
    <2>2. CASE r.edit.token # None
      BY <1>1, <2>2, EmptyRow DEF Requests, Pcs, Known
    <2> QED
      BY <2>1, <2>2
  <1>3. request' = Overtakes(c, q) /\ created' = created /\ overtaken' = Marked(c)
    BY DEF WritePlatform
  <1>4. /\ request'[c] = q
        /\ \A d \in Clients \ {c} :
             \/ request'[d] = request[d] /\ d \notin Editing(i)
             \/ /\ d \in Editing(i) /\ request[d] \in Requests
                /\ request'[d] = [request[d] EXCEPT !.alone = FALSE]
    <2> HIDE DEF q
    <2>1. \A d \in Clients : request[d] \in Requests
      BY <1>0, RequestHas
    <2>2. q \in Requests /\ Known(q)
      BY <1>2
    <2>3. /\ request'[c] = q
          /\ \A d \in Clients \ {c} :
               \/ request'[d] = request[d] /\ d \notin Editing(i)
               \/ /\ d \in Editing(i)
                  /\ request'[d] = [request[d] EXCEPT !.alone = FALSE]
      BY <1>0, <1>3, <2>2, OvertakenRequests
    <2> QED
      BY <2>1, <2>3
  <1>5. /\ \A p \in Ids : /\ platforms'[p].life = platforms[p].life
                          /\ platforms'[p].token = platforms[p].token
        /\ Present(i) => platforms'[i].url = r.copy.url /\ platforms'[i].status = r.copy.status
        /\ \A p \in Ids \ {i} : platforms'[p] = platforms[p]
    <2> DEFINE row == Columns(platforms[i], r.copy)
    <2>1. /\ row \in Rows /\ row.life = platforms[i].life /\ row.token = platforms[i].token
          /\ row.url = r.copy.url /\ row.status = r.copy.status
      BY <1>1, ColumnsRow
    <2>2. platforms' = Updated(i, row)
      BY DEF WritePlatform
    <2> HIDE DEF row
    <2>3. \A p \in Ids : platforms'[p] = IF p = i /\ Present(i) THEN row ELSE platforms[p]
      BY <1>0, <1>1, <2>1, <2>2, UpdatedRow
    <2> QED
      BY <1>1, <2>1, <2>3
  <1>6. /\ Present(i) => /\ asked'[i].url = Given(r.edit.url, asked[i].url)
                         /\ asked'[i].status = Given(r.edit.status, asked[i].status)
                         /\ asked'[i].token = Given(r.edit.token, asked[i].token)
        /\ \A p \in Ids \ {i} : asked'[p] = asked[p]
    BY <1>0, <1>1, TakenRow DEF WritePlatform, Asking, Shape, TypeOK
  <1>7. /\ overtaken \subseteq overtaken'
        /\ i \notin overtaken' => r.alone
        /\ \A p \in Ids \ {i} : p \in overtaken' <=> p \in overtaken
    BY <1>1, <1>3 DEF Marked, Requests
  <1>8. \A p \in Ids : Present(p)' = Present(p)
    BY <1>5 DEF Present
  <1> HIDE DEF q
  <1>9. ASSUME NEW d \in Clients PROVE RowThere(request[d])' /\ Fresh(request[d])'
    <2>0. /\ request[d].pc # "idle" => request[d].id \in Ids
          /\ RowThere(request[d]) /\ Fresh(request[d])
      BY <1>0, RequestHas DEF IInv
    <2>1. CASE d = c
      <3>1. RowThere(request[d])'
        <4>1. ~Creates(q)
          BY <1>2 DEF Creates
        <4>2. platforms[i].life # "absent"
          BY <1>1, <2>0, <2>1 DEF RowThere
        <4> QED
          BY <1>1, <1>2, <1>4, <1>5, <2>1, <4>1, <4>2 DEF RowThere
      <3>2. Fresh(request[d])'
        <4>1. q.pc = "seal" /\ Present(i) => asked'[i].token = q.edit.token
          BY <1>2, <1>6 DEF Given
        <4>2. q.pc # "write"
          BY <1>2
        <4> QED
          BY <1>1, <1>2, <1>4, <1>8, <2>1, <4>1, <4>2 DEF Fresh
      <3> QED
        BY <3>1, <3>2
    <2>2. CASE d # c /\ request'[d] = request[d] /\ d \notin Editing(i)
      <3>1. request[d].pc \in {"write", "seal"} => request[d].id \in Ids \ {i}
        BY <2>0, <2>2 DEF Editing
      <3>2. RowThere(request[d])'
        BY <1>5, <2>0, <2>2 DEF RowThere, Creates, Present
      <3>3. Fresh(request[d])'
        BY <1>6, <1>7, <1>8, <2>0, <2>2, <3>1 DEF Fresh
      <3> QED
        BY <3>2, <3>3
    <2>3. CASE /\ d # c /\ d \in Editing(i) /\ request[d] \in Requests
               /\ request'[d] = [request[d] EXCEPT !.alone = FALSE]
      <3>1. /\ request'[d].alone = FALSE /\ request'[d].pc = request[d].pc
            /\ request'[d].id = i /\ request[d].id = i /\ request[d].pc \in {"write", "seal"}
        BY <2>3 DEF Editing, Requests
      <3>2. RowThere(request[d])'
        BY <1>5, <2>0, <3>1, <1>1 DEF RowThere, Creates
      <3>3. Fresh(request[d])'
        BY <3>1 DEF Fresh
      <3> QED
        BY <3>2, <3>3
    <2> QED
      BY <1>4, <2>1, <2>2, <2>3
  <1>10. TokensAsked'
    <2>1. Present(i) => asked[i].token # None
      BY <1>1 DEF IInv, TokensAsked
    <2>2. Present(i) => asked'[i].token # None
      BY <1>6, <2>1, NotNone
    <2> QED
      BY <1>6, <1>8, <2>2 DEF IInv, TokensAsked
  <1>11. CreatedHaveTokens'
    <2>1. created \subseteq Ids
      BY <1>0 DEF Shape, TypeOK
    <2> QED
      BY <1>3, <1>5, <1>8, <2>1 DEF IInv, CreatedHaveTokens
  <1>12. RowIsAsAsked'
    <2> SUFFICES ASSUME NEW p \in Ids, p \notin overtaken', Present(p)
                 PROVE  /\ platforms'[p].url = asked'[p].url
                        /\ platforms'[p].status = asked'[p].status
                        /\ Sealing(p)' = {} => platforms'[p].token = asked'[p].token
      BY <1>8 DEF RowIsAsAsked
    <2>1. Sealing(p) \subseteq Sealing(p)'
      <3> SUFFICES ASSUME NEW d \in Sealing(p) PROVE d \in Sealing(p)'
        OBVIOUS
      <3>1. d \in Clients /\ d # c /\ request[d].pc = "seal" /\ request[d].id = p
        BY <1>1 DEF Sealing
      <3>2. \/ request'[d] = request[d]
            \/ /\ request[d] \in Requests
               /\ request'[d] = [request[d] EXCEPT !.alone = FALSE]
        BY <1>4, <3>1
      <3>3. request'[d].pc = request[d].pc /\ request'[d].id = request[d].id
        BY <3>2 DEF Requests
      <3> QED
        BY <3>1, <3>3 DEF Sealing
    <2>2. p \notin overtaken
      BY <1>7
    <2>3. CASE p = i
      <3>1. /\ r.copy.url = Given(r.edit.url, asked[i].url)
            /\ r.copy.status = Given(r.edit.status, asked[i].status)
        BY <1>1, <1>7, <2>2, <2>3 DEF IInv, Fresh
      <3>2. Sealing(p)' = {} => r.edit.token = None
        BY <1>2, <1>4, <2>3 DEF Sealing
      <3>3. Sealing(p)' = {} => platforms[i].token = asked[i].token
        BY <2>1, <2>2, <2>3 DEF IInv, RowIsAsAsked
      <3>4. Sealing(p)' = {} => platforms'[p].token = asked'[p].token
        BY <1>1, <1>5, <1>6, <2>3, <3>2, <3>3 DEF Given
      <3> QED
        BY <1>5, <1>6, <2>3, <3>1, <3>4
    <2>4. CASE p # i
      BY <1>5, <1>6, <2>1, <2>2, <2>4 DEF IInv, RowIsAsAsked
    <2> QED
      BY <2>3, <2>4
  <1> QED
    BY <1>9, <1>10, <1>11, <1>12 DEF IInv

LEMMA SealIInv == ASSUME IInv, Shape', NEW c \in Clients, SealToken(c) PROVE IInv'
  <1>0. Shape
    BY DEF IInv
  <1> DEFINE r == request[c]
             i == r.id
  <1>1. /\ r \in Requests /\ Known(r) /\ r.pc = "seal" /\ i \in Ids
        /\ r.edit.token \in Tokens \cup {None} /\ r.edit.token # None
        /\ platforms[i] \in Rows
    BY <1>0, RequestHas DEF SealToken, Known, Shape, TypeOK
  <1>2. PICK q \in Requests : Known(q) /\ q.pc = "audit" /\ q.id = i /\ q = Written(r)
    BY <1>1, WrittenRequest
  <1>3. /\ \A d \in Clients : request'[d] = IF d = c THEN q ELSE request[d]
        /\ created' = created /\ asked' = asked /\ overtaken' = Marked(c)
    BY <1>0, <1>2, OneRequest DEF SealToken
  <1>4. /\ \A p \in Ids : /\ platforms'[p].life = platforms[p].life
                          /\ platforms'[p].url = platforms[p].url
                          /\ platforms'[p].status = platforms[p].status
        /\ Present(i) => platforms'[i].token = r.edit.token
        /\ \A p \in Ids \ {i} : platforms'[p] = platforms[p]
    <2> DEFINE row == Sealed(platforms[i], r.edit.token)
    <2>1. /\ row \in Rows /\ row.life = platforms[i].life /\ row.token = r.edit.token
          /\ row.url = platforms[i].url /\ row.status = platforms[i].status
      BY <1>1, SealedRow
    <2>2. platforms' = Updated(i, row)
      BY DEF SealToken
    <2> HIDE DEF row
    <2>3. \A p \in Ids : platforms'[p] = IF p = i /\ Present(i) THEN row ELSE platforms[p]
      BY <1>0, <1>1, <2>1, <2>2, UpdatedRow
    <2> QED
      BY <1>1, <2>1, <2>3
  <1>5. overtaken \subseteq overtaken' /\ (i \notin overtaken' => r.alone)
    BY <1>1, <1>3 DEF Marked, Requests
  <1>6. /\ \A p \in Ids : Present(p)' = Present(p)
        /\ \A p \in Ids : platforms'[p].token = None => platforms[p].token = None \/ ~Present(p)
    BY <1>1, <1>4 DEF Present
  <1>7. ASSUME NEW d \in Clients PROVE RowThere(request[d])' /\ Fresh(request[d])'
    <2>0. /\ request[d].pc # "idle" => request[d].id \in Ids
          /\ RowThere(request[d]) /\ Fresh(request[d])
      BY <1>0, RequestHas DEF IInv
    <2>1. CASE d = c
      <3>1. platforms[i].life # "absent"
        BY <1>1, <2>0, <2>1 DEF RowThere
      <3>2. RowThere(request[d])'
        BY <1>1, <1>2, <1>3, <1>4, <1>6, <2>1, <3>1 DEF RowThere
      <3>3. Fresh(request[d])'
        BY <1>2, <1>3, <2>1 DEF Fresh
      <3> QED
        BY <3>2, <3>3
    <2>2. CASE d # c
      <3>1. RowThere(request[d])'
        BY <1>3, <1>4, <1>6, <2>0, <2>2 DEF RowThere, Creates
      <3>2. Fresh(request[d])'
        BY <1>3, <1>5, <1>6, <2>0, <2>2 DEF Fresh
      <3> QED
        BY <3>1, <3>2
    <2> QED
      BY <2>1, <2>2
  <1>8. TokensAsked' /\ CreatedHaveTokens'
    <2>1. created \subseteq Ids
      BY <1>0 DEF Shape, TypeOK
    <2> QED
      BY <1>3, <1>4, <1>6, <2>1 DEF IInv, TokensAsked, CreatedHaveTokens
  <1>9. RowIsAsAsked'
    <2> SUFFICES ASSUME NEW p \in Ids, p \notin overtaken', Present(p)
                 PROVE  /\ platforms'[p].url = asked[p].url
                        /\ platforms'[p].status = asked[p].status
                        /\ Sealing(p)' = {} => platforms'[p].token = asked[p].token
      BY <1>3, <1>6 DEF RowIsAsAsked
    <2>1. /\ platforms'[p].url = asked[p].url /\ platforms'[p].status = asked[p].status
          /\ Sealing(p) = {} => platforms[p].token = asked[p].token
      BY <1>4, <1>5 DEF IInv, RowIsAsAsked
    <2>2. CASE p = i
      <3>1. asked[i].token = r.edit.token
        BY <1>1, <1>5, <2>2 DEF IInv, Fresh
      <3> QED
        BY <1>4, <2>1, <2>2, <3>1
    <2>3. CASE p # i
      <3>1. Sealing(p) \subseteq Sealing(p)'
        BY <1>3, <2>3 DEF Sealing
      <3> QED
        BY <1>4, <2>1, <2>3, <3>1
    <2> QED
      BY <2>2, <2>3
  <1> QED
    BY <1>7, <1>8, <1>9 DEF IInv

LEMMA DeleteRowIInv == ASSUME IInv, Shape', NEW c \in Clients, DeleteRow(c) PROVE IInv'
  <1>0. Shape
    BY DEF IInv
  <1> DEFINE r == request[c]
             i == r.id
  <1>1. r \in Requests /\ Known(r) /\ r.pc = "delete" /\ i \in Ids /\ r.action = "DELETE_PLATFORM"
    BY <1>0, RequestHas DEF DeleteRow, Known
  <1>2. PICK q \in Requests :
          Known(q) /\ q.pc = "audit" /\ q.action = "DELETE_PLATFORM" /\ q = Written(r)
    BY <1>1, WrittenRequest
  <1>3. /\ \A d \in Clients : request'[d] = IF d = c THEN q ELSE request[d]
        /\ created' = created /\ overtaken' = overtaken
    <2>1. request' = [request EXCEPT ![c] = q]
      BY <1>0, <1>2 DEF DeleteRow, Shape, TypeOK
    <2> QED
      BY <1>0, <1>2, <2>1, OneRequest DEF DeleteRow
  <1>4. /\ \A p \in Ids : \/ platforms'[p] = platforms[p] /\ (p # i \/ ~Present(p))
                         \/ platforms'[p].life = "gone"
        /\ \A p \in Ids \ {i} : asked'[p] = asked[p] /\ platforms'[p] = platforms[p]
    <2>1. Empty("gone") \in Rows /\ Empty("gone").life = "gone"
      BY EmptyRow
    <2>2. platforms' = Updated(i, Empty("gone")) /\ asked' = Forgotten(i)
      BY DEF DeleteRow
    <2>3. \A p \in Ids :
            platforms'[p] = IF p = i /\ Present(i) THEN Empty("gone") ELSE platforms[p]
      BY <1>0, <1>1, <2>1, <2>2, UpdatedRow
    <2>4. \A p \in Ids \ {i} : asked'[p] = asked[p]
      BY <1>0, <1>1, <2>2 DEF Forgotten, Shape, TypeOK
    <2> QED
      BY <1>1, <2>1, <2>3, <2>4
  <1>5. /\ \A p \in Ids : Present(p)' => p # i /\ Present(p)
        /\ \A p \in Ids : platforms[p].life # "absent" => platforms'[p].life # "absent"
    BY <1>4 DEF Present
  <1>6. ASSUME NEW d \in Clients PROVE RowThere(request[d])' /\ Fresh(request[d])'
    <2>0. /\ request[d].pc # "idle" => request[d].id \in Ids
          /\ RowThere(request[d]) /\ Fresh(request[d])
      BY <1>0, RequestHas DEF IInv
    <2>1. CASE d = c
      BY <1>2, <1>3, <2>1 DEF RowThere, Fresh, Creates
    <2>2. CASE d # c
      <3>1. RowThere(request[d])'
        BY <1>3, <1>4, <1>5, <2>0, <2>2 DEF RowThere, Creates
      <3>2. Fresh(request[d])'
        BY <1>3, <1>4, <1>5, <2>0, <2>2 DEF Fresh
      <3> QED
        BY <3>1, <3>2
    <2> QED
      BY <2>1, <2>2
  <1>7. TokensAsked' /\ CreatedHaveTokens'
    <2>1. created \subseteq Ids
      BY <1>0 DEF Shape, TypeOK
    <2> QED
      BY <1>3, <1>4, <1>5, <2>1 DEF IInv, TokensAsked, CreatedHaveTokens
  <1>8. RowIsAsAsked'
    <2>1. \A p \in Ids : Sealing(p) \subseteq Sealing(p)'
      BY <1>1, <1>3 DEF Sealing
    <2> QED
      BY <1>3, <1>4, <1>5, <2>1 DEF IInv, RowIsAsAsked
  <1> QED
    BY <1>6, <1>7, <1>8 DEF IInv

LEMMA NextIInv == IInv /\ [Next]_vars => IInv'
  <1> SUFFICES ASSUME IInv, [Next]_vars PROVE IInv'
    OBVIOUS
  <1>1. Shape'
    BY NextShape DEF IInv
  <1> QED
    BY <1>1, Steps, CreateIInv, UpdateIInv, WriteIInv, SealIInv, DeleteRowIInv, OthersIInv

THEOREM Invariant == Spec => []IInv
  BY InitIInv, NextIInv, PTL DEF Spec

\* A platform is as administrators last asked, whatever the number of requests
\* that create, edit, delete and grant platforms at one time, unless edits of it
\* overlapped or broke off.
THEOREM RowsAreAsAsked == Spec => []RowIsAsAsked
  <1>1. IInv => RowIsAsAsked
    BY DEF IInv
  <1> QED
    BY Invariant, <1>1, PTL

\* A platform without a token is one whose creation never came to its end, and
\* was not reported.
THEOREM TokenlessAreUnfinished == Spec => []TokenlessIsUnfinished
  <1>1. IInv => TokenlessIsUnfinished
    BY DEF IInv, TokenlessIsUnfinished, RowIsAsAsked, TokensAsked, CreatedHaveTokens
  <1> QED
    BY Invariant, <1>1, PTL

\* No step changes a token but the one that seals a new one.
THEOREM TokensAreOnlyReplaced == Spec => TokenOnlyReplaced
  <1>1. ASSUME Shape, [Next]_vars, NEW id \in Ids, Present(id), Present(id)'
        PROVE  \/ platforms'[id].token = platforms[id].token
               \/ \E c \in Sealing(id) : platforms'[id].token = request[c].edit.token
    <2>1. ASSUME UNCHANGED platforms PROVE platforms'[id].token = platforms[id].token
      BY <2>1
    <2>2. ASSUME NEW c \in Clients, NEW p \in Ids, NEW e \in Edits, CreatePlatform(c, p, e)
          PROVE  platforms'[id].token = platforms[id].token
      BY <1>1, <2>2 DEF CreatePlatform, Present, Shape, TypeOK
    <2>3. ASSUME NEW c \in Clients, WritePlatform(c)
          PROVE  platforms'[id].token = platforms[id].token
      <3>1. request[c].id \in Ids /\ request[c].copy \in Rows
        BY <1>1, <2>3, RequestHas DEF WritePlatform
      <3> DEFINE row == Columns(platforms[request[c].id], request[c].copy)
      <3>2. row \in Rows /\ row.token = platforms[request[c].id].token
        BY <1>1, <3>1, ColumnsRow DEF Shape, TypeOK
      <3>3. platforms' = Updated(request[c].id, row)
        BY <2>3 DEF WritePlatform
      <3> HIDE DEF row
      <3> QED
        BY <1>1, <3>1, <3>2, <3>3, UpdatedRow
    <2>4. ASSUME NEW c \in Clients, SealToken(c)
          PROVE  \/ platforms'[id].token = platforms[id].token
                 \/ c \in Sealing(id) /\ platforms'[id].token = request[c].edit.token
      <3>1. /\ request[c].id \in Ids /\ request[c].pc = "seal"
            /\ request[c].edit.token \in Tokens \cup {None}
        BY <1>1, <2>4, RequestHas DEF SealToken
      <3> DEFINE row == Sealed(platforms[request[c].id], request[c].edit.token)
      <3>2. row \in Rows /\ row.token = request[c].edit.token
        BY <1>1, <3>1, SealedRow DEF Shape, TypeOK
      <3>3. platforms' = Updated(request[c].id, row)
        BY <2>4 DEF SealToken
      <3> HIDE DEF row
      <3> QED
        BY <1>1, <3>1, <3>2, <3>3, UpdatedRow DEF Sealing
    <2>5. ASSUME NEW c \in Clients, DeleteRow(c)
          PROVE  platforms'[id].token = platforms[id].token
      <3>1. request[c].id \in Ids
        BY <1>1, <2>5, RequestHas DEF DeleteRow
      <3>2. platforms'[id] = platforms[id] \/ platforms'[id] = Empty("gone")
        BY <1>1, <2>5, <3>1, EmptyRow, UpdatedRow DEF DeleteRow
      <3> QED
        BY <1>1, <3>2, EmptyRow DEF Present
    <2>6. \A c \in Clients : Bystander(c) => UNCHANGED platforms
      BY <1>1, BystanderStep
    <2>7. /\ \A c \in Clients, p \in Ids, e \in Edits : BeginUpdate(c, p, e) => UNCHANGED platforms
          /\ \A c \in Clients : RequestFails(c) => UNCHANGED platforms
          /\ \A g \in grants : DeleteGrant(g) => UNCHANGED platforms
          /\ \A p \in Ids : DeleteChannel(p) => UNCHANGED platforms
          /\ UNCHANGED vars => UNCHANGED platforms
      BY DEF BeginUpdate, RequestFails, DeleteGrant, DeleteChannel, vars
    <2> QED
      BY <1>1, <2>1, <2>2, <2>3, <2>4, <2>5, <2>6, <2>7, Steps
  <1>2. Shape /\ [Next]_vars =>
          [\A id \in Ids : Present(id) /\ Present(id)' =>
             \/ platforms'[id].token = platforms[id].token
             \/ \E c \in Sealing(id) : platforms'[id].token = request[c].edit.token]_vars
    BY <1>1
  <1> QED
    BY InitShape, NextShape, <1>2, PTL DEF Spec, TokenOnlyReplaced

-----------------------------------------------------------------------------
(* What a deleted platform leaves behind. *)

GrantsOf(id) == {g \in grants : g[2] = id}

\* All requests but c keep their platform and their statement.
OthersStay(c) ==
    \A d \in Clients \ {c} :
        request'[d].pc = request[d].pc /\ request'[d].id = request[d].id

\* At most one request moves, and only one that finds the platform begins to
\* insert something for it.
LEMMA Moves ==
    ASSUME Shape, [Next]_vars
    PROVE  \/ request' = request
           \/ \E c \in Clients :
                /\ OthersStay(c)
                /\ \A id \in Ids : c \in Inserting(id)' => c \in Inserting(id) \/ Present(id)
  <1> DEFINE Moved(c) == /\ OthersStay(c)
                         /\ \A id \in Ids :
                              c \in Inserting(id)' => c \in Inserting(id) \/ Present(id)
  <1>0. Idle.pc = "idle"
    BY DEF Idle
  <1>1. ASSUME NEW c \in Clients, NEW r, request' = [request EXCEPT ![c] = r],
               \A id \in Ids : /\ r.pc \in {"find", "insertGrant", "readGrant", "insertChannel"}
                              /\ r.id = id
                              => c \in Inserting(id) \/ Present(id)
        PROVE  Moved(c)
    <2>1. \A d \in Clients : request'[d] = IF d = c THEN r ELSE request[d]
      BY <1>1 DEF Shape, TypeOK
    <2> QED
      BY <1>1, <2>1 DEF OthersStay, Inserting
  <1>2. ASSUME NEW c \in Clients, NEW id \in Ids, NEW e \in Edits,
               CreatePlatform(c, id, e) \/ BeginUpdate(c, id, e)
        PROVE  Moved(c)
    <2>1. CASE CreatePlatform(c, id, e)
      <3>1. PICK r : /\ r = [Idle EXCEPT !.pc = "seal", !.id = id, !.edit = e,
                                         !.action = "CREATE_PLATFORM"]
                     /\ request' = [request EXCEPT ![c] = r]
        BY <2>1 DEF CreatePlatform
      <3>2. r.pc = "seal"
        BY <3>1 DEF Idle
      <3>3. r.pc \in {"write", "seal"} /\ request' = [request EXCEPT ![c] = r]
        BY <3>1, <3>2
      <3> QED
        BY <1>1, <3>3
    <2>2. CASE BeginUpdate(c, id, e)
      <3> DEFINE copy == Merged(platforms[id], e)
      <3> HIDE DEF copy
      <3>1. PICK r : /\ r = [Idle EXCEPT !.pc = "write", !.id = id, !.edit = e, !.copy = copy,
                                         !.action = "UPDATE_PLATFORM"]
                     /\ request' = [request EXCEPT ![c] = r]
        BY <2>2 DEF BeginUpdate, copy
      <3>2. r.pc = "write"
        BY <3>1 DEF Idle
      <3>3. r.pc \in {"write", "seal"} /\ request' = [request EXCEPT ![c] = r]
        BY <3>1, <3>2
      <3> QED
        BY <1>1, <3>3
    <2> QED
      BY <1>2, <2>1, <2>2
  <1>3. ASSUME NEW c \in Clients, WritePlatform(c) PROVE Moved(c)
    <2> DEFINE r == request[c]
               q == IF r.edit.token = None THEN Written(r)
                    ELSE [r EXCEPT !.pc = "seal", !.copy = Empty("absent")]
    <2>1. r \in Requests /\ Known(r) /\ r.pc = "write" /\ r.id \in Ids
      BY <1>3, RequestHas DEF WritePlatform
    <2>2. q \in Requests /\ Known(q) /\ q.pc \in {"audit", "seal"}
      BY <2>1, WrittenRequest, NextSeals
    <2>3. request' = Overtakes(c, q)
      BY <1>3 DEF WritePlatform
    <2> HIDE DEF q
    <2>4. /\ request'[c] = q
          /\ \A d \in Clients \ {c} :
               \/ request'[d] = request[d]
               \/ request'[d] = [request[d] EXCEPT !.alone = FALSE]
      BY <2>2, <2>3, OvertakenRequests
    <2>5. \A d \in Clients : request[d] \in Requests
      BY RequestHas
    <2>6. OthersStay(c)
      BY <2>4, <2>5 DEF OthersStay, Requests
    <2> QED
      BY <2>2, <2>4, <2>6 DEF Inserting
  <1>4. ASSUME NEW c \in Clients, SealToken(c) \/ DeleteRow(c) PROVE Moved(c)
    <2>1. request[c] \in Requests /\ request[c].id \in Ids
      BY <1>4, RequestHas DEF SealToken, DeleteRow
    <2>2. Written(request[c]).pc = "audit"
      BY <2>1, WrittenRequest
    <2>3. request' = [request EXCEPT ![c] = Written(request[c])]
      BY <1>4 DEF SealToken, DeleteRow, Shape, TypeOK
    <2> QED
      BY <1>1, <2>2, <2>3
  <1>5. ASSUME NEW c \in Clients, request' = [request EXCEPT ![c] = Idle] PROVE Moved(c)
    BY <1>0, <1>1, <1>5
  <1>6. ASSUME NEW c \in Clients, NEW p \in Pcs,
               request[c].pc \in {"find", "readGrant"} \/ p = "delete",
               request' = [request EXCEPT ![c] = [request[c] EXCEPT !.pc = p]]
        PROVE  Moved(c)
    <2>1. request[c] \in Requests
      BY RequestHas
    <2> DEFINE r == [request[c] EXCEPT !.pc = p]
    <2>2. r.pc = p /\ r.id = request[c].id
      BY <2>1 DEF Requests
    <2>3. request' = [request EXCEPT ![c] = r]
      BY <1>6
    <2> HIDE DEF r
    <2>4. \A id \in Ids : /\ r.pc \in {"find", "insertGrant", "readGrant", "insertChannel"}
                         /\ r.id = id
                         => c \in Inserting(id)
      BY <1>6, <2>2 DEF Inserting
    <2> QED
      BY <1>1, <2>3, <2>4
  <1>7. ASSUME NEW c \in Clients, Bystander(c) PROVE Moved(c)
    <2>1. CASE Audit(c) \/ InsertGrant(c) \/ InsertChannel(c)
      BY <1>5, <2>1 DEF Audit, InsertGrant, InsertChannel
    <2>2. ASSUME NEW id \in Ids, BeginDelete(c, id) PROVE Moved(c)
      <3>1. [Idle EXCEPT !.pc = "cascade", !.id = id, !.action = "DELETE_PLATFORM"].pc = "cascade"
        BY DEF Idle
      <3> QED
        BY <1>1, <2>2, <3>1 DEF BeginDelete
    <2>3. ASSUME NEW s \in Suppliers, NEW id \in Ids, BeginGrant(c, s, id) \/ Authorize(c, s, id)
          PROVE  Moved(c)
      <3>1. \A p \in {"find", "readGrant"} :
              [Idle EXCEPT !.pc = p, !.id = id, !.supplier = s].id = id
        BY DEF Idle
      <3>2. PICK p \in {"find", "readGrant"} :
              request' = [request EXCEPT ![c] = [Idle EXCEPT !.pc = p, !.id = id, !.supplier = s]]
        BY <2>3 DEF BeginGrant, Authorize
      <3>3. Present(id)
        BY <2>3 DEF BeginGrant, MayGrant, Authorize
      <3> QED
        BY <1>1, <3>1, <3>2, <3>3
    <2>4. CASE DeleteGrants(c)
      <3>1. request' = [request EXCEPT ![c] = [request[c] EXCEPT !.pc = "delete"]]
        BY <2>4 DEF DeleteGrants
      <3> QED
        BY <1>6, <3>1 DEF Pcs
    <2>5. CASE FindGrant(c)
      <3>1. \/ request' = [request EXCEPT ![c] = Idle]
            \/ request' = [request EXCEPT ![c] = [request[c] EXCEPT !.pc = "insertGrant"]]
        BY <2>5 DEF FindGrant
      <3> QED
        BY <1>5, <1>6, <2>5, <3>1 DEF FindGrant, Pcs
    <2>6. CASE ReadGrant(c)
      <3>1. \/ request' = [request EXCEPT ![c] = Idle]
            \/ request' = [request EXCEPT ![c] = [request[c] EXCEPT !.pc = "insertChannel"]]
        BY <2>6 DEF ReadGrant
      <3> QED
        BY <1>5, <1>6, <2>6, <3>1 DEF ReadGrant, Pcs
    <2> QED
      BY <1>7, <2>1, <2>2, <2>3, <2>4, <2>5, <2>6 DEF Bystander
  <1>8. ASSUME NEW c \in Clients, RequestFails(c) PROVE Moved(c)
    BY <1>5, <1>8 DEF RequestFails
  <1>9. /\ \A g \in grants : DeleteGrant(g) => request' = request
        /\ \A id \in Ids : DeleteChannel(id) => request' = request
        /\ UNCHANGED vars => request' = request
    BY DEF DeleteGrant, DeleteChannel, vars
  <1> HIDE DEF Moved
  <1>10. request' = request \/ \E c \in Clients : Moved(c)
    BY <1>2, <1>3, <1>4, <1>7, <1>8, <1>9, Steps
  <1> QED
    BY <1>10 DEF Moved

\* Everything that is counted is finite.
Finite ==
    /\ IsFiniteSet(grants)
    /\ \A id \in Ids : IsFiniteSet(Inserting(id))

LEMMA InsertingStep ==
    ASSUME Shape, [Next]_vars
    PROVE  \A id \in Ids :
             /\ Present(id) \/ Inserting(id)' \subseteq Inserting(id)
             /\ \E c : Inserting(id)' \subseteq Inserting(id) \cup {c}
  <1>1. CASE request' = request
    BY <1>1 DEF Inserting
  <1>2. CASE \E c \in Clients :
               /\ OthersStay(c)
               /\ \A id \in Ids : c \in Inserting(id)' => c \in Inserting(id) \/ Present(id)
    <2>1. PICK c \in Clients :
               /\ OthersStay(c)
               /\ \A id \in Ids : c \in Inserting(id)' => c \in Inserting(id) \/ Present(id)
      BY <1>2
    <2>2. \A id \in Ids : Inserting(id)' \subseteq Inserting(id) \cup {c}
      BY <2>1 DEF OthersStay, Inserting
    <2> QED
      BY <2>1, <2>2
  <1> QED
    BY <1>1, <1>2, Moves

LEMMA GrantsStep ==
    ASSUME [Next]_vars
    PROVE  \/ grants' \subseteq grants
           \/ \E c \in Clients : InsertGrant(c)
  BY Zenon DEF Next, vars, CreatePlatform, BeginUpdate, WritePlatform, SealToken, Audit,
     BeginDelete, DeleteGrants, DeleteRow, BeginGrant, Authorize, FindGrant, ReadGrant,
     InsertChannel, RequestFails, DeleteGrant, DeleteChannel

LEMMA ChannelsStep ==
    ASSUME [Next]_vars, channels \in [Ids -> Nat]
    PROVE  \/ channels' = channels
           \/ \E id \in Ids : DeleteChannel(id)
           \/ \E c \in Clients : InsertChannel(c)
  BY Zenon DEF Next, vars, CreatePlatform, BeginUpdate, WritePlatform, SealToken, Audit,
     BeginDelete, DeleteGrants, DeleteRow, BeginGrant, Authorize, FindGrant, ReadGrant,
     InsertGrant, RequestFails, DeleteGrant

LEMMA InitFinite == Init => Finite
  <1> SUFFICES ASSUME Init PROVE Finite
    OBVIOUS
  <1>1. grants = {} /\ \A id \in Ids : Inserting(id) = {}
    BY DEF Init, Inserting, Idle
  <1> QED
    BY <1>1, FS_EmptySet DEF Finite

LEMMA NextFinite == Shape /\ Finite /\ [Next]_vars => Finite'
  <1> SUFFICES ASSUME Shape, Finite, [Next]_vars PROVE Finite'
    OBVIOUS
  <1>1. IsFiniteSet(grants')
    <2>1. CASE grants' \subseteq grants
      BY <2>1, FS_Subset DEF Finite
    <2>2. ASSUME NEW c \in Clients, InsertGrant(c) PROVE IsFiniteSet(grants')
      BY <2>2, FS_AddElement DEF Finite, InsertGrant
    <2> QED
      BY <2>1, <2>2, GrantsStep
  <1>2. ASSUME NEW id \in Ids PROVE IsFiniteSet(Inserting(id)')
    <2>1. PICK c : Inserting(id)' \subseteq Inserting(id) \cup {c}
      BY InsertingStep
    <2>2. IsFiniteSet(Inserting(id) \cup {c})
      BY FS_AddElement DEF Finite
    <2> QED
      BY <2>1, <2>2, FS_Subset
  <1> QED
    BY <1>1, <1>2 DEF Finite

\* A deleted platform stays deleted.
LEMMA GoneStaysGone ==
    ASSUME Shape, [Next]_vars, NEW id \in Ids, platforms[id].life = "gone"
    PROVE  platforms'[id].life = "gone"
  <1>1. ASSUME platforms' = platforms PROVE platforms'[id].life = "gone"
    BY <1>1
  <1>2. ASSUME NEW p \in Ids, NEW row, platforms' = Updated(p, row)
        PROVE  platforms'[id].life = "gone"
    BY <1>2 DEF Updated, Present, Shape, TypeOK
  <1>3. ASSUME NEW c \in Clients, NEW p \in Ids, NEW e \in Edits, CreatePlatform(c, p, e)
        PROVE  platforms'[id].life = "gone"
    BY <1>3 DEF CreatePlatform, Shape, TypeOK
  <1>4. ASSUME NEW c \in Clients, WritePlatform(c) \/ SealToken(c) \/ DeleteRow(c)
        PROVE  platforms'[id].life = "gone"
    <2>1. request[c].id \in Ids
      BY <1>4, RequestHas DEF WritePlatform, SealToken, DeleteRow
    <2>2. \E row : platforms' = Updated(request[c].id, row)
      BY <1>4 DEF WritePlatform, SealToken, DeleteRow
    <2> QED
      BY <1>2, <2>1, <2>2
  <1>5. ASSUME NEW c \in Clients, Bystander(c) PROVE platforms'[id].life = "gone"
    BY <1>1, <1>5, BystanderStep
  <1>6. /\ \A c \in Clients, p \in Ids, e \in Edits : BeginUpdate(c, p, e) => platforms' = platforms
        /\ \A c \in Clients : RequestFails(c) => platforms' = platforms
        /\ \A g \in grants : DeleteGrant(g) => platforms' = platforms
        /\ \A p \in Ids : DeleteChannel(p) => platforms' = platforms
        /\ UNCHANGED vars => platforms' = platforms
    BY DEF BeginUpdate, RequestFails, DeleteGrant, DeleteChannel, vars
  <1> QED
    BY <1>1, <1>3, <1>4, <1>5, <1>6, Steps

LEMMA Counted ==
    ASSUME Finite, NEW id \in Ids
    PROVE  /\ IsFiniteSet(GrantsOf(id)) /\ IsFiniteSet(Inserting(id))
           /\ Cardinality(GrantsOf(id)) \in Nat /\ Cardinality(Inserting(id)) \in Nat
  <1>1. IsFiniteSet(GrantsOf(id)) /\ IsFiniteSet(Inserting(id))
    BY FS_Subset DEF Finite, GrantsOf
  <1> QED
    BY <1>1, FS_CardinalityType

\* A request that has inserted has nothing more to insert.
LEMMA Inserted ==
    ASSUME Shape, NEW c \in Clients, InsertGrant(c) \/ InsertChannel(c),
           NEW id \in Ids, request[c].id = id
    PROVE  c \in Inserting(id) /\ c \notin Inserting(id)'
  BY DEF InsertGrant, InsertChannel, Inserting, Idle, Shape, TypeOK

LEMMA LeftShrinks ==
    ASSUME Shape, Finite, Finite', [Next]_vars, NEW id \in Ids, ~Present(id)
    PROVE  Leftovers(id)' <= Leftovers(id)
  <1> DEFINE G == GrantsOf(id)
             I == Inserting(id)
             n == channels[id]
  <1>1. /\ IsFiniteSet(G) /\ IsFiniteSet(I) /\ IsFiniteSet(G') /\ IsFiniteSet(I')
        /\ Cardinality(G) \in Nat /\ Cardinality(I) \in Nat
        /\ Cardinality(G') \in Nat /\ Cardinality(I') \in Nat
    <2>1. Finite' => /\ IsFiniteSet(G') /\ IsFiniteSet(I')
                     /\ Cardinality(G') \in Nat /\ Cardinality(I') \in Nat
      <3>1. ASSUME Finite' PROVE IsFiniteSet(G') /\ IsFiniteSet(I')
        BY <3>1, FS_Subset DEF Finite, GrantsOf
      <3> QED
        BY <3>1, FS_CardinalityType
    <2> QED
      BY <2>1, Counted
  <1>2. n \in Nat /\ n' \in Nat
    BY NextShape DEF Shape, TypeOK
  <1>3. I' \subseteq I /\ Cardinality(I') <= Cardinality(I)
    BY <1>1, InsertingStep, FS_Subset
  <1>4. /\ Leftovers(id) = n + Cardinality(G) + Cardinality(I)
        /\ Leftovers(id)' = n' + Cardinality(G') + Cardinality(I')
    BY DEF Leftovers, GrantsOf
  <1>5. ASSUME NEW c \in I, c \notin I' PROVE Cardinality(I') <= Cardinality(I) - 1
    <2>1. I' \subseteq I \ {c}
      BY <1>3, <1>5
    <2>2. IsFiniteSet(I \ {c}) /\ Cardinality(I \ {c}) = Cardinality(I) - 1
      BY <1>1, <1>5, FS_RemoveElement
    <2> HIDE DEF I
    <2> QED
      BY <2>1, <2>2, FS_Subset
  <1>6. ASSUME grants' \subseteq grants PROVE Cardinality(G') <= Cardinality(G)
    <2>1. G' \subseteq G
      BY <1>6 DEF GrantsOf
    <2> QED
      BY <1>1, <2>1, FS_Subset
  <1>7. CASE \E c \in Clients : InsertGrant(c)
    <2>1. PICK c \in Clients : InsertGrant(c)
      BY <1>7
    <2>2. n' = n
      BY <2>1 DEF InsertGrant
    <2>3. CASE request[c].id = id
      <3>1. Cardinality(I') <= Cardinality(I) - 1
        BY <1>5, <2>1, <2>3, Inserted
      <3>2. PICK g : grants' = grants \cup {g}
        BY <2>1 DEF InsertGrant
      <3>3. G' \subseteq G \cup {g}
        BY <3>2 DEF GrantsOf
      <3> HIDE DEF G, I, n
      <3>4. /\ IsFiniteSet(G \cup {g})
            /\ Cardinality(G \cup {g}) = IF g \in G THEN Cardinality(G) ELSE Cardinality(G) + 1
        BY <1>1, FS_AddElement
      <3>5. Cardinality(G') <= Cardinality(G \cup {g}) /\ Cardinality(G \cup {g}) \in Nat
        BY <3>3, <3>4, FS_Subset, FS_CardinalityType
      <3> QED
        BY <1>1, <1>2, <1>4, <2>2, <3>1, <3>4, <3>5
    <2>4. CASE request[c].id # id
      <3>1. G' \subseteq G
        BY <2>1, <2>4 DEF InsertGrant, GrantsOf
      <3>2. Cardinality(G') <= Cardinality(G)
        BY <1>1, <3>1, FS_Subset
      <3> HIDE DEF G, I, n
      <3> QED
        BY <1>1, <1>2, <1>3, <1>4, <2>2, <3>2
    <2> QED
      BY <2>3, <2>4
  <1>8. CASE grants' \subseteq grants
    <2>1. Cardinality(G') <= Cardinality(G)
      BY <1>6, <1>8
    <2>2. n' + Cardinality(I') <= n + Cardinality(I)
      <3>1. CASE channels' = channels
        <4>1. n' = n
          BY <3>1
        <4> HIDE DEF I, n
        <4> QED
          BY <1>1, <1>2, <1>3, <4>1
      <3>2. ASSUME NEW p \in Ids, DeleteChannel(p)
            PROVE  n' + Cardinality(I') <= n + Cardinality(I)
        <4>1. n' <= n
          BY <1>2, <3>2 DEF DeleteChannel, Shape, TypeOK
        <4> HIDE DEF I, n
        <4> QED
          BY <1>1, <1>2, <1>3, <4>1
      <3>3. ASSUME NEW c \in Clients, InsertChannel(c)
            PROVE  n' + Cardinality(I') <= n + Cardinality(I)
        <4>1. CASE request[c].id = id
          <5>1. n' = n + 1
            BY <3>3, <4>1 DEF InsertChannel, Shape, TypeOK
          <5>2. Cardinality(I') <= Cardinality(I) - 1
            BY <1>5, <3>3, <4>1, Inserted
          <5> HIDE DEF I, n
          <5> QED
            BY <1>1, <1>2, <5>1, <5>2
        <4>2. CASE request[c].id # id
          <5>1. n' = n
            BY <3>3, <4>2 DEF InsertChannel, Shape, TypeOK
          <5> HIDE DEF I, n
          <5> QED
            BY <1>1, <1>2, <1>3, <5>1
        <4> QED
          BY <4>1, <4>2
      <3> QED
        BY <3>1, <3>2, <3>3, ChannelsStep DEF Shape, TypeOK
    <2> HIDE DEF G, I, n
    <2> QED
      BY <1>1, <1>2, <1>4, <2>1, <2>2
  <1> QED
    BY <1>7, <1>8, GrantsStep

\* A deleted platform does not come back and what it leaves behind only gets less,
\* whatever its deletion overlapped with.
THEOREM LeftoversOnlyShrink == Spec => LeftOnlyShrinks
  <1>1. ASSUME Shape, Finite, [Next]_vars, NEW id \in Ids, platforms[id].life = "gone"
        PROVE  platforms'[id].life = "gone" /\ Leftovers(id)' <= Leftovers(id)
    <2>1. Finite' /\ ~Present(id)
      BY <1>1, NextFinite DEF Present
    <2> QED
      BY <1>1, <2>1, GoneStaysGone, LeftShrinks
  <1>2. Shape /\ Finite /\ [Next]_vars =>
          [\A id \in Ids : platforms[id].life = "gone" =>
             platforms'[id].life = "gone" /\ Leftovers(id)' <= Leftovers(id)]_vars
    BY <1>1
  <1> QED
    BY InitShape, NextShape, InitFinite, NextFinite, <1>2, PTL DEF Spec, LeftOnlyShrinks

=============================================================================
