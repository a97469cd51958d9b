--------------------------- MODULE AdmissionProofs ---------------------------
(***************************************************************************)
(* Machine-checked proofs about Admission, for every number of requests,    *)
(* keys, quotas, rows, grants, rotations and faults, and every probe limit. *)
(***************************************************************************)
EXTENDS Admission, Counting

\* What a request carries from one of its statements to a later one.
RequestsOK ==
    \A h \in Handlers :
        /\ handler[h].pc # "idle" => handler[h].fp \in Keys
        /\ handler[h].pc \in {"count", "duplicate", "sequence", "probe", "insert"} =>
             handler[h].tag \in Tags
        /\ handler[h].pc \in {"probe", "insert"} =>
             /\ 0 < handler[h].seq /\ handler[h].seq <= Len(rows) + 1
             /\ 0 < handler[h].n

IInv ==
    /\ TypeOK
    /\ NumbersWithinCount
    /\ RequestsOK

-----------------------------------------------------------------------------
(* A step of one request. *)

\* Request h goes on as s, and the table is left alone.
Continues(h, s) ==
    /\ handler' = [handler EXCEPT ![h] = s]
    /\ UNCHANGED <<rows, grant, user, deleter, granter, grants>>

\* What IInv asks of the state s of a request, when there are len rows.
RequestOK(s, len) ==
    /\ s \in HandlerStates
    /\ s.pc # "idle" => s.fp \in Keys
    /\ s.pc \in {"count", "duplicate", "sequence", "probe", "insert"} => s.tag \in Tags
    /\ s.pc \in {"probe", "insert"} =>
         /\ 0 < s.seq /\ s.seq <= len + 1
         /\ 0 < s.n /\ s.n <= len + 1

LEMMA RequestFacts ==
    ASSUME IInv, NEW h \in Handlers
    PROVE  RequestOK(handler[h], Len(rows))
  BY DEF IInv, TypeOK, NumbersWithinCount, RequestsOK, RequestOK

\* Such a step preserves the invariant if the state it leads to is in order.
LEMMA ContinuesIInv ==
    ASSUME IInv, NEW h \in Handlers, NEW s, RequestOK(s, Len(rows)), Continues(h, s),
           rotations' \in Nat, faults' \in Nat, faults' <= MaxFaults
    PROVE  IInv'
<1>1. handler' \in [Handlers -> HandlerStates]
  BY DEF IInv, TypeOK, Continues, RequestOK
<1>2. \A g \in Handlers : handler'[g] = IF g = h THEN s ELSE handler[g]
  BY DEF IInv, TypeOK, Continues
<1>3. \A g \in Handlers : RequestOK(handler'[g], Len(rows))
  BY <1>2, RequestFacts
<1>4. rows' = rows
  BY DEF Continues
<1>5. QED
  BY <1>1, <1>3, <1>4, Zenon DEF IInv, TypeOK, NumbersWithinCount, RequestsOK, Continues, RequestOK

LEMMA NoGrantFacts == NoGrant \in GrantRows
  BY DEF GrantRows

\* The faults stay within their bound.
LEMMA FaultFacts ==
    ASSUME IInv, Fault
    PROVE  faults' \in Nat /\ faults' <= MaxFaults
  BY AdmissionAssumption DEF IInv, TypeOK, Fault

LEMMA IdleFacts ==
    ASSUME NEW len \in Nat
    PROVE  RequestOK(IdleHandler, len)
  BY DEF RequestOK, IdleHandler, HandlerStates

\* A row that keeps its name, whatever becomes of its key and its deletion.
LEMMA RowsIInv ==
    ASSUME IInv, rows' \in Seq(Rows), Len(rows') = Len(rows),
           \A i \in DOMAIN rows : rows'[i].name = rows[i].name,
           UNCHANGED <<handler, granter, grants, rotations, faults>>,
           grant' \in GrantRows, user' \in {"present", "gone"},
           deleter' \in 0 .. Len(Cascade)
    PROVE  IInv'
<1>1. DOMAIN rows' = DOMAIN rows
  BY DEF IInv, TypeOK
<1>2. TypeOK'
  BY <1>1 DEF IInv, TypeOK
<1>3. NumbersWithinCount'
  BY <1>1 DEF IInv, NumbersWithinCount
<1>4. RequestsOK'
  BY DEF IInv, RequestsOK
<1>5. QED
  BY <1>2, <1>3, <1>4 DEF IInv

-----------------------------------------------------------------------------
(* One step per action. *)

LEMMA AuthorizeIInv ==
    ASSUME IInv, NEW h \in Handlers, NEW k \in Keys, NEW t \in Tags, Authorize(h, k, t)
    PROVE  IInv'
<1> DEFINE s == [IdleHandler EXCEPT !.pc = "count", !.fp = k, !.tag = t, !.max = grant.max]
<1>1. grant.max \in Quotas \cup {0}
  BY DEF IInv, TypeOK, GrantRows, NoGrant
<1>2. IdleHandler \in HandlerStates
  BY DEF IdleHandler, HandlerStates
<1>3. s \in HandlerStates /\ s.pc = "count" /\ s.fp = k /\ s.tag = t
  BY <1>1, <1>2 DEF HandlerStates
<1>4. RequestOK(s, Len(rows))
  BY <1>3 DEF RequestOK
<1>5. Continues(h, s) /\ rotations' = rotations /\ faults' = faults
  BY DEF Authorize, Continues
<1>6. QED
  BY <1>4, <1>5, ContinuesIInv DEF IInv, TypeOK

\* A request that ends is in order.
LEMMA EndsIInv ==
    ASSUME IInv, NEW h \in Handlers, Ends(h),
           UNCHANGED <<rows, grant, user, deleter, granter, grants, rotations>>,
           faults' \in Nat, faults' <= MaxFaults
    PROVE  IInv'
<1>1. RequestOK(IdleHandler, Len(rows))
  BY IdleFacts DEF IInv, TypeOK
<1>2. Continues(h, IdleHandler)
  BY DEF Continues, Ends
<1>3. QED
  BY <1>1, <1>2, ContinuesIInv DEF IInv, TypeOK

\* So is one that only goes on to the next check.
LEMMA ChecksIInv ==
    ASSUME IInv, NEW h \in Handlers,
           handler[h].pc \in {"count", "duplicate"}, NEW p \in {"duplicate", "sequence"},
           handler' = [handler EXCEPT ![h].pc = p],
           UNCHANGED <<rows, grant, user, deleter, granter, grants, rotations>>,
           faults' \in Nat, faults' <= MaxFaults
    PROVE  IInv'
<1> DEFINE s == [handler[h] EXCEPT !.pc = p]
<1>1. RequestOK(handler[h], Len(rows))
  BY RequestFacts
<1>2. RequestOK(s, Len(rows))
  BY <1>1 DEF RequestOK, HandlerStates
<1>3. Continues(h, s)
  BY DEF Continues
<1> HIDE DEF s
<1>4. QED
  BY <1>2, <1>3, ContinuesIInv DEF IInv, TypeOK

LEMMA ReadSequenceIInv ==
    ASSUME IInv, NEW h \in Handlers, ReadSequence(h)
    PROVE  IInv'
<1> DEFINE n == Len(rows) + 1
<1> DEFINE s == [handler[h] EXCEPT !.pc = "probe", !.seq = n, !.n = n]
<1>1. n \in Nat /\ 0 < n /\ n <= Len(rows) + 1
  BY DEF IInv, TypeOK
<1>2. RequestOK(handler[h], Len(rows)) /\ handler[h].pc = "sequence"
  BY RequestFacts DEF ReadSequence
<1> HIDE DEF n
<1>3. s \in HandlerStates /\ s.fp = handler[h].fp /\ s.tag = handler[h].tag
      /\ s.seq = n /\ s.n = n
  BY <1>1, <1>2 DEF RequestOK, HandlerStates
<1>4. RequestOK(s, Len(rows))
  BY <1>1, <1>2, <1>3 DEF RequestOK
<1>5. Continues(h, s)
  BY DEF Continues, ReadSequence, NextChannelSeq, n
<1> HIDE DEF s
<1>6. rotations' \in Nat /\ faults' \in Nat /\ faults' <= MaxFaults
  BY DEF IInv, TypeOK, ReadSequence
<1>7. QED
  BY <1>4, <1>5, <1>6, ContinuesIInv

\* The number after one that is taken is at most one more than the rows: the
\* row that has it was inserted, and no row is numbered ahead of the table.
LEMMA ProbeIInv ==
    ASSUME IInv, NEW h \in Handlers, Probe(h)
    PROVE  IInv'
<1>1. /\ RequestOK(handler[h], Len(rows)) /\ handler[h].pc = "probe"
      /\ handler[h] \in HandlerStates
      /\ Len(rows) \in Nat
  BY RequestFacts DEF Probe, RequestOK, IInv, TypeOK
<1>2. rotations' \in Nat /\ faults' \in Nat /\ faults' <= MaxFaults
  BY DEF IInv, TypeOK, Probe
<1>3. CASE ~NameTaken(h)
  <2> DEFINE s == [handler[h] EXCEPT !.pc = "insert"]
  <2>1. RequestOK(s, Len(rows))
    BY <1>1 DEF RequestOK, HandlerStates
  <2>2. Continues(h, s)
    BY <1>3 DEF Continues, Probe
  <2> HIDE DEF s
  <2>3. QED
    BY <1>2, <2>1, <2>2, ContinuesIInv
<1>4. CASE NameTaken(h)
  <2> DEFINE m == Retried(h)
             p == IF Exhausted(h) THEN "insert" ELSE "probe"
             s == [handler[h] EXCEPT !.n = m, !.pc = p]
  <2>1. handler[h].n <= Len(rows)
    <3>1. PICK i \in DOMAIN rows :
            rows[i].name = [tag |-> handler[h].tag, n |-> handler[h].n]
      BY <1>4 DEF NameTaken
    <3>2. rows[i].name.n = handler[h].n /\ rows[i].name.n <= Len(rows)
      BY <3>1 DEF IInv, NumbersWithinCount
    <3>3. QED
      BY <3>2
  <2>2. m \in Nat /\ 0 < m /\ m <= Len(rows) + 1
    BY <1>1, <2>1, AdmissionAssumption DEF Retried, RequestOK, HandlerStates
  <2>3. p \in {"insert", "probe"}
    OBVIOUS
  <2>4. Continues(h, s)
    BY <1>4 DEF Continues, Probe
  <2> HIDE DEF m, p
  <2>5. s \in HandlerStates /\ s.fp = handler[h].fp /\ s.tag = handler[h].tag
        /\ s.seq = handler[h].seq /\ s.n = m
    BY <1>1, <2>2, <2>3 DEF HandlerStates
  <2>6. RequestOK(s, Len(rows))
    BY <1>1, <2>2, <2>5 DEF RequestOK
  <2> HIDE DEF s
  <2>7. QED
    BY <1>2, <2>4, <2>6, ContinuesIInv
<1>5. QED
  BY <1>3, <1>4

LEMMA InsertIInv ==
    ASSUME IInv, NEW h \in Handlers, Insert(h)
    PROVE  IInv'
<1> DEFINE r == [fp |-> handler[h].fp, live |-> TRUE,
                 name |-> [tag |-> handler[h].tag, n |-> handler[h].n]]
<1>1. RequestOK(handler[h], Len(rows)) /\ handler[h].pc = "insert"
  BY RequestFacts DEF Insert
<1>2. r \in Rows /\ r.name.n = handler[h].n
  BY <1>1 DEF RequestOK, Rows, Names, HandlerStates
<1>3. handler[h].n \in Nat /\ 0 < handler[h].n /\ handler[h].n <= Len(rows) + 1
  BY <1>1 DEF RequestOK, HandlerStates
<1>4. rows \in Seq(Rows) /\ rows' = Append(rows, r)
  BY DEF IInv, TypeOK, Insert
<1> HIDE DEF r
<1>5. /\ rows' \in Seq(Rows) /\ Len(rows') = Len(rows) + 1 /\ Len(rows) \in Nat
      /\ \A i \in DOMAIN rows' : rows'[i] = r \/ (i \in DOMAIN rows /\ rows'[i] = rows[i])
  BY <1>2, <1>4
<1>6. \A i \in DOMAIN rows' : 0 < rows'[i].name.n /\ rows'[i].name.n <= Len(rows')
  <2>1. SUFFICES ASSUME NEW i \in DOMAIN rows'
                 PROVE  0 < rows'[i].name.n /\ rows'[i].name.n <= Len(rows')
    OBVIOUS
  <2>2. CASE rows'[i] = r
    BY <1>2, <1>3, <1>5, <2>2
  <2>3. CASE i \in DOMAIN rows /\ rows'[i] = rows[i]
    <3>1. rows[i] \in Rows
      BY <1>4, <2>3
    <3>2. rows[i].name.n \in Nat /\ 0 < rows[i].name.n /\ rows[i].name.n <= Len(rows)
      BY <2>3, <3>1 DEF IInv, TypeOK, NumbersWithinCount, Rows, Names
    <3>3. QED
      BY <1>5, <2>3, <3>2
  <2>4. QED
    BY <1>5, <2>2, <2>3
<1>7. handler' \in [Handlers -> HandlerStates]
      /\ \A g \in Handlers : handler'[g] = IF g = h THEN IdleHandler ELSE handler[g]
  BY IdleFacts, <1>5 DEF IInv, TypeOK, Insert, Ends, RequestOK
<1>8. \A g \in Handlers : RequestOK(handler'[g], Len(rows'))
  <2>1. SUFFICES ASSUME NEW g \in Handlers PROVE RequestOK(handler'[g], Len(rows'))
    OBVIOUS
  <2>2. CASE g = h
    BY <1>5, <1>7, <2>2, IdleFacts
  <2>3. CASE g # h
    <3>1. handler'[g] = handler[g] /\ RequestOK(handler[g], Len(rows))
      BY <1>7, <2>3, RequestFacts
    <3>2. QED
      BY <1>5, <3>1 DEF RequestOK, HandlerStates
  <2>4. QED
    BY <2>2, <2>3
<1>9. TypeOK'
  BY <1>5, <1>6, <1>7 DEF IInv, TypeOK, Insert
<1>10. NumbersWithinCount'
  BY <1>6, <1>8 DEF NumbersWithinCount, RequestOK
<1>11. RequestsOK'
  BY <1>8 DEF RequestsOK, RequestOK
<1>12. QED
  BY <1>9, <1>10, <1>11 DEF IInv

LEMMA BeginRotateIInv ==
    ASSUME IInv, NEW h \in Handlers, NEW i \in DOMAIN rows, NEW k \in Keys,
           BeginRotate(h, i, k)
    PROVE  IInv'
<1> DEFINE s == [IdleHandler EXCEPT !.pc = "rotate", !.id = i, !.fp = k]
<1>1. i \in Nat
  BY DEF IInv, TypeOK
<1>2. IdleHandler \in HandlerStates
  BY DEF IdleHandler, HandlerStates
<1>3. s \in HandlerStates /\ s.pc = "rotate" /\ s.fp = k
  BY <1>1, <1>2 DEF HandlerStates
<1>4. RequestOK(s, Len(rows))
  BY <1>3 DEF RequestOK
<1>5. Continues(h, s) /\ rotations' \in Nat /\ faults' = faults
  BY DEF IInv, TypeOK, BeginRotate, Continues
<1>6. QED
  BY <1>4, <1>5, ContinuesIInv DEF IInv, TypeOK

\* A rotation changes a fingerprint, then the request ends.
LEMMA RotateIInv ==
    ASSUME IInv, NEW h \in Handlers, Rotate(h)
    PROVE  IInv'
<1>1. rows \in Seq(Rows) /\ handler[h].fp \in Keys /\ Len(rows) \in Nat
  BY DEF IInv, TypeOK, RequestsOK, Rotate
<1>2. /\ rows' \in Seq(Rows) /\ Len(rows') = Len(rows) /\ DOMAIN rows' = DOMAIN rows
      /\ \A i \in DOMAIN rows : rows'[i].name = rows[i].name
  <2>1. CASE handler[h].id \in Live
    <3> DEFINE j == handler[h].id
    <3>1. j \in DOMAIN rows /\ rows' = [rows EXCEPT ![j] = [rows[j] EXCEPT !.fp = handler[h].fp]]
      BY <2>1 DEF Rotate, Live
    <3>2. rows[j] \in Rows
      BY <1>1, <3>1
    <3>3. [rows[j] EXCEPT !.fp = handler[h].fp] \in Rows
          /\ [rows[j] EXCEPT !.fp = handler[h].fp].name = rows[j].name
      BY <1>1, <3>2 DEF Rows
    <3> HIDE DEF j
    <3>4. QED
      BY <1>1, <3>1, <3>3
  <2>2. CASE handler[h].id \notin Live
    BY <1>1, <2>2 DEF Rotate
  <2>3. QED
    BY <2>1, <2>2
<1>3. handler' \in [Handlers -> HandlerStates]
      /\ \A g \in Handlers : handler'[g] = IF g = h THEN IdleHandler ELSE handler[g]
  BY <1>1, IdleFacts DEF IInv, TypeOK, Rotate, Ends, RequestOK
<1>4. \A g \in Handlers : RequestOK(handler'[g], Len(rows'))
  BY <1>1, <1>2, <1>3, RequestFacts, IdleFacts
<1>5. TypeOK'
  BY <1>2, <1>3 DEF IInv, TypeOK, Rotate
<1>6. NumbersWithinCount'
  BY <1>2, <1>4 DEF IInv, NumbersWithinCount, RequestOK
<1>7. RequestsOK'
  BY <1>4 DEF RequestsOK, RequestOK
<1>8. QED
  BY <1>5, <1>6, <1>7 DEF IInv

LEMMA DeleteChannelIInv ==
    ASSUME IInv, NEW i \in DOMAIN rows, DeleteChannel(i)
    PROVE  IInv'
<1>1. rows \in Seq(Rows) /\ rows[i] \in Rows
  BY DEF IInv, TypeOK
<1>2. [rows[i] EXCEPT !.live = FALSE] \in Rows
      /\ [rows[i] EXCEPT !.live = FALSE].name = rows[i].name
  BY <1>1 DEF Rows
<1>3. rows' = [rows EXCEPT ![i] = [rows[i] EXCEPT !.live = FALSE]]
  BY DEF DeleteChannel
<1>4. /\ rows' \in Seq(Rows) /\ Len(rows') = Len(rows)
      /\ \A j \in DOMAIN rows : rows'[j].name = rows[j].name
  BY <1>1, <1>2, <1>3
<1>5. QED
  BY <1>4, RowsIInv DEF IInv, TypeOK, DeleteChannel

LEMMA DeleteUserStepIInv ==
    ASSUME IInv, DeleteUserStep
    PROVE  IInv'
<1>1. rows \in Seq(Rows) /\ \A i \in DOMAIN rows : rows[i] \in Rows
  BY DEF IInv, TypeOK
<1>2. /\ rows' \in Seq(Rows) /\ Len(rows') = Len(rows)
      /\ \A i \in DOMAIN rows : rows'[i].name = rows[i].name
  <2>1. \A i \in DOMAIN rows : /\ [rows[i] EXCEPT !.live = FALSE] \in Rows
                               /\ [rows[i] EXCEPT !.live = FALSE].name = rows[i].name
    BY <1>1 DEF Rows
  <2>2. CASE rows' = [i \in DOMAIN rows |-> [rows[i] EXCEPT !.live = FALSE]]
    <3>1. \A i \in DOMAIN rows : rows'[i] \in Rows /\ rows'[i].name = rows[i].name
      BY <2>1, <2>2
    <3>2. DOMAIN rows' = 1 .. Len(rows) /\ rows' = [i \in 1 .. Len(rows) |-> rows'[i]]
      BY <1>1, <2>2
    <3>3. QED
      BY <1>1, <3>1, <3>2
  <2>3. CASE rows' = rows
    BY <1>1, <2>3
  <2>4. QED
    BY <2>2, <2>3 DEF DeleteUserStep
<1>3. grant' \in GrantRows /\ user' \in {"present", "gone"}
  BY NoGrantFacts DEF IInv, TypeOK, DeleteUserStep
<1>4. deleter' \in 0 .. Len(Cascade)
  BY DEF IInv, TypeOK, DeleteUserStep, Cascade
<1>5. QED
  BY <1>2, <1>3, <1>4, RowsIInv DEF DeleteUserStep

-----------------------------------------------------------------------------
LEMMA InitIInv == Init => IInv
<1>1. SUFFICES ASSUME Init PROVE IInv
  OBVIOUS
<1>2. \A h \in Handlers : RequestOK(handler[h], Len(rows))
  BY <1>1, IdleFacts DEF Init
<1>3. TypeOK
  <2>1. rows \in Seq(Rows) /\ \A i \in DOMAIN rows : rows[i].name.n > 0
    BY <1>1 DEF Init
  <2>2. handler \in [Handlers -> HandlerStates]
    BY <1>1, <1>2 DEF Init, RequestOK
  <2>3. granter \in [pc : {"idle", "find", "create", "update"}, row : GrantRows]
    BY <1>1, NoGrantFacts DEF Init
  <2>4. grant \in GrantRows /\ user \in {"present", "gone"} /\ deleter = 0
        /\ grants = 0 /\ rotations = 0 /\ faults = 0
    BY <1>1 DEF Init
  <2>5. deleter \in 0 .. Len(Cascade) /\ grants \in Nat /\ rotations \in Nat
        /\ faults \in Nat /\ faults <= MaxFaults
    BY <2>4, AdmissionAssumption DEF Cascade
  <2>6. QED
    BY <2>1, <2>2, <2>3, <2>4, <2>5 DEF TypeOK
<1>4. NumbersWithinCount /\ RequestsOK
  BY <1>1, <1>2 DEF Init, NumbersWithinCount, RequestsOK, RequestOK
<1>5. QED
  BY <1>3, <1>4 DEF IInv

LEMMA NextIInv ==
    ASSUME IInv, [Next]_vars
    PROVE  IInv'
<1> USE DEF IInv, TypeOK
<1>1. ASSUME NEW h \in Handlers, HandlerSteps(h) PROVE IInv'
  <2>1. CASE CheckQuota(h)
    BY <2>1, EndsIInv, ChecksIInv DEF CheckQuota
  <2>2. CASE CheckDuplicate(h)
    BY <2>2, EndsIInv, ChecksIInv DEF CheckDuplicate
  <2>3. QED
    BY <1>1, <2>1, <2>2, ReadSequenceIInv, ProbeIInv, InsertIInv, RotateIInv
       DEF HandlerSteps
<1>2. ASSUME NEW h \in Handlers, CheckFails(h) PROVE IInv'
  <2>1. faults' \in Nat /\ faults' <= MaxFaults
    BY <1>2, FaultFacts DEF CheckFails
  <2>2. QED
    BY <1>2, <2>1, ChecksIInv DEF CheckFails
<1>3. ASSUME NEW h \in Handlers, StatementFails(h) PROVE IInv'
  <2>1. faults' \in Nat /\ faults' <= MaxFaults
    BY <1>3, FaultFacts DEF StatementFails
  <2>2. QED
    BY <1>3, <2>1, EndsIInv DEF StatementFails
<1>4. ASSUME NEW g \in GrantRows, UpsertBegin(g) PROVE IInv'
  BY <1>4 DEF UpsertBegin, NumbersWithinCount, RequestsOK
<1>5. CASE UpsertFind
  BY <1>5 DEF UpsertFind, NumbersWithinCount, RequestsOK
<1>6. CASE UpsertWrite
  <2>1. grant' \in GrantRows
        /\ granter' \in [pc : {"idle", "find", "create", "update"}, row : GrantRows]
    BY <1>6, NoGrantFacts DEF UpsertWrite
  <2>2. QED
    BY <1>6, <2>1 DEF UpsertWrite, NumbersWithinCount, RequestsOK
<1>7. CASE DeleteGrant
  BY <1>7, NoGrantFacts DEF DeleteGrant, NumbersWithinCount, RequestsOK
<1>8. CASE DeleteUserBegin
  BY <1>8 DEF DeleteUserBegin, NumbersWithinCount, RequestsOK, Cascade
<1>9. CASE DeleteUserFails
  BY <1>9, FaultFacts DEF DeleteUserFails, NumbersWithinCount, RequestsOK, Cascade
<1>10. CASE UNCHANGED vars
  BY <1>10 DEF vars, NumbersWithinCount, RequestsOK
<1>11. QED
  BY <1>1, <1>2, <1>3, <1>4, <1>5, <1>6, <1>7, <1>8, <1>9, <1>10,
     AuthorizeIInv, BeginRotateIInv, DeleteChannelIInv, DeleteUserStepIInv DEF Next

\* The inductive invariant: the stated ones and what requests carry.
THEOREM InvariantHolds == Spec => []IInv
  BY InitIInv, NextIInv, PTL DEF Spec

\* Tables and requests keep their types, numbers are 1-based.
THEOREM TypeCorrect == Spec => []TypeOK
<1>1. IInv => TypeOK
  BY DEF IInv
<1>2. QED
  BY <1>1, InvariantHolds, PTL

\* However many requests number their rows from stale counts, no row is
\* numbered ahead of the table (generateChannelName,
\* controller/supplier_channel.go:333-362).
THEOREM NumbersStayWithinCount == Spec => []NumbersWithinCount
<1>1. IInv => NumbersWithinCount
  BY DEF IInv
<1>2. QED
  BY <1>1, InvariantHolds, PTL

-----------------------------------------------------------------------------
(* Counting rows and requests. *)

\* Requests that have passed the look for duplicates with key k, or were never
\* going to look: each may still put k on a row.
Carrying(k) ==
    {h \in Handlers : /\ handler[h].pc \in {"sequence", "probe", "insert", "rotate"}
                      /\ handler[h].fp = k}

LEMMA RowsCounted ==
    ASSUME IInv
    PROVE  /\ IsFiniteSet(Live) /\ Cardinality(Live) \in Nat
           /\ \A k \in Keys : IsFiniteSet(SameKey(k)) /\ Cardinality(SameKey(k)) \in Nat
<1>1. IsFiniteSet(1 .. Len(rows)) /\ DOMAIN rows = 1 .. Len(rows)
  BY FS_Interval DEF IInv, TypeOK
<1>2. Live \subseteq 1 .. Len(rows) /\ \A k \in Keys : SameKey(k) \subseteq Live
  BY <1>1 DEF Live, SameKey
<1>3. IsFiniteSet(Live) /\ Cardinality(Live) \in Nat
  BY <1>1, <1>2, CountSubset
<1>4. QED
  BY <1>2, <1>3, CountSubset

LEMMA RequestsCounted ==
    ASSUME NEW S, S \subseteq Handlers
    PROVE  /\ IsFiniteSet(S) /\ Cardinality(S) \in Nat
           /\ Cardinality(Handlers) \in Nat
           /\ Cardinality(S) <= Cardinality(Handlers)
BY AdmissionAssumption, CountSubset

-----------------------------------------------------------------------------
(* What a step does to rows and requests. *)

LEMMA InsertRows ==
    ASSUME IInv, NEW h \in Handlers, Insert(h)
    PROVE  /\ Live' \subseteq Live \cup {Len(rows) + 1}
           /\ \A k \in Keys : SameKey(k)' \subseteq
                SameKey(k) \cup {i \in {Len(rows) + 1} : handler[h].fp = k}
<1> DEFINE r == [fp |-> handler[h].fp, live |-> TRUE,
                 name |-> [tag |-> handler[h].tag, n |-> handler[h].n]]
<1>1. r.fp = handler[h].fp
  OBVIOUS
<1>2. rows \in Seq(Rows) /\ rows' = Append(rows, r)
  BY DEF IInv, TypeOK, Insert
<1> HIDE DEF r
<1>3. \A i \in DOMAIN rows' : \/ i = Len(rows) + 1 /\ rows'[i] = r
                              \/ i \in DOMAIN rows /\ rows'[i] = rows[i]
  BY <1>2
<1>4. QED
  BY <1>1, <1>3 DEF Live, SameKey

LEMMA RotateRows ==
    ASSUME IInv, NEW h \in Handlers, Rotate(h)
    PROVE  /\ Live' \subseteq Live
           /\ \A k \in Keys : SameKey(k)' \subseteq
                SameKey(k) \cup {i \in {handler[h].id} : handler[h].fp = k}
<1>1. \A i \in DOMAIN rows : rows[i] \in Rows
  BY DEF IInv, TypeOK
<1>2. DOMAIN rows' = DOMAIN rows
  BY DEF Rotate
<1>3. \A i \in DOMAIN rows :
        /\ rows'[i].live = rows[i].live
        /\ rows'[i].fp = rows[i].fp \/ (i = handler[h].id /\ rows'[i].fp = handler[h].fp)
  BY <1>1 DEF Rotate, Live, Rows
<1>4. QED
  BY <1>2, <1>3 DEF Live, SameKey

\* Every other step leaves the rows as they are or deletes some.
LEMMA OtherRows ==
    ASSUME IInv, [Next]_vars
    PROVE  \/ \E h \in Handlers : Insert(h) \/ Rotate(h)
           \/ /\ Live' \subseteq Live
              /\ \A k \in Keys : SameKey(k)' \subseteq SameKey(k)
<1> DEFINE Shrinks == /\ Live' \subseteq Live
                      /\ \A k \in Keys : SameKey(k)' \subseteq SameKey(k)
<1>1. \A i \in DOMAIN rows : rows[i] \in Rows
  BY DEF IInv, TypeOK
<1>2. ASSUME rows' = rows PROVE Shrinks
  BY <1>2 DEF Live, SameKey
<1>3. ASSUME NEW i \in DOMAIN rows, DeleteChannel(i) PROVE Shrinks
  <2>1. DOMAIN rows' = DOMAIN rows
    BY <1>3 DEF DeleteChannel
  <2>2. \A j \in DOMAIN rows : /\ rows'[j].live => rows[j].live
                               /\ rows'[j].fp = rows[j].fp
    BY <1>1, <1>3 DEF DeleteChannel, Live, Rows
  <2>3. QED
    BY <2>1, <2>2 DEF Live, SameKey
<1>4. ASSUME DeleteUserStep PROVE Shrinks
  <2>1. CASE rows' = [i \in DOMAIN rows |-> [rows[i] EXCEPT !.live = FALSE]]
    <3>1. DOMAIN rows' = DOMAIN rows /\ \A i \in DOMAIN rows : ~rows'[i].live
      BY <1>1, <2>1 DEF Rows
    <3>2. QED
      BY <3>1 DEF Live, SameKey
  <2>2. QED
    BY <1>2, <1>4, <2>1 DEF DeleteUserStep
<1>5. \/ rows' = rows
      \/ \E h \in Handlers : Insert(h) \/ Rotate(h)
      \/ \E i \in DOMAIN rows : DeleteChannel(i)
      \/ DeleteUserStep
  BY Zenon DEF Next, HandlerSteps, vars, Authorize, CheckQuota, CheckDuplicate, ReadSequence,
     Probe, CheckFails, StatementFails, BeginRotate, UpsertBegin, UpsertFind,
     UpsertWrite, DeleteGrant, DeleteUserBegin, DeleteUserFails
<1> HIDE DEF Shrinks
<1>6. Shrinks \/ \E h \in Handlers : Insert(h) \/ Rotate(h)
  BY <1>2, <1>3, <1>4, <1>5
<1>7. QED
  BY <1>6 DEF Shrinks

\* Of a step of request h, the state the request goes to.
Goes(h, s) ==
    /\ s \in HandlerStates
    /\ \A g \in Handlers : handler'[g] = IF g = h THEN s ELSE handler[g]

LEMMA EndsGoes ==
    ASSUME IInv, NEW h \in Handlers, Ends(h)
    PROVE  Goes(h, IdleHandler)
BY DEF IInv, TypeOK, Ends, Goes, IdleHandler, HandlerStates

LEMMA CountersGrow ==
    ASSUME IInv, [Next]_vars
    PROVE  /\ faults' \in Nat /\ faults <= faults' /\ faults \in Nat
           /\ rotations' \in Nat /\ rotations <= rotations' /\ rotations \in Nat
           /\ Fault => faults' = faults + 1
<1>1. faults \in Nat /\ rotations \in Nat
  BY DEF IInv, TypeOK
<1>2. /\ faults' = faults \/ faults' = faults + 1
      /\ rotations' = rotations \/ rotations' = rotations + 1
  BY DEF Next, vars, HandlerSteps, Authorize, CheckQuota, CheckDuplicate, ReadSequence,
     Probe, Insert, Rotate, CheckFails, StatementFails, BeginRotate, DeleteChannel,
     UpsertBegin, UpsertFind, UpsertWrite, DeleteGrant, DeleteUserBegin, DeleteUserStep,
     DeleteUserFails, Fault
<1>3. QED
  BY <1>1, <1>2 DEF Fault
\* The kinds of step a request takes to state s, other than to its end.
Begins(h, s) ==
    /\ handler[h].pc = "idle"
    /\ grant.state = "enabled"
    /\ \/ s.pc = "count" /\ s.max = grant.max
       \/ s.pc = "rotate" /\ rotations' = rotations + 1

PassesQuota(h, s) ==
    /\ handler[h].pc = "count" /\ s.pc = "duplicate"
    /\ WithinQuota(h) \/ faults' = faults + 1

PassesDuplicate(h, s) ==
    /\ handler[h].pc = "duplicate" /\ s.pc = "sequence" /\ s.fp = handler[h].fp
    /\ ~IsDuplicate(h) \/ faults' = faults + 1

Numbers(h, s) ==
    /\ handler[h].pc \in {"sequence", "probe"} /\ s.pc \in {"probe", "insert"}
    /\ s.fp = handler[h].fp

Steps(h, s) ==
    \/ s = IdleHandler
    \/ Begins(h, s)
    \/ PassesQuota(h, s)
    \/ PassesDuplicate(h, s)
    \/ Numbers(h, s)

LEMMA HandlerGoes ==
    ASSUME IInv, NEW h \in Handlers, NEW s \in HandlerStates,
           handler' = [handler EXCEPT ![h] = s]
    PROVE  Goes(h, s)
BY DEF IInv, TypeOK, Goes

LEMMA BeginStep ==
    ASSUME IInv, NEW h \in Handlers,
           \/ \E k \in Keys, t \in Tags : Authorize(h, k, t)
           \/ \E i \in DOMAIN rows, k \in Keys : BeginRotate(h, i, k)
    PROVE  \E s : Goes(h, s) /\ Steps(h, s)
<1>1. IdleHandler \in HandlerStates
  BY DEF IdleHandler, HandlerStates
<1>2. ASSUME NEW k \in Keys, NEW t \in Tags, Authorize(h, k, t)
      PROVE  \E s : Goes(h, s) /\ Steps(h, s)
  <2> DEFINE s == [IdleHandler EXCEPT !.pc = "count", !.fp = k, !.tag = t, !.max = grant.max]
  <2>1. grant.max \in Quotas \cup {0}
    BY DEF IInv, TypeOK, GrantRows, NoGrant
  <2>2. s \in HandlerStates /\ s.pc = "count" /\ s.max = grant.max
    BY <1>1, <2>1 DEF HandlerStates
  <2>3. handler' = [handler EXCEPT ![h] = s]
    BY <1>2 DEF Authorize
  <2> HIDE DEF s
  <2>4. Goes(h, s) /\ Begins(h, s)
    BY <1>2, <2>2, <2>3, HandlerGoes DEF Authorize, Begins
  <2>5. QED
    BY <2>4 DEF Steps
<1>3. ASSUME NEW i \in DOMAIN rows, NEW k \in Keys, BeginRotate(h, i, k)
      PROVE  \E s : Goes(h, s) /\ Steps(h, s)
  <2> DEFINE s == [IdleHandler EXCEPT !.pc = "rotate", !.id = i, !.fp = k]
  <2>1. i \in Nat
    BY DEF IInv, TypeOK
  <2>2. s \in HandlerStates /\ s.pc = "rotate"
    BY <1>1, <2>1 DEF HandlerStates
  <2>3. handler' = [handler EXCEPT ![h] = s]
    BY <1>3 DEF BeginRotate
  <2> HIDE DEF s
  <2>4. Goes(h, s) /\ Begins(h, s)
    BY <1>3, <2>2, <2>3, HandlerGoes DEF BeginRotate, Begins
  <2>5. QED
    BY <2>4 DEF Steps
<1>4. QED
  BY <1>2, <1>3

LEMMA CheckStep ==
    ASSUME IInv, NEW h \in Handlers, CheckQuota(h) \/ CheckDuplicate(h) \/ CheckFails(h)
    PROVE  \E s : Goes(h, s) /\ Steps(h, s)
<1>1. handler[h] \in HandlerStates
  BY DEF IInv, TypeOK
<1>2. ASSUME NEW p \in {"duplicate", "sequence"}
      PROVE  LET s == [handler[h] EXCEPT !.pc = p]
             IN  s \in HandlerStates /\ s.pc = p /\ s.fp = handler[h].fp
  BY <1>1 DEF HandlerStates
<1>3. ASSUME Ends(h) PROVE \E s : Goes(h, s) /\ Steps(h, s)
  BY <1>3, EndsGoes DEF Steps
<1>4. ASSUME handler[h].pc = "count", handler' = [handler EXCEPT ![h].pc = "duplicate"],
             WithinQuota(h) \/ faults' = faults + 1
      PROVE  \E s : Goes(h, s) /\ Steps(h, s)
  <2> DEFINE s == [handler[h] EXCEPT !.pc = "duplicate"]
  <2>1. s \in HandlerStates /\ s.pc = "duplicate"
    BY <1>2
  <2>2. handler' = [handler EXCEPT ![h] = s]
    BY <1>4
  <2> HIDE DEF s
  <2>3. Goes(h, s) /\ PassesQuota(h, s)
    BY <1>4, <2>1, <2>2, HandlerGoes DEF PassesQuota
  <2>4. QED
    BY <2>3 DEF Steps
<1>5. ASSUME handler[h].pc = "duplicate", handler' = [handler EXCEPT ![h].pc = "sequence"],
             ~IsDuplicate(h) \/ faults' = faults + 1
      PROVE  \E s : Goes(h, s) /\ Steps(h, s)
  <2> DEFINE s == [handler[h] EXCEPT !.pc = "sequence"]
  <2>1. s \in HandlerStates /\ s.pc = "sequence" /\ s.fp = handler[h].fp
    BY <1>2
  <2>2. handler' = [handler EXCEPT ![h] = s]
    BY <1>5
  <2> HIDE DEF s
  <2>3. Goes(h, s) /\ PassesDuplicate(h, s)
    BY <1>5, <2>1, <2>2, HandlerGoes DEF PassesDuplicate
  <2>4. QED
    BY <2>3 DEF Steps
<1>6. QED
  BY <1>3, <1>4, <1>5 DEF CheckQuota, CheckDuplicate, CheckFails, Fault

LEMMA NumberStep ==
    ASSUME IInv, NEW h \in Handlers, ReadSequence(h) \/ Probe(h)
    PROVE  \E s : Goes(h, s) /\ Steps(h, s)
<1>1. /\ RequestOK(handler[h], Len(rows)) /\ handler[h] \in HandlerStates
      /\ Len(rows) \in Nat
  BY RequestFacts DEF RequestOK, IInv, TypeOK
<1>2. ASSUME NEW m \in Nat, NEW j \in Nat, NEW p \in {"probe", "insert"},
             handler[h].pc \in {"sequence", "probe"},
             handler' = [handler EXCEPT ![h] = [handler[h] EXCEPT !.pc = p, !.seq = j, !.n = m]]
      PROVE  \E s : Goes(h, s) /\ Steps(h, s)
  <2> DEFINE s == [handler[h] EXCEPT !.pc = p, !.seq = j, !.n = m]
  <2>1. s \in HandlerStates /\ s.pc = p /\ s.fp = handler[h].fp
    BY <1>1 DEF HandlerStates
  <2>2. handler' = [handler EXCEPT ![h] = s]
    BY <1>2
  <2> HIDE DEF s
  <2>3. Goes(h, s) /\ Numbers(h, s)
    BY <1>2, <2>1, <2>2, HandlerGoes DEF Numbers
  <2>4. QED
    BY <2>3 DEF Steps
<1>3. handler[h].n \in Nat /\ handler[h].seq \in Nat /\ Retried(h) \in Nat
      /\ NextChannelSeq \in Nat
  BY <1>1 DEF HandlerStates, Retried, NextChannelSeq
<1>4. CASE ReadSequence(h)
  <2>1. handler' = [handler EXCEPT ![h] = [handler[h] EXCEPT !.pc = "probe",
                                     !.seq = NextChannelSeq, !.n = NextChannelSeq]]
    BY <1>4 DEF ReadSequence
  <2>2. QED
    BY <1>2, <1>3, <1>4, <2>1 DEF ReadSequence
<1>5. CASE Probe(h)
  <2> DEFINE p == IF ~NameTaken(h) \/ Exhausted(h) THEN "insert" ELSE "probe"
             m == IF NameTaken(h) THEN Retried(h) ELSE handler[h].n
  <2>1. handler' = [handler EXCEPT ![h] = [handler[h] EXCEPT !.pc = p,
                                     !.seq = handler[h].seq, !.n = m]]
    BY <1>1, <1>5 DEF Probe, HandlerStates
  <2>2. p \in {"probe", "insert"} /\ m \in Nat
    BY <1>3
  <2> HIDE DEF p, m
  <2>3. QED
    BY <1>2, <1>3, <1>5, <2>1, <2>2 DEF Probe
<1>6. QED
  BY <1>4, <1>5

\* Every step of the system, by what it does to the requests.
LEMMA RequestStep ==
    ASSUME IInv, [Next]_vars
    PROVE  \/ handler' = handler
           \/ \E h \in Handlers : \E s : Goes(h, s) /\ Steps(h, s)
<1>1. ASSUME NEW h \in Handlers, Ends(h) PROVE \E s : Goes(h, s) /\ Steps(h, s)
  BY <1>1, EndsGoes DEF Steps
<1>2. ASSUME NEW h \in Handlers, Insert(h) \/ Rotate(h) \/ StatementFails(h)
      PROVE  \E s : Goes(h, s) /\ Steps(h, s)
  BY <1>1, <1>2 DEF Insert, Rotate, StatementFails
<1>3. \/ handler' = handler
      \/ \E h \in Handlers :
           \/ Insert(h) \/ Rotate(h) \/ StatementFails(h)
           \/ \E k \in Keys, t \in Tags : Authorize(h, k, t)
           \/ \E i \in DOMAIN rows, k \in Keys : BeginRotate(h, i, k)
           \/ CheckQuota(h) \/ CheckDuplicate(h) \/ CheckFails(h)
           \/ ReadSequence(h) \/ Probe(h)
  BY Zenon DEF Next, vars, HandlerSteps, DeleteChannel, UpsertBegin, UpsertFind, UpsertWrite,
     DeleteGrant, DeleteUserBegin, DeleteUserStep, DeleteUserFails
<1>4. QED
  BY <1>2, <1>3, BeginStep, CheckStep, NumberStep
\* A request that writes a row ends; of the others one takes a step, or none.
LEMMA StepKinds ==
    ASSUME IInv, [Next]_vars
    PROVE  \/ \E h \in Handlers : (Insert(h) \/ Rotate(h)) /\ Goes(h, IdleHandler)
           \/ /\ Live' \subseteq Live
              /\ \A k \in Keys : SameKey(k)' \subseteq SameKey(k)
              /\ \/ handler' = handler
                 \/ \E h \in Handlers : \E s : Goes(h, s) /\ Steps(h, s)
<1>1. ASSUME NEW h \in Handlers, Insert(h) \/ Rotate(h) PROVE Goes(h, IdleHandler)
  BY <1>1, EndsGoes DEF Insert, Rotate
<1>2. QED
  BY <1>1, OtherRows, RequestStep

-----------------------------------------------------------------------------
(* The quota. *)

\* Requests wait for the count with a quota that an administrator gave.
CountsQuota ==
    \A h \in Handlers : handler[h].pc = "count" => handler[h].max \in Quotas

QuotaInv == (0 \notin Quotas /\ Quotas # {}) => CountsQuota /\ QuotaOvershootBounded

LEMMA CountsQuotaStep ==
    ASSUME IInv, CountsQuota, [Next]_vars
    PROVE  CountsQuota'
<1>1. grant.state = "enabled" => grant.max \in Quotas
  BY DEF IInv, TypeOK, GrantRows, NoGrant
<1>2. ASSUME NEW h \in Handlers, Goes(h, IdleHandler) PROVE CountsQuota'
  BY <1>2 DEF CountsQuota, Goes, IdleHandler
<1>3. ASSUME NEW h \in Handlers, NEW s, Goes(h, s), Steps(h, s) PROVE CountsQuota'
  BY <1>1, <1>2, <1>3
     DEF CountsQuota, Goes, Steps, Begins, PassesQuota, PassesDuplicate, Numbers
<1>4. QED
  BY <1>2, <1>3, StepKinds DEF CountsQuota

\* What a step of one request does to those past the count.
LEMMA InsertingStep ==
    ASSUME IInv, NEW h \in Handlers, NEW s, Goes(h, s)
    PROVE  /\ Inserting' \subseteq Inserting \cup {h}
           /\ s = IdleHandler => Inserting' \subseteq Inserting \ {h}
           /\ Steps(h, s) => Inserting' \subseteq Inserting \/ PassesQuota(h, s)
BY DEF Inserting, Goes, Steps, Begins, PassesDuplicate, Numbers, IdleHandler

LEMMA QuotaStep ==
    ASSUME IInv, CountsQuota, QuotaOvershootBounded, 0 \notin Quotas, Quotas # {}, [Next]_vars
    PROVE  QuotaOvershootBounded'
<1> DEFINE L == Cardinality(Live)
           I == Cardinality(Inserting)
           H == Cardinality(Handlers)
<1>1. PICK q \in Quotas : L + I < q + H + faults
  BY DEF QuotaOvershootBounded
<1>2. /\ L \in Nat /\ I \in Nat /\ H \in Nat /\ q \in Nat /\ I <= H
      /\ IsFiniteSet(Live) /\ IsFiniteSet(Inserting)
  BY RowsCounted, RequestsCounted, AdmissionAssumption DEF Inserting
<1>3. /\ faults' \in Nat /\ faults <= faults' /\ faults \in Nat
  BY CountersGrow
<1>4. I' \in Nat /\ I' <= H
  <2>1. Inserting' \subseteq Handlers
    BY DEF Inserting
  <2>2. QED
    BY <2>1, RequestsCounted
<1>5. SUFFICES \E r \in Quotas : L' + I' < r + H + faults'
  BY DEF QuotaOvershootBounded
<1>6. CASE \E h \in Handlers : Insert(h) /\ Goes(h, IdleHandler)
  <2>1. PICK h \in Handlers : Insert(h) /\ Goes(h, IdleHandler)
    BY <1>6
  <2>2. L' \in Nat /\ L' <= L + 1
    BY <1>2, <2>1, InsertRows, CountAdded
  <2>3. h \in Inserting
    BY <2>1 DEF Inserting, Insert
  <2>4. I' + 1 <= I
    BY <1>2, <2>1, <2>3, InsertingStep, CountRemoved
  <2>5. QED
    BY <1>1, <1>2, <1>3, <1>4, <2>2, <2>4
<1>7. CASE Live' \subseteq Live /\ Inserting' \subseteq Inserting
  <2>1. L' \in Nat /\ L' <= L /\ I' <= I
    BY <1>2, <1>7, CountSubset
  <2>2. QED
    BY <1>1, <1>2, <1>3, <1>4, <2>1
<1>8. ASSUME Live' \subseteq Live, NEW h \in Handlers, NEW s, Goes(h, s), PassesQuota(h, s)
      PROVE  \E r \in Quotas : L' + I' < r + H + faults'
  <2>1. L' \in Nat /\ L' <= L
    BY <1>2, <1>8, CountSubset
  <2>2. CASE WithinQuota(h)
    <3>1. handler[h].max \in Quotas /\ handler[h].max \in Nat /\ handler[h].max # 0
      BY <1>8, AdmissionAssumption DEF PassesQuota, CountsQuota
    <3>2. L < handler[h].max
      BY <2>2, <3>1 DEF WithinQuota
    <3>3. QED
      BY <1>2, <1>3, <1>4, <2>1, <3>1, <3>2
  <2>3. CASE faults' = faults + 1
    <3>1. I' <= I + 1
      BY <1>2, <1>8, InsertingStep, CountAdded
    <3>2. QED
      BY <1>1, <1>2, <1>3, <1>4, <2>1, <2>3, <3>1
  <2>4. QED
    BY <1>8, <2>2, <2>3 DEF PassesQuota
<1>9. CASE \E h \in Handlers : Rotate(h) /\ Goes(h, IdleHandler)
  BY <1>7, <1>9, RotateRows, InsertingStep
<1>10. CASE Live' \subseteq Live /\ handler' = handler
  BY <1>7, <1>10 DEF Inserting
<1>11. QED
  BY <1>6, <1>7, <1>8, <1>9, <1>10, StepKinds, InsertingStep

\* The quota is overtaken at most by the requests past the count together and
\* by failed counts, for any number of requests (CountChannelsForUserPlatform,
\* controller/supplier_channel.go:121-127).
THEOREM QuotaOvershootIsBounded == Spec => []QuotaOvershootBounded
<1>1. Init => QuotaInv
  <2>1. SUFFICES ASSUME Init, 0 \notin Quotas, Quotas # {}
                 PROVE  CountsQuota /\ QuotaOvershootBounded
    BY DEF QuotaInv
  <2>2. CountsQuota /\ Live = {} /\ Inserting = {} /\ faults = 0
    BY <2>1 DEF Init, CountsQuota, IdleHandler, Live, Inserting
  <2>3. PICK q \in Quotas : q \in Nat /\ q # 0
    BY <2>1, AdmissionAssumption
  <2>4. Cardinality({}) = 0 /\ Cardinality(Handlers) \in Nat
    BY FS_EmptySet, RequestsCounted
  <2>5. QED
    BY <2>2, <2>3, <2>4 DEF QuotaOvershootBounded
<1>2. IInv /\ QuotaInv /\ [Next]_vars => QuotaInv'
  BY CountsQuotaStep, QuotaStep DEF QuotaInv
<1>3. QuotaInv => QuotaOvershootBounded
  BY DEF QuotaInv, QuotaOvershootBounded
<1>4. QED
  BY <1>1, <1>2, <1>3, InvariantHolds, PTL DEF Spec
-----------------------------------------------------------------------------
(* One key on several channels. *)

\* SameKeyBounded counts what is there; with what is still to come it is inductive.
SameKeyInv ==
    \A k \in Keys :
        Cardinality(SameKey(k)) + Cardinality(Carrying(k))
          <= Cardinality(Handlers) + faults + rotations

\* What a step of one request does to those that carry key k.
LEMMA CarryingStep ==
    ASSUME IInv, NEW h \in Handlers, NEW s, Goes(h, s), NEW k \in Keys
    PROVE  /\ Carrying(k)' \subseteq Carrying(k) \cup {h}
           /\ s = IdleHandler => Carrying(k)' \subseteq Carrying(k) \ {h}
           /\ Steps(h, s) => \/ Carrying(k)' \subseteq Carrying(k)
                             \/ PassesDuplicate(h, s) /\ handler[h].fp = k
                             \/ Begins(h, s) /\ s.pc = "rotate"
BY DEF Carrying, Goes, Steps, Begins, PassesQuota, PassesDuplicate, Numbers, IdleHandler

LEMMA SameKeyStep ==
    ASSUME IInv, SameKeyInv, [Next]_vars, NEW k \in Keys
    PROVE  Cardinality(SameKey(k)') + Cardinality(Carrying(k)')
             <= Cardinality(Handlers) + faults' + rotations'
<1> DEFINE S == SameKey(k)
           C == Carrying(k)
           H == Cardinality(Handlers)
<1>1. Cardinality(S) + Cardinality(C) <= H + faults + rotations
  BY DEF SameKeyInv
<1>2. /\ IsFiniteSet(S) /\ IsFiniteSet(C) /\ C' \subseteq Handlers
      /\ Cardinality(S) \in Nat /\ Cardinality(C) \in Nat /\ H \in Nat
  BY RowsCounted, RequestsCounted DEF Carrying
<1>3. Cardinality(C') \in Nat /\ Cardinality(C') <= H
  BY <1>2, RequestsCounted
<1>4. /\ faults' \in Nat /\ faults \in Nat /\ faults <= faults'
      /\ rotations' \in Nat /\ rotations \in Nat /\ rotations <= rotations'
  BY CountersGrow
<1>5. CASE S' \subseteq S /\ C' \subseteq C
  <2>1. /\ Cardinality(S') \in Nat /\ Cardinality(S') <= Cardinality(S)
        /\ Cardinality(C') <= Cardinality(C)
    BY <1>2, <1>5, CountSubset
  <2>2. QED
    BY <1>1, <1>2, <1>3, <1>4, <2>1
<1>6. ASSUME NEW x, S' \subseteq S \cup {x}, NEW h \in C, C' \subseteq C \ {h}
      PROVE  Cardinality(S') + Cardinality(C') <= H + faults' + rotations'
  <2>1. Cardinality(S') \in Nat /\ Cardinality(S') <= Cardinality(S) + 1
    BY <1>2, <1>6, CountAdded
  <2>2. Cardinality(C') + 1 <= Cardinality(C)
    BY <1>2, <1>6, CountRemoved
  <2>3. QED
    BY <1>1, <1>2, <1>3, <1>4, <2>1, <2>2
<1>7. ASSUME NEW h \in Handlers, Insert(h) \/ Rotate(h), Goes(h, IdleHandler)
      PROVE  Cardinality(S') + Cardinality(C') <= H + faults' + rotations'
  <2>1. C' \subseteq C \ {h}
    BY <1>7, CarryingStep
  <2>2. CASE handler[h].fp = k
    <3>1. h \in C
      BY <1>7, <2>2 DEF Carrying, Insert, Rotate
    <3>2. \E x : S' \subseteq S \cup {x}
      BY <1>7, InsertRows, RotateRows
    <3>3. QED
      BY <1>6, <2>1, <3>1, <3>2
  <2>3. CASE handler[h].fp # k
    <3>1. S' \subseteq S
      BY <1>7, <2>3, InsertRows, RotateRows
    <3>2. QED
      BY <1>5, <2>1, <3>1
  <2>4. QED
    BY <2>2, <2>3
<1>8. ASSUME S' \subseteq S, NEW h \in Handlers, NEW s, Goes(h, s),
             \/ PassesDuplicate(h, s) /\ handler[h].fp = k
             \/ Begins(h, s) /\ s.pc = "rotate"
      PROVE  Cardinality(S') + Cardinality(C') <= H + faults' + rotations'
  <2>1. /\ Cardinality(S') \in Nat /\ Cardinality(S') <= Cardinality(S)
        /\ Cardinality(C') <= Cardinality(C) + 1
    BY <1>2, <1>8, CountSubset, CountAdded, CarryingStep
  <2>2. CASE faults' = faults + 1 \/ rotations' = rotations + 1
    BY <1>1, <1>2, <1>3, <1>4, <2>1, <2>2
  <2>3. CASE PassesDuplicate(h, s) /\ handler[h].fp = k /\ ~IsDuplicate(h)
    <3>1. S = {}
      BY <2>3 DEF IsDuplicate, SameKey
    <3>2. Cardinality(S) = 0
      BY <3>1, FS_EmptySet
    <3>3. QED
      BY <1>2, <1>3, <1>4, <2>1, <3>2
  <2>4. QED
    BY <1>8, <2>2, <2>3 DEF PassesDuplicate, Begins
<1>9. CASE S' \subseteq S /\ handler' = handler
  BY <1>5, <1>9 DEF Carrying
<1>10. QED
  BY <1>5, <1>7, <1>8, <1>9, StepKinds, CarryingStep

\* A key is on no more live channels than there are requests at one time, plus
\* failed checks, plus rotations (FingerprintExistsForUser,
\* controller/supplier_channel.go:139-143, 240-252).
THEOREM SameKeyIsBounded == Spec => []SameKeyBounded
<1>1. Init => SameKeyInv
  <2>1. SUFFICES ASSUME Init PROVE SameKeyInv
    OBVIOUS
  <2>2. \A k \in Keys : SameKey(k) = {} /\ Carrying(k) = {}
    BY <2>1 DEF Init, SameKey, Live, Carrying, IdleHandler
  <2>3. Cardinality({}) = 0 /\ Cardinality(Handlers) \in Nat /\ faults = 0 /\ rotations = 0
    BY <2>1, FS_EmptySet, RequestsCounted DEF Init
  <2>4. QED
    BY <2>2, <2>3 DEF SameKeyInv
<1>2. IInv /\ SameKeyInv /\ [Next]_vars => SameKeyInv'
  BY SameKeyStep DEF SameKeyInv
<1>3. IInv /\ SameKeyInv => SameKeyBounded
  <2>1. SUFFICES ASSUME IInv, SameKeyInv, NEW k \in Keys
                 PROVE  Cardinality(SameKey(k)) <= Cardinality(Handlers) + faults + rotations
    BY DEF SameKeyBounded
  <2>2. /\ Cardinality(SameKey(k)) \in Nat /\ Cardinality(Carrying(k)) \in Nat
        /\ Cardinality(Handlers) \in Nat /\ faults \in Nat /\ rotations \in Nat
    BY <2>1, RowsCounted, RequestsCounted DEF Carrying, IInv, TypeOK
  <2>3. QED
    BY <2>1, <2>2 DEF SameKeyInv
<1>4. QED
  BY <1>1, <1>2, <1>3, InvariantHolds, PTL DEF Spec

-----------------------------------------------------------------------------
(* What a deleted account leaves behind. *)

\* While nobody grants: once DeleteUser has deleted the grants no request begins,
\* and from the deletion of the channels on, what is live came from requests
\* that were under way then.
LeftoversInv ==
    grants = 0 =>
        /\ granter.pc = "idle"
        /\ (deleter > 1 \/ user = "gone") => grant.state = "none"
        /\ (deleter > 2 \/ user = "gone") =>
             Cardinality(Live) + Cardinality(Busy) <= Cardinality(Handlers)

\* Only a request that an enabled grant lets begin makes another one busy.
LEMMA BusyStep ==
    ASSUME IInv, NEW h \in Handlers, NEW s, Goes(h, s)
    PROVE  /\ s = IdleHandler => Busy' \subseteq Busy \ {h}
           /\ Steps(h, s) => Busy' \subseteq Busy \/ grant.state = "enabled"
BY DEF Busy, Goes, Steps, Begins, PassesQuota, PassesDuplicate, Numbers, IdleHandler

LEMMA LeftoversCount ==
    ASSUME IInv, [Next]_vars, grant.state = "none",
           Cardinality(Live) + Cardinality(Busy) <= Cardinality(Handlers)
    PROVE  Cardinality(Live') + Cardinality(Busy') <= Cardinality(Handlers)
<1>1. /\ IsFiniteSet(Live) /\ IsFiniteSet(Busy) /\ Cardinality(Handlers) \in Nat
      /\ Cardinality(Live) \in Nat /\ Cardinality(Busy) \in Nat
  BY RowsCounted, RequestsCounted DEF Busy
<1>2. CASE Live' \subseteq Live /\ Busy' \subseteq Busy
  <2>1. /\ Cardinality(Live') \in Nat /\ Cardinality(Live') <= Cardinality(Live)
        /\ Cardinality(Busy') \in Nat /\ Cardinality(Busy') <= Cardinality(Busy)
    BY <1>1, <1>2, CountSubset
  <2>2. QED
    BY <1>1, <2>1
<1>3. ASSUME NEW h \in Handlers, Insert(h), Goes(h, IdleHandler)
      PROVE  Cardinality(Live') + Cardinality(Busy') <= Cardinality(Handlers)
  <2>1. h \in Busy /\ Busy' \subseteq Busy \ {h}
    BY <1>3, BusyStep DEF Busy, Insert
  <2>2. Cardinality(Busy') \in Nat /\ Cardinality(Busy') + 1 <= Cardinality(Busy)
    BY <1>1, <2>1, CountRemoved
  <2>3. Cardinality(Live') \in Nat /\ Cardinality(Live') <= Cardinality(Live) + 1
    BY <1>1, <1>3, InsertRows, CountAdded
  <2>4. QED
    BY <1>1, <2>2, <2>3
<1>4. CASE \E h \in Handlers : Rotate(h) /\ Goes(h, IdleHandler)
  BY <1>2, <1>4, RotateRows, BusyStep
<1>5. CASE Live' \subseteq Live /\ handler' = handler
  BY <1>2, <1>5 DEF Busy
<1>6. QED
  BY <1>2, <1>3, <1>4, <1>5, StepKinds, BusyStep
\* While nobody grants, what a step does to the administrators' part of the state.
LEMMA UngrantedStep ==
    ASSUME IInv, [Next]_vars, grants' = 0, granter.pc = "idle"
    PROVE  /\ granter' = granter
           /\ grant' = grant \/ grant' = NoGrant
           /\ \/ DeleteUserStep
              \/ user' = user /\ (deleter' = deleter \/ deleter' \in {0, 1})
<1>1. \A g \in GrantRows : ~UpsertBegin(g)
  BY DEF UpsertBegin, IInv, TypeOK
<1>2. ~UpsertFind /\ ~UpsertWrite
  BY DEF UpsertFind, UpsertWrite
<1>3. QED
  BY <1>1, <1>2 DEF Next, vars, HandlerSteps, Authorize, CheckQuota, CheckDuplicate,
     ReadSequence, Probe, Insert, Rotate, CheckFails, StatementFails, BeginRotate,
     DeleteChannel, DeleteGrant, DeleteUserBegin, DeleteUserStep, DeleteUserFails

\* The cascade: grants, channels, account.
LEMMA CascadeStep ==
    ASSUME IInv, DeleteUserStep
    PROVE  \/ /\ deleter = 1 /\ deleter' = 2 /\ grant' = NoGrant /\ user' = user
           \/ /\ deleter = 2 /\ deleter' = 3 /\ user' = user /\ Live' = {} /\ Busy' = Busy
           \/ /\ deleter = 3 /\ deleter' = 0 /\ user' = "gone"
<1>1. deleter \in 1 .. 3 /\ Len(Cascade) = 3
  BY DEF IInv, TypeOK, DeleteUserStep, Cascade
<1>2. Cascade[1] = "grants" /\ Cascade[2] = "channels" /\ Cascade[3] = "user"
  BY DEF Cascade
<1>3. deleter = 2 => Live' = {} /\ Busy' = Busy
  <2>1. SUFFICES ASSUME deleter = 2 PROVE Live' = {} /\ Busy' = Busy
    OBVIOUS
  <2>2. \A i \in DOMAIN rows : rows[i] \in Rows
    BY DEF IInv, TypeOK
  <2>3. rows' = [i \in DOMAIN rows |-> [rows[i] EXCEPT !.live = FALSE]]
    BY <1>2, <2>1 DEF DeleteUserStep
  <2>4. DOMAIN rows' = DOMAIN rows /\ \A i \in DOMAIN rows : ~rows'[i].live
    BY <2>2, <2>3 DEF Rows
  <2>5. QED
    BY <2>4 DEF Live, Busy, DeleteUserStep
<1>4. QED
  BY <1>1, <1>2, <1>3 DEF DeleteUserStep

LEMMA LeftoversStep ==
    ASSUME IInv, LeftoversInv, [Next]_vars
    PROVE  LeftoversInv'
<1>1. SUFFICES ASSUME grants' = 0
               PROVE  /\ granter'.pc = "idle"
                      /\ (deleter' > 1 \/ user' = "gone") => grant'.state = "none"
                      /\ (deleter' > 2 \/ user' = "gone") =>
                           Cardinality(Live') + Cardinality(Busy') <= Cardinality(Handlers)
  BY DEF LeftoversInv
<1>2. grants = 0
  <2>1. grants \in Nat
    BY DEF IInv, TypeOK
  <2>2. grants' = grants \/ grants' = grants + 1
    BY Zenon DEF Next, vars, HandlerSteps, Authorize, CheckQuota, CheckDuplicate, ReadSequence,
       Probe, Insert, Rotate, CheckFails, StatementFails, BeginRotate, DeleteChannel,
       UpsertBegin, UpsertFind, UpsertWrite, DeleteGrant, DeleteUserBegin,
       DeleteUserStep, DeleteUserFails
  <2>3. QED
    BY <1>1, <2>1, <2>2
<1>3. /\ granter.pc = "idle"
      /\ (deleter > 1 \/ user = "gone") => grant.state = "none"
      /\ (deleter > 2 \/ user = "gone") =>
           Cardinality(Live) + Cardinality(Busy) <= Cardinality(Handlers)
  BY <1>2 DEF LeftoversInv
<1>4. /\ granter' = granter
      /\ grant' = grant \/ grant' = NoGrant
      /\ \/ DeleteUserStep
         \/ user' = user /\ (deleter' = deleter \/ deleter' \in {0, 1})
  BY <1>1, <1>3, UngrantedStep
<1>5. NoGrant.state = "none"
  BY DEF NoGrant
<1>6. CASE user' = user /\ (deleter' = deleter \/ deleter' \in {0, 1})
  <2>1. deleter \in 0 .. 3
    BY DEF IInv, TypeOK, Cascade
  <2>2. /\ deleter' > 1 => deleter > 1
        /\ deleter' > 2 => deleter > 2
        /\ deleter > 2 => deleter > 1
    BY <1>6, <2>1
  <2>3. (deleter' > 1 \/ user' = "gone") => grant'.state = "none"
    BY <1>3, <1>4, <1>5, <1>6, <2>2
  <2>4. (deleter' > 2 \/ user' = "gone") =>
          Cardinality(Live') + Cardinality(Busy') <= Cardinality(Handlers)
    BY <1>3, <1>6, <2>2, LeftoversCount
  <2>5. QED
    BY <1>3, <1>4, <2>3, <2>4
<1>7. CASE DeleteUserStep
  <2>1. CASE deleter = 1 /\ deleter' = 2 /\ grant' = NoGrant /\ user' = user
    BY <1>3, <1>4, <1>5, <2>1, LeftoversCount
  <2>2. CASE deleter = 2 /\ deleter' = 3 /\ user' = user /\ Live' = {} /\ Busy' = Busy
    <3>1. Cardinality(Live') = 0 /\ Cardinality(Busy') \in Nat
          /\ Cardinality(Busy') <= Cardinality(Handlers)
      BY <2>2, FS_EmptySet, RequestsCounted DEF Busy
    <3>2. QED
      BY <1>3, <1>4, <1>5, <2>2, <3>1
  <2>3. CASE deleter = 3 /\ deleter' = 0 /\ user' = "gone"
    BY <1>3, <1>4, <1>5, <2>3, LeftoversCount
  <2>4. QED
    BY <1>7, <2>1, <2>2, <2>3, CascadeStep
<1>8. QED
  BY <1>4, <1>6, <1>7

\* A deleted account leaves behind no more channels than requests that were in
\* flight when its grants went (model.DeleteUser, model/user.go:145-153).
THEOREM LeftoversAreBounded == Spec => []LeftoversBounded
<1>1. Init => LeftoversInv
  BY DEF Init, LeftoversInv
<1>2. IInv /\ LeftoversInv /\ [Next]_vars => LeftoversInv'
  BY LeftoversStep
<1>3. LeftoversInv => LeftoversBounded
  BY DEF LeftoversInv, LeftoversBounded
<1>4. QED
  BY <1>1, <1>2, <1>3, InvariantHolds, PTL DEF Spec

-----------------------------------------------------------------------------
(* One request at a time.                                                     *)

\* What the checks of CreateChannel are there for, exactly: no more live channels
\* than a quota that was given, and no key on two of them.
AdmissionIsExact ==
    faults = 0 =>
        /\ 0 \notin Quotas /\ Quotas # {} => \E q \in Quotas : Cardinality(Live) <= q
        /\ rotations = 0 => \A k \in Keys : Cardinality(SameKey(k)) <= 1

\* AdmissionIsExact: where requests come one at a time, whatever administrators do
\* meanwhile, and no check fails, quota and duplicate check keep their word
\* (controller/supplier_channel.go:121-143); every excess is the work of requests
\* that overlap.
THEOREM OneAtATimeIsExact ==
    ASSUME Cardinality(Handlers) = 1
    PROVE  Spec => []AdmissionIsExact
<1>1. IInv /\ QuotaOvershootBounded /\ SameKeyBounded => AdmissionIsExact
  <2>1. SUFFICES ASSUME IInv, QuotaOvershootBounded, SameKeyBounded, faults = 0
                 PROVE  AdmissionIsExact
    BY DEF AdmissionIsExact
  <2>2. 0 \notin Quotas /\ Quotas # {} => \E q \in Quotas : Cardinality(Live) <= q
    <3>1. SUFFICES ASSUME 0 \notin Quotas, Quotas # {}
                   PROVE  \E q \in Quotas : Cardinality(Live) <= q
      OBVIOUS
    <3>2. PICK q \in Quotas : Cardinality(Live) + Cardinality(Inserting) < q + 1 + 0
      BY <2>1, <3>1 DEF QuotaOvershootBounded
    <3>3. Inserting \subseteq Handlers
      BY DEF Inserting
    <3>4. /\ Cardinality(Live) \in Nat /\ Cardinality(Inserting) \in Nat
          /\ q \in Nat
      BY <2>1, <3>3, RowsCounted, RequestsCounted, AdmissionAssumption
    <3>5. QED
      BY <3>2, <3>4
  <2>3. ASSUME rotations = 0, NEW k \in Keys PROVE Cardinality(SameKey(k)) <= 1
    BY <2>1, <2>3 DEF SameKeyBounded
  <2>4. QED
    BY <2>1, <2>2, <2>3 DEF AdmissionIsExact
<1>2. QED
  BY <1>1, InvariantHolds, QuotaOvershootIsBounded, SameKeyIsBounded, PTL
===============================================================================
