-------------------------- MODULE UsageRefreshProofs --------------------------
(***************************************************************************)
(* Theorems about UsageRefresh, for any number of refreshes, addresses and   *)
(* templates.  A refresh that has its answer holds an amount its template    *)
(* had consumed; templates only consume more.                                *)
(***************************************************************************)
EXTENDS UsageRefresh, TLAPS

\* AGT has given the template an amount of at least n.
Reported(t, n) == usage[t] # None /\ n <= usage[t]

\* The stored amount, and the answers that are yet to be stored.
AmountsReported ==
    /\ IF source = None THEN row.used = 0 ELSE Reported(source, row.used)
    /\ \A c \in Clients : request[c].pc = "store" => Reported(Template(c), request[c].used)

\* An answer nobody has overtaken is not below the amount stored for its template.
AnswersAreNewer ==
    \A c \in Clients :
        request[c].pc = "store" /\ request[c].alone /\ Template(c) = source =>
            row.used <= request[c].used

\* As long as the platform has kept its address, only templates of this channel
\* are asked for.
AsksForOwn ==
    moves = 0 =>
        /\ own \subseteq {site} \X RemoteIds
        /\ row.remote # None => <<site, row.remote>> \in own
        /\ \A c \in Clients :
             /\ request[c].pc \in {"platform", "ask", "store"} =>
                  <<site, request[c].remote>> \in own
             /\ request[c].pc \in {"ask", "store"} => request[c].site = site
        /\ source # None => source \in own

IInv == TypeOK /\ AmountsReported /\ AnswersAreNewer /\ AsksForOwn

-----------------------------------------------------------------------------
LEMMA IdleRequest == Idle \in Requests /\ Idle.pc = "idle"
  BY DEF Idle, Requests

LEMMA NoTemplateIsNone == None \notin Templates
  BY UsageRefreshAssumption DEF Templates

LEMMA TemplateOf ==
    ASSUME TypeOK, NEW c \in Clients, request[c].pc \in {"ask", "store"}
    PROVE  Template(c) \in Templates
  BY DEF TypeOK, Requests, Template, Templates

LEMMA InitIInv == Init => IInv
  <1> SUFFICES ASSUME Init PROVE IInv
    OBVIOUS
  <1>1. TypeOK
    BY IdleRequest, UsageRefreshAssumption DEF Init, TypeOK
  <1>2. \A c \in Clients : request[c].pc = "idle"
    BY IdleRequest DEF Init
  <1> QED
    BY <1>1, <1>2 DEF IInv, Init, AmountsReported, AnswersAreNewer, AsksForOwn

\* A template has consumed more, or was made.
LEMMA MoreConsumed ==
    ASSUME IInv, TypeOK',
           \A t \in Templates : usage[t] # None => usage'[t] # None /\ usage[t] <= usage'[t],
           row'.used = row.used, UNCHANGED <<request, source>>
    PROVE  AmountsReported' /\ AnswersAreNewer'
  <1>1. ASSUME NEW t \in Templates, NEW n \in Nat, Reported(t, n) PROVE Reported(t, n)'
    <2>1. usage[t] \in Nat /\ usage'[t] \in Nat
      BY <1>1 DEF IInv, TypeOK, Reported
    <2> QED
      BY <1>1, <2>1 DEF Reported
  <1>2. \A c \in Clients : Template(c)' = Template(c) /\ request[c].used \in Nat
    BY DEF Template, IInv, TypeOK, Requests
  <1>3. AmountsReported'
    <2>1. source # None => Reported(source, row.used)'
      BY <1>1 DEF IInv, TypeOK, AmountsReported, Reported
    <2>2. ASSUME NEW c \in Clients, request[c].pc = "store"
          PROVE  Reported(Template(c), request[c].used)'
      <3>1. Reported(Template(c), request[c].used) /\ Template(c) \in Templates
        BY <2>2, TemplateOf DEF IInv, AmountsReported
      <3> QED
        BY <1>1, <1>2, <3>1 DEF Reported
    <2> QED
      BY <2>1, <2>2 DEF AmountsReported, IInv
  <1> QED
    BY <1>2, <1>3 DEF IInv, AnswersAreNewer

LEMMA AroundIInv ==
    ASSUME IInv
    PROVE  /\ \A s \in Sites, id \in RemoteIds : Publish(s, id) => IInv'
           /\ \A id \in RemoteIds : Republish(id) => IInv'
           /\ \A t \in Templates : AgtAdds(t) \/ Consume(t) => IInv'
           /\ \A s \in Sites : MovePlatform(s) => IInv'
           /\ DeleteChannel => IInv'
           /\ UNCHANGED vars => IInv'
  <1>1. ASSUME NEW s \in Sites, NEW id \in RemoteIds, Publish(s, id) PROVE IInv'
    <2>1. TypeOK'
      BY <1>1 DEF IInv, TypeOK, Publish, Templates
    <2>2. \A t \in Templates : usage[t] # None => usage'[t] = usage[t]
      BY <1>1 DEF IInv, TypeOK, Publish, Templates
    <2>3. /\ row'.used = row.used /\ row'.remote = id
          /\ UNCHANGED <<site, request, source, moves>> /\ own' = own \cup {<<s, id>>}
          /\ s = site \/ moves > 0
      BY <1>1 DEF IInv, TypeOK, Publish
    <2>4. \A t \in Templates : usage[t] # None => usage'[t] # None /\ usage[t] <= usage'[t]
      BY <2>2 DEF IInv, TypeOK
    <2>5. AsksForOwn'
      BY <2>3 DEF IInv, AsksForOwn
    <2> QED
      BY <2>1, <2>3, <2>4, <2>5, MoreConsumed DEF IInv
  <1>2. ASSUME NEW t \in Templates, AgtAdds(t) PROVE IInv'
    <2>1. TypeOK' /\ \A u \in Templates : usage[u] # None => usage'[u] = usage[u]
      BY <1>2 DEF IInv, TypeOK, AgtAdds
    <2>2. \A u \in Templates : usage[u] # None => usage'[u] # None /\ usage[u] <= usage'[u]
      BY <2>1 DEF IInv, TypeOK
    <2>3. AsksForOwn'
      BY <1>2 DEF IInv, AsksForOwn, AgtAdds
    <2> QED
      BY <1>2, <2>1, <2>2, <2>3, MoreConsumed DEF IInv, AgtAdds
  <1>3. ASSUME NEW t \in Templates, Consume(t) PROVE IInv'
    <2>1. usage[t] \in Nat
      BY <1>3 DEF IInv, TypeOK, Consume
    <2>2. TypeOK'
      BY <1>3, <2>1 DEF IInv, TypeOK, Consume
    <2>3. \A u \in Templates : usage'[u] = IF u = t THEN usage[t] + 1 ELSE usage[u]
      BY <1>3 DEF IInv, TypeOK, Consume
    <2>4. \A u \in Templates : usage[u] # None => usage'[u] # None /\ usage[u] <= usage'[u]
      BY <2>1, <2>3, UsageRefreshAssumption DEF IInv, TypeOK
    <2>5. AsksForOwn'
      BY <1>3 DEF IInv, AsksForOwn, Consume
    <2> QED
      BY <1>3, <2>2, <2>4, <2>5, MoreConsumed DEF IInv, Consume
  <1>4. ASSUME NEW s \in Sites, MovePlatform(s) PROVE IInv'
    <2>1. TypeOK' /\ moves' # 0
      BY <1>4 DEF IInv, TypeOK, MovePlatform
    <2>2. AmountsReported' /\ AnswersAreNewer'
      BY <1>4 DEF IInv, AmountsReported, AnswersAreNewer, MovePlatform, Reported, Template
    <2> QED
      BY <2>1, <2>2 DEF IInv, AsksForOwn
  <1>5. ASSUME DeleteChannel PROVE IInv'
    <2>1. TypeOK' /\ row'.used = row.used /\ row'.remote = row.remote
      BY <1>5 DEF IInv, TypeOK, DeleteChannel
    <2> QED
      BY <1>5, <2>1 DEF IInv, AmountsReported, AnswersAreNewer, AsksForOwn, DeleteChannel,
                        Reported, Template
  <1>6. ASSUME UNCHANGED vars PROVE IInv'
    BY <1>6 DEF IInv, TypeOK, AmountsReported, AnswersAreNewer, AsksForOwn, vars, Reported,
                Template
  <1>7. ASSUME NEW id \in RemoteIds, Republish(id) PROVE IInv'
    <2>1. TypeOK' /\ row'.used = row.used /\ row'.remote = id
      BY <1>7 DEF IInv, TypeOK, Republish
    <2>2. moves = 0 => <<site, id>> \in own
      BY <1>7 DEF IInv, AsksForOwn, Republish
    <2> QED
      BY <1>7, <2>1, <2>2 DEF IInv, AmountsReported, AnswersAreNewer, AsksForOwn, Republish,
                              Reported, Template
  <1> QED
    BY <1>1, <1>2, <1>3, <1>4, <1>5, <1>6, <1>7

\* A refresh goes on as q, and nothing is stored.
LEMMA RefreshIInv ==
    ASSUME IInv, NEW c \in Clients, NEW q \in Requests,
           request' = [request EXCEPT ![c] = q],
           UNCHANGED <<row, site, usage, own, source, moves>>,
           q.pc \in {"platform", "ask", "store"} => q.remote # None,
           q.pc \in {"ask", "store"} => q.site # None,
           q.pc = "store" => Reported(<<q.site, q.remote>>, q.used),
           q.pc = "store" /\ q.alone /\ <<q.site, q.remote>> = source => row.used <= q.used,
           moves = 0 =>
             /\ q.pc \in {"platform", "ask", "store"} => <<site, q.remote>> \in own
             /\ q.pc \in {"ask", "store"} => q.site = site
    PROVE  IInv'
  <1>1. \A d \in Clients : request'[d] = IF d = c THEN q ELSE request[d]
    BY DEF IInv, TypeOK
  <1>2. TypeOK'
    BY <1>1 DEF IInv, TypeOK
  <1>3. AmountsReported'
    BY <1>1 DEF IInv, AmountsReported, Reported, Template
  <1>4. AnswersAreNewer'
    BY <1>1 DEF IInv, AnswersAreNewer, Template
  <1>5. AsksForOwn'
    BY <1>1 DEF IInv, AsksForOwn
  <1> QED
    BY <1>2, <1>3, <1>4, <1>5 DEF IInv

LEMMA IdleIInv ==
    ASSUME IInv, NEW c \in Clients, request' = [request EXCEPT ![c] = Idle],
           UNCHANGED <<row, site, usage, own, source, moves>>
    PROVE  IInv'
  BY IdleRequest, RefreshIInv

LEMMA BeginIInv == ASSUME IInv, NEW c \in Clients, Begin(c) PROVE IInv'
  <1> DEFINE q == [request[c] EXCEPT !.pc = "load"]
  <1>1. q \in Requests /\ q.pc = "load"
    BY DEF IInv, TypeOK, Requests
  <1>2. request' = [request EXCEPT ![c] = q] /\ UNCHANGED <<row, site, usage, own, source, moves>>
    BY DEF Begin
  <1> HIDE DEF q
  <1> QED
    BY <1>1, <1>2, RefreshIInv

LEMMA LoadIInv == ASSUME IInv, NEW c \in Clients, Load(c) PROVE IInv'
  <1>1. UNCHANGED <<row, site, usage, own, source, moves>>
    BY DEF Load
  <1>2. CASE row.life = "live" /\ Published
    <2> DEFINE q == [Idle EXCEPT !.pc = "platform", !.remote = row.remote]
    <2>1. row.remote \in RemoteIds /\ row.remote # None
      BY <1>2 DEF IInv, TypeOK, Published
    <2>2. q \in Requests /\ q.pc = "platform" /\ q.remote = row.remote
      BY <2>1 DEF Idle, Requests
    <2>3. request' = [request EXCEPT ![c] = q]
      BY <1>2 DEF Load, AskedFor
    <2>4. moves = 0 => <<site, row.remote>> \in own
      BY <2>1 DEF IInv, AsksForOwn
    <2> HIDE DEF q
    <2> QED
      BY <1>1, <2>1, <2>2, <2>3, <2>4, RefreshIInv
  <1>3. CASE ~(row.life = "live" /\ Published)
    BY <1>1, <1>3, IdleIInv DEF Load
  <1> QED
    BY <1>2, <1>3

LEMMA ReadPlatformIInv == ASSUME IInv, NEW c \in Clients, ReadPlatform(c) PROVE IInv'
  <1> DEFINE q == [request[c] EXCEPT !.pc = "ask", !.site = site]
  <1>1. request[c] \in Requests /\ site \in Sites /\ request[c].pc = "platform"
    BY DEF IInv, TypeOK, ReadPlatform
  <1>2. q \in Requests /\ q.pc = "ask" /\ q.site = site /\ q.remote = request[c].remote
    BY <1>1 DEF Requests
  <1>3. request' = [request EXCEPT ![c] = q] /\ UNCHANGED <<row, site, usage, own, source, moves>>
    BY <1>1 DEF ReadPlatform, IInv, TypeOK
  <1>4. request[c].remote # None /\ site # None
    BY <1>1, UsageRefreshAssumption DEF IInv, TypeOK
  <1>5. moves = 0 => <<site, request[c].remote>> \in own
    BY <1>1 DEF IInv, AsksForOwn
  <1> HIDE DEF q
  <1> QED
    BY <1>2, <1>3, <1>4, <1>5, RefreshIInv

\* The answer is what the template has consumed, which is not below what was
\* stored for it.
LEMMA AnswerIInv == ASSUME IInv, NEW c \in Clients, Answer(c) PROVE IInv'
  <1> DEFINE r == request[c]
             u == usage[Template(c)]
             q == [r EXCEPT !.pc = "store", !.used = u]
  <1>1. r \in Requests /\ r.pc = "ask" /\ u # None
    BY DEF IInv, TypeOK, Answer
  <1>2. Template(c) \in Templates /\ Template(c) = <<r.site, r.remote>>
    BY <1>1, TemplateOf DEF IInv, Template
  <1>3. u \in Nat
    BY <1>1, <1>2 DEF IInv, TypeOK
  <1> HIDE DEF u
  <1>4. q \in Requests /\ q.pc = "store" /\ q.used = u /\ q.site = r.site /\ q.remote = r.remote
    BY <1>1, <1>3 DEF Requests
  <1>5. request' = [request EXCEPT ![c] = q] /\ UNCHANGED <<row, site, usage, own, source, moves>>
    BY <1>1 DEF Answer, IInv, TypeOK, u
  <1>6. /\ r.remote # None /\ r.site # None
        /\ moves = 0 => <<site, r.remote>> \in own /\ r.site = site
    BY <1>1 DEF IInv, TypeOK, AsksForOwn
  <1>7. Reported(Template(c), u)
    BY <1>1, <1>3 DEF Reported, u
  <1>8. Template(c) = source => row.used <= u
    BY <1>2, NoTemplateIsNone DEF IInv, AmountsReported, Reported, u
  <1> HIDE DEF q, r
  <1> QED
    BY <1>2, <1>4, <1>5, <1>6, <1>7, <1>8, RefreshIInv

\* The requests after an amount was stored.
Overtaken(c) ==
    [d \in Clients |->
       IF d = c THEN Idle
       ELSE IF request[d].pc \in {"platform", "ask", "store"}
       THEN [request[d] EXCEPT !.alone = FALSE]
       ELSE request[d]]

LEMMA StoreIInv == ASSUME IInv, NEW c \in Clients, Store(c) PROVE IInv'
  <1>1. CASE row.life # "live"
    BY <1>1, IdleIInv DEF Store, Stores
  <1>2. CASE row.life = "live"
    <2>1. /\ request[c] \in Requests /\ request[c].pc = "store" /\ request[c].used \in Nat
          /\ Template(c) \in Templates /\ Template(c) # None
          /\ Reported(Template(c), request[c].used)
      BY TemplateOf, NoTemplateIsNone
         DEF Store, IInv, TypeOK, Requests, AmountsReported
    <2>2. /\ row' = [row EXCEPT !.used = request[c].used] /\ source' = Template(c)
          /\ request' = Overtaken(c) /\ UNCHANGED <<site, usage, own, moves>>
      BY <1>2 DEF Store, Stores, WithUsage, Overtaken
    <2>3. /\ row'.used = request[c].used /\ row'.remote = row.remote
          /\ row' \in [life : {"live", "deleted"}, remote : RemoteIds \cup {None}, used : Nat]
      BY <2>1, <2>2 DEF IInv, TypeOK
    <2>4. request' \in [Clients -> Requests]
      <3>1. \A d \in Clients : [request[d] EXCEPT !.alone = FALSE] \in Requests
        <4>1. \A r \in Requests : [r EXCEPT !.alone = FALSE] \in Requests
          BY DEF Requests
        <4> QED
          BY <4>1 DEF IInv, TypeOK
      <3> QED
        BY <2>2, <3>1, IdleRequest DEF Overtaken, IInv, TypeOK
    <2>5. \A d \in Clients :
            \/ request'[d].pc \in {"idle", "load"}
            \/ /\ request'[d].pc = request[d].pc /\ request'[d].remote = request[d].remote
               /\ request'[d].site = request[d].site /\ request'[d].used = request[d].used
               /\ ~request'[d].alone
      <3> SUFFICES ASSUME NEW d \in Clients
                   PROVE  \/ request'[d].pc \in {"idle", "load"}
                          \/ /\ request'[d].pc = request[d].pc
                             /\ request'[d].remote = request[d].remote
                             /\ request'[d].site = request[d].site
                             /\ request'[d].used = request[d].used
                             /\ ~request'[d].alone
        OBVIOUS
      <3>1. request[d] \in Requests
        BY DEF IInv, TypeOK
      <3>2. CASE d = c
        BY <2>2, <3>2, IdleRequest DEF Overtaken
      <3>3. CASE d # c /\ request[d].pc \in {"platform", "ask", "store"}
        <4>1. request'[d] = [request[d] EXCEPT !.alone = FALSE]
          BY <2>2, <3>3 DEF Overtaken
        <4> QED
          BY <3>1, <4>1 DEF Requests
      <3>4. CASE d # c /\ request[d].pc \notin {"platform", "ask", "store"}
        BY <2>2, <3>1, <3>4 DEF Overtaken, Requests
      <3> QED
        BY <3>2, <3>3, <3>4
    <2>6. TypeOK'
      BY <2>1, <2>2, <2>3, <2>4, <2>5 DEF IInv, TypeOK
    <2>7. AmountsReported'
      BY <2>1, <2>2, <2>3, <2>5 DEF IInv, AmountsReported, Reported, Template
    <2>8. AnswersAreNewer'
      BY <2>5 DEF AnswersAreNewer
    <2>9. AsksForOwn'
      BY <2>1, <2>2, <2>3, <2>5 DEF IInv, AsksForOwn, Template
    <2> QED
      BY <2>6, <2>7, <2>8, <2>9 DEF IInv
  <1> QED
    BY <1>1, <1>2

LEMMA NextIInv == IInv /\ [Next]_vars => IInv'
  <1>1. ASSUME IInv, NEW c \in Clients, RefreshFails(c) PROVE IInv'
    BY <1>1, IdleIInv DEF RefreshFails
  <1> QED
    BY <1>1, AroundIInv, BeginIInv, LoadIInv, ReadPlatformIInv, AnswerIInv, StoreIInv
       DEF Next, Statements

THEOREM Invariant == Spec => []IInv
  BY InitIInv, NextIInv, PTL DEF Spec

\* Types, and AGT is asked only for channels that have a remote id.
THEOREM TypeCorrect == Spec => []TypeOK
  <1>1. IInv => TypeOK
    BY DEF IInv
  <1> QED
    BY Invariant, <1>1, PTL

\* The stored amount is never above what AGT has counted for the template it was
\* reported for, for any number of refreshes and templates.
THEOREM UsageIsWithinReported == Spec => []UsageWithinReported
  <1>1. IInv => UsageWithinReported
    BY DEF IInv, AmountsReported, Reported, UsageWithinReported
  <1> QED
    BY Invariant, <1>1, PTL

\* The stored amount is that of one of the channel's own templates as long as the
\* platform keeps its address.
THEOREM UsageIsOfOwnTemplate == Spec => []UsageIsOwn
  <1>1. IInv => UsageIsOwn
    BY DEF IInv, TypeOK, AsksForOwn, UsageIsOwn
  <1> QED
    BY Invariant, <1>1, PTL

\* The stored amount goes back only by a refresh that was overtaken or that asked
\* for another template, and a deleted channel keeps its amount.
THEOREM GoesBackOnlyIfOvertaken == Spec => GoesBackOnlyOvertaken
  <1>1. ASSUME IInv, Next
        PROVE  /\ row.life = "deleted" => row' = row
               /\ row'.used < row.used =>
                    \E c \in Clients : /\ request[c].pc = "store"
                                       /\ ~request[c].alone \/ Template(c) # source
    <2>1. row \in [life : {"live", "deleted"}, remote : RemoteIds \cup {None}, used : Nat]
      BY <1>1 DEF IInv, TypeOK
    <2>2. ASSUME NEW c \in Clients, Store(c)
          PROVE  /\ row.life = "deleted" => row' = row
                 /\ row'.used < row.used => ~request[c].alone \/ Template(c) # source
      <3>1. request[c].pc = "store" /\ request[c].used \in Nat
        BY <1>1, <2>2 DEF Store, IInv, TypeOK, Requests
      <3>2. row.life # "live" => row' = row
        BY <2>2 DEF Store, Stores
      <3>3. row.life = "live" => row'.used = request[c].used
        BY <2>1, <2>2 DEF Store, Stores, WithUsage
      <3>4. request[c].alone /\ Template(c) = source => row.used <= request[c].used
        BY <1>1, <3>1 DEF IInv, AnswersAreNewer
      <3> QED
        BY <2>1, <3>1, <3>2, <3>3, <3>4
    <2>3. /\ \A s \in Sites, id \in RemoteIds :
               Publish(s, id) => row.life = "live" /\ row'.used = row.used
          /\ \A id \in RemoteIds :
               Republish(id) => row.life = "live" /\ row'.used = row.used
          /\ DeleteChannel => row.life = "live" /\ row'.used = row.used
      BY <2>1 DEF Publish, Republish, DeleteChannel
    <2>4. /\ \A t \in Templates : AgtAdds(t) \/ Consume(t) => row' = row
          /\ \A s \in Sites : MovePlatform(s) => row' = row
          /\ \A c \in Clients : Begin(c) \/ Load(c) \/ ReadPlatform(c) \/ Answer(c)
                               \/ RefreshFails(c) => row' = row
      BY DEF AgtAdds, Consume, MovePlatform, Begin, Load, ReadPlatform, Answer, RefreshFails
    <2>5. ASSUME row' = row PROVE row'.used = row.used /\ ~(row'.used < row.used)
      BY <2>1, <2>5
    <2>6. ASSUME row.life = "live", row'.used = row.used
          PROVE  row.life # "deleted" /\ ~(row'.used < row.used)
      BY <2>1, <2>6
    <2>7. \A c \in Clients : Store(c) => request[c].pc = "store"
      BY DEF Store
    <2> QED
      BY <1>1, <2>2, <2>3, <2>4, <2>5, <2>6, <2>7 DEF Next, Statements
  <1>2. IInv /\ [Next]_vars =>
          [/\ row.life = "deleted" => row' = row
           /\ row'.used < row.used =>
                \E c \in Clients : /\ request[c].pc = "store"
                                   /\ ~request[c].alone \/ Template(c) # source]_vars
    BY <1>1
  <1> QED
    BY Invariant, <1>2, PTL DEF Spec, GoesBackOnlyOvertaken

\* What a refresh goes on to, from p to q.
Follows(p, q) ==
    \/ q = "idle"
    \/ <<p, q>> \in {<<"load", "platform">>, <<"platform", "ask">>, <<"ask", "store">>}

\* A refresh only goes forward: load, platform, ask, store, end.  So it takes at
\* most four steps once begun, none of which waits for another refresh, and
\* RefreshEnds needs no more than that its steps are taken and its call times out.
RefreshRunsForward ==
    [][\A d \in Clients : request[d].pc # "idle" /\ request'[d].pc # request[d].pc =>
         Follows(request[d].pc, request'[d].pc)]_vars

\* RefreshRunsForward: RefreshUsage has no loop and no retry
\* (controller/supplier_channel.go:305-327, service/sync/worker.go:113-141).
THEOREM RefreshesRunForward == Spec => RefreshRunsForward
  <1>1. ASSUME IInv, Next, NEW d \in Clients,
               request[d].pc # "idle", request'[d].pc # request[d].pc
        PROVE  Follows(request[d].pc, request'[d].pc)
    <2>1. request \in [Clients -> Requests]
      BY <1>1 DEF IInv, TypeOK
    <2>2. Idle.pc = "idle"
      BY DEF Idle
    <2>3. ASSUME NEW c \in Clients, Begin(c) \/ RefreshFails(c)
          PROVE  Follows(request[d].pc, request'[d].pc)
      BY <1>1, <2>1, <2>2, <2>3 DEF Follows, Begin, RefreshFails, Requests
    <2>4. ASSUME NEW c \in Clients, Load(c)
          PROVE  Follows(request[d].pc, request'[d].pc)
      <3>1. request[c].pc = "load"
        BY <2>4 DEF Load
      <3>2. PICK q : /\ request' = [request EXCEPT ![c] = q]
                     /\ q.pc \in {"platform", "idle"}
        <4>1. CASE row.life = "live" /\ Published
          <5>1. request' = [request EXCEPT ![c] =
                              [Idle EXCEPT !.pc = "platform", !.remote = AskedFor(row.remote)]]
            BY <2>4, <4>1 DEF Load
          <5>2. [Idle EXCEPT !.pc = "platform", !.remote = AskedFor(row.remote)].pc = "platform"
            BY DEF Idle
          <5> QED
            BY <5>1, <5>2
        <4>2. CASE ~(row.life = "live" /\ Published)
          <5>1. request' = [request EXCEPT ![c] = Idle]
            BY <2>4, <4>2 DEF Load
          <5> QED
            BY <2>2, <5>1
        <4> QED
          BY <4>1, <4>2
      <3>3. d = c /\ request'[d] = q
        BY <1>1, <2>1, <3>2
      <3> QED
        BY <3>1, <3>2, <3>3 DEF Follows
    <2>5. ASSUME NEW c \in Clients, ReadPlatform(c) \/ Answer(c)
          PROVE  Follows(request[d].pc, request'[d].pc)
      BY <1>1, <2>1, <2>5 DEF Follows, ReadPlatform, Answer, Requests
    <2>6. ASSUME NEW c \in Clients, Store(c)
          PROVE  Follows(request[d].pc, request'[d].pc)
      BY <1>1, <2>1, <2>2, <2>6 DEF Follows, Store, Requests
    <2>7. request' # request
      BY <1>1
    <2> QED
      BY <1>1, <2>3, <2>4, <2>5, <2>6, <2>7
         DEF Next, Statements, Publish, Republish, AgtAdds, Consume, MovePlatform, DeleteChannel
  <1>2. IInv /\ [Next]_vars =>
          [\A d \in Clients : request[d].pc # "idle" /\ request'[d].pc # request[d].pc =>
             Follows(request[d].pc, request'[d].pc)]_vars
    BY <1>1 DEF vars
  <1> QED
    BY Invariant, <1>2, PTL DEF Spec, RefreshRunsForward

=============================================================================
