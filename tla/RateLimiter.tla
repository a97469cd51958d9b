----------------------------- MODULE RateLimiter -----------------------------
(***************************************************************************)
(* The fixed-window limiter in front of the login (middleware/security.go,   *)
(* router/router.go): a request takes the time, then waits for the mutex     *)
(* under which allow counts it in the window of its address or refuses it.   *)
(* Requests of one address wait together, so the times allow sees need not   *)
(* be in order.  The table is kept in memory only: a restart forgets it, and  *)
(* what an address may do over restarts is part of what is stated here.      *)
(***************************************************************************)
EXTENDS Integers, Sequences

CONSTANTS
    Clients,  \* requests that can be under way at one time
    Ips,      \* addresses, the keys of the table
    Limit,    \* admissions per window (10 in the router)
    Window,   \* length of a window (a minute)
    MaxDelay, \* assumed: the longest a request waits after it took the time
    None,     \* no address
    MaxClock, \* bound: the time at which the model ends
    MaxRestarts \* bound: restarts of the process

ASSUME RateLimiterAssumption ==
    /\ Limit \in Nat \ {0} /\ Window \in Nat /\ MaxDelay \in Nat
    /\ MaxClock \in Nat /\ MaxRestarts \in Nat
    /\ None \notin Ips

VARIABLES
    clock,    \* the time
    hits,     \* the table of windows
    request,  \* the requests that have taken the time
    restarts, \* history: how often the process was restarted
    admitted  \* history: when, and in which run of the process, the requests of
              \* each address were admitted; no step takes anything out of it

vars == <<clock, hits, request, restarts, admitted>>

-----------------------------------------------------------------------------
Windows == [count : Nat, reset : Nat]

NoWindow == [count |-> 0, reset |-> 0]

Requests == [ip : Ips \cup {None}, now : Nat]

Idle == [ip |-> None, now |-> 0]

Admissions == [at : Nat, run : Nat]

Init ==
    /\ clock = 0
    /\ hits = [ip \in Ips |-> NoWindow]
    /\ request = [c \in Clients |-> Idle]
    /\ restarts = 0
    /\ admitted = [ip \in Ips |-> <<>>]

\* Time passes; no request is kept waiting longer than MaxDelay.
Tick ==
    /\ clock < MaxClock
    /\ \A c \in Clients : request[c].ip # None => clock < request[c].now + MaxDelay
    /\ clock' = clock + 1
    /\ UNCHANGED <<hits, request, restarts, admitted>>

\* The arguments of allow are evaluated before it takes the mutex.
Arrive(c, ip) ==
    /\ request[c].ip = None
    /\ request' = [request EXCEPT ![c] = [ip |-> ip, now |-> clock]]
    /\ UNCHANGED <<clock, hits, restarts, admitted>>

Expired_Never(ip, now) == hits[ip] = NoWindow

Expired(ip, now) == hits[ip] = NoWindow \/ now > hits[ip].reset

Full_OneMore(ip) == hits[ip].count > Limit

Full(ip) == hits[ip].count >= Limit

Answered(c) == request' = [request EXCEPT ![c] = Idle]

Admission == [at |-> clock, run |-> restarts]

Admitted(ip) == admitted' = [admitted EXCEPT ![ip] = Append(@, Admission)]

\* allow: the first request of a window.
Open(c) ==
    LET ip == request[c].ip  now == request[c].now IN
    /\ ip # None
    /\ Expired(ip, now)
    /\ hits' = [hits EXCEPT ![ip] = [count |-> 1, reset |-> now + Window]]
    /\ Admitted(ip)
    /\ Answered(c)
    /\ UNCHANGED <<clock, restarts>>

\* allow: a further request of a window.
Count(c) ==
    LET ip == request[c].ip IN
    /\ ip # None
    /\ ~Expired(ip, request[c].now) /\ ~Full(ip)
    /\ hits' = [hits EXCEPT ![ip].count = @ + 1]
    /\ Admitted(ip)
    /\ Answered(c)
    /\ UNCHANGED <<clock, restarts>>

\* allow: one too many.
Refuse(c) ==
    LET ip == request[c].ip IN
    /\ ip # None
    /\ ~Expired(ip, request[c].now) /\ Full(ip)
    /\ Answered(c)
    /\ UNCHANGED <<clock, hits, restarts, admitted>>

\* newLimiter: the table begins empty, and the requests under way are lost.  What
\* was admitted remains admitted.
Restart ==
    /\ restarts < MaxRestarts
    /\ restarts' = restarts + 1
    /\ hits' = [ip \in Ips |-> NoWindow]
    /\ request' = [c \in Clients |-> Idle]
    /\ UNCHANGED <<clock, admitted>>

Next ==
    \/ Tick
    \/ \E c \in Clients :
         \/ \E ip \in Ips : Arrive(c, ip)
         \/ Open(c)
         \/ Count(c)
         \/ Refuse(c)
    \/ Restart

Spec == Init /\ [][Next]_vars

-----------------------------------------------------------------------------
(* Properties. *)

\* Types; a window counts at least one request and at most Limit.
TypeOK ==
    /\ clock \in Nat
    /\ hits \in [Ips -> Windows]
    /\ \A ip \in Ips : hits[ip] = NoWindow \/ hits[ip].count \in 1 .. Limit
    /\ request \in [Clients -> Requests]
    /\ restarts \in Nat
    /\ admitted \in [Ips -> Seq(Admissions)]

\* The restarts between two admissions.
Between(a, b) == b.run - a.run

\* How far the limit holds.  Not per window length: a burst at the end of one
\* window and another at the start of the next are both admitted, a request that
\* waited is counted by the time it took, and each restart forgets what was
\* counted and lets Limit more through.  But that is all: of any 2 * Limit
\* admissions of an address in a row, and Limit more for every restart between
\* the first and the last, the last is more than Window - MaxDelay after the
\* first (middleware/security.go:40-57).
BurstBounded ==
    \A ip \in Ips : \A i, j \in DOMAIN admitted[ip] :
        LET a == admitted[ip][i]  b == admitted[ip][j] IN
        i <= j /\ j - i + 1 >= (2 + Between(a, b)) * Limit => b.at - a.at > Window - MaxDelay

\* The last Limit admissions of the address were all made in this run of the
\* process, and within the length of a window before the request took the time,
\* or later.
LimitReached(ip, now) ==
    LET first == admitted[ip][Len(admitted[ip]) - Limit + 1] IN
    /\ Len(admitted[ip]) >= Limit
    /\ first.run = restarts /\ first.at >= now - Window

\* Nobody is refused for what others did, nor for what is longer ago than a
\* window or was before a restart (middleware/security.go:52-54): a refused
\* request is one of an address of which Limit requests were admitted since.
RefusalJustified ==
    [][\A c \in Clients : Refuse(c) => LimitReached(request[c].ip, request[c].now)]_vars
===============================================================================
