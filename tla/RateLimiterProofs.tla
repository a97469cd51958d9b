-------------------------- MODULE RateLimiterProofs --------------------------
(***************************************************************************)
(* Theorems about RateLimiter, for any number of requests and addresses,     *)
(* any limit, window and delay.  What allow does to the window of one        *)
(* address is stated by two lemmas about Account, which relates a window to  *)
(* the admissions of its address; the rest is bookkeeping.                   *)
(***************************************************************************)
EXTENDS RateLimiter, SequenceTheorems, TLAPS

\* Admissions are in order, none is in the future, and none is of a later run.
Ordered(a, t, r) ==
    /\ \A i, j \in 1 .. Len(a) : i <= j => a[i].at <= a[j].at /\ a[i].run <= a[j].run
    /\ \A i \in 1 .. Len(a) : a[i].at <= t /\ a[i].run <= r

\* The last n admissions are those of a window that began at s in run r: none was
\* before, and the first was at most MaxDelay later.
OfWindow(a, n, s, r) ==
    /\ n <= Len(a)
    /\ a[Len(a) - n + 1].at <= s + MaxDelay
    /\ \A j \in 1 .. Len(a) : j > Len(a) - n => a[j].at >= s /\ a[j].run = r

\* What k windows admit.
WindowsOf(k) == k * Limit

\* Before a window of run r that began at s, with the admission p: what is further
\* back than one window, and one for every run since, is at least a window older.
BeforeWindow(a, p, s, r) ==
    \A j \in 1 .. Len(a) :
        j + WindowsOf(1 + (r - a[j].run)) <= p => a[j].at + Window < s + MaxDelay

Bounded(a) ==
    \A i, j \in 1 .. Len(a) :
        i <= j /\ j - i + 1 >= WindowsOf(2 + (a[j].run - a[i].run)) =>
            a[i].at + Window < a[j].at + MaxDelay

InWindow(a, n, s, r) == OfWindow(a, n, s, r) /\ BeforeWindow(a, Len(a) - n + 1, s, r)

\* In a run that has not admitted the address, which began at f.
NotYet(a, f, r) ==
    /\ \A i \in 1 .. Len(a) : a[i].run < r
    /\ BeforeWindow(a, Len(a) + 1, f, r)

\* How the window of an address is related to its admissions.
Account(a, w, t, r, f) ==
    /\ Ordered(a, t, r)
    /\ IF w = NoWindow THEN NotYet(a, f, r) ELSE InWindow(a, w.count, w.reset - Window, r)
    /\ Bounded(a)

\* A request that waits has taken the time at most MaxDelay ago, and since the
\* process runs.
Waiting(f) ==
    \A c \in Clients : request[c].ip # None =>
        f <= request[c].now /\ request[c].now <= clock /\ clock <= request[c].now + MaxDelay

\* With a process that runs since f.
Since(f) ==
    /\ f <= clock
    /\ Waiting(f)
    /\ \A ip \in Ips : Account(admitted[ip], hits[ip], clock, restarts, f)

IInv ==
    /\ TypeOK
    /\ \E f \in Nat : Since(f)

-----------------------------------------------------------------------------
(* Arithmetic: Limit admissions for every run. *)

LEMMA Scaled ==
    ASSUME NEW k \in Nat
    PROVE  /\ WindowsOf(1 + k) \in Nat /\ WindowsOf(1 + k) >= Limit
           /\ WindowsOf(2 + k) = WindowsOf(1 + k) + Limit
  <1>1. Limit \in Nat /\ k * Limit \in Nat
    BY RateLimiterAssumption
  <1>2. (1 + k) * Limit = k * Limit + Limit /\ (2 + k) * Limit = k * Limit + 2 * Limit
    BY <1>1
  <1> QED
    BY <1>1, <1>2 DEF WindowsOf

\* The runs from one to the next but one before r + 1.
LEMMA OneMoreRun ==
    ASSUME NEW x \in Nat, NEW r \in Nat, NEW k \in Nat, k = r - x
    PROVE  1 + ((r + 1) - x) = 2 + k
  OBVIOUS

\* A window of n leaves room for Limit.
LEMMA LeavesRoom ==
    ASSUME NEW len \in Nat, NEW n \in 0 .. Limit, NEW j \in 1 .. len, NEW k \in Nat,
           j + WindowsOf(2 + k) <= len + 1
    PROVE  j + WindowsOf(1 + k) <= len - n + 1
  <1> DEFINE w == WindowsOf(1 + k)
  <1>1. w \in Nat /\ WindowsOf(2 + k) = w + Limit
    BY Scaled
  <1>2. Limit \in Nat
    BY RateLimiterAssumption
  <1> HIDE DEF w
  <1>3. j + (w + Limit) <= len + 1
    BY <1>1
  <1>4. j + w <= len - n + 1
    BY <1>1, <1>2, <1>3
  <1> QED
    BY <1>4 DEF w

LEMMA EntryTypes ==
    ASSUME NEW a \in Seq(Admissions), NEW i \in 1 .. Len(a)
    PROVE  a[i].at \in Nat /\ a[i].run \in Nat
  <1>1. a[i] \in Admissions
    BY ElementOfSeq
  <1> QED
    BY <1>1 DEF Admissions

LEMMA WindowsApart ==
    ASSUME NEW x \in Nat, NEW y \in Nat, NEW s \in Int, NEW now \in Nat,
           x <= y, y <= s + MaxDelay, now > s + Window
    PROVE  x + Window < now + MaxDelay
  <1>1. Window \in Nat /\ MaxDelay \in Nat
    BY RateLimiterAssumption
  <1> QED
    BY <1>1

\* Where the first of the last n of len begins.
LEMMA FirstOfLast ==
    ASSUME NEW len \in Nat, NEW n \in 1 .. Limit, n <= len
    PROVE  /\ len - n + 1 \in 1 .. len
           /\ \A j \in 1 .. len : j <= len + 1 - Limit => j <= len - n + 1
           /\ len + 1 - (n + 1) + 1 = len - n + 1
           /\ \A j \in 1 .. len : j > len + 1 - (n + 1) => j > len - n
  BY RateLimiterAssumption

-----------------------------------------------------------------------------
(* The account of one address. *)

LEMMA EmptyAccount == \A t, r, f \in Nat : Account(<<>>, NoWindow, t, r, f)
  BY DEF Account, Ordered, Bounded, NotYet, BeforeWindow

LEMMA AccountParts ==
    ASSUME NEW a, NEW w, NEW t, NEW r, NEW f, Account(a, w, t, r, f)
    PROVE  /\ Ordered(a, t, r) /\ Bounded(a)
           /\ w = NoWindow => NotYet(a, f, r)
           /\ w # NoWindow => InWindow(a, w.count, w.reset - Window, r)
  BY DEF Account

LEMMA AccountOfWindow ==
    ASSUME NEW a, NEW w, NEW t, NEW r, NEW f, w # NoWindow, Ordered(a, t, r), Bounded(a),
           InWindow(a, w.count, w.reset - Window, r)
    PROVE  Account(a, w, t, r, f)
  BY DEF Account

LEMMA LaterAccount ==
    ASSUME NEW a \in Seq(Admissions), NEW w, NEW t \in Nat, NEW r, NEW f,
           Account(a, w, t, r, f)
    PROVE  Account(a, w, t + 1, r, f)
  <1>1. Ordered(a, t, r)
    BY AccountParts
  <1>2. Ordered(a, t + 1, r)
    BY <1>1, EntryTypes DEF Ordered
  <1> QED
    BY <1>2 DEF Account

LEMMA OlderThanLater ==
    ASSUME NEW x \in Nat, NEW s \in Int, NEW t \in Nat, s <= t, x + Window < s + MaxDelay
    PROVE  x + Window < t + MaxDelay
  <1>1. Window \in Nat /\ MaxDelay \in Nat
    BY RateLimiterAssumption
  <1> QED
    BY <1>1

\* What was far enough back stays so over a restart, since a window admits at
\* most Limit.
LEMMA RestartBefore ==
    ASSUME NEW a \in Seq(Admissions), NEW n \in 0 .. Limit, NEW s \in Int, NEW t \in Nat,
           NEW r \in Nat, NEW q \in Nat, q = r + 1,
           s <= t, Ordered(a, t, r), BeforeWindow(a, Len(a) - n + 1, s, r)
    PROVE  BeforeWindow(a, Len(a) + 1, t, q)
  <1>1. ASSUME NEW j \in 1 .. Len(a), j + WindowsOf(1 + (q - a[j].run)) <= Len(a) + 1
        PROVE  a[j].at + Window < t + MaxDelay
    <2>1. a[j].at \in Nat /\ a[j].run \in Nat /\ a[j].run <= r /\ Len(a) \in Nat
      BY EntryTypes DEF Ordered
    <2>2. PICK k \in Nat : k = r - a[j].run
      BY <2>1
    <2>3. 1 + (q - a[j].run) = 2 + k
      BY <2>1, <2>2, OneMoreRun
    <2>4. j + WindowsOf(2 + k) <= Len(a) + 1
      BY <1>1, <2>3
    <2>5. j + WindowsOf(1 + k) <= Len(a) - n + 1
      BY <2>1, <2>4, LeavesRoom
    <2>6. a[j].at + Window < s + MaxDelay
      BY <2>2, <2>5 DEF BeforeWindow
    <2> QED
      BY <2>1, <2>6, OlderThanLater
  <1> QED
    BY <1>1, Zenon DEF BeforeWindow

\* A restart forgets the window.
LEMMA RestartAccount ==
    ASSUME NEW a \in Seq(Admissions), NEW w \in Windows, NEW t \in Nat, NEW r \in Nat,
           NEW f \in Nat, f <= t, Account(a, w, t, r, f),
           w = NoWindow \/ w.count \in 1 .. Limit
    PROVE  Account(a, NoWindow, t, r + 1, t)
  <1>1. Ordered(a, t, r) /\ Bounded(a)
    BY AccountParts
  <1>2. Ordered(a, t, r + 1) /\ \A i \in 1 .. Len(a) : a[i].run < r + 1
    BY <1>1, EntryTypes DEF Ordered
  <1>3. PICK n \in 0 .. Limit, s \in Int :
          s <= t /\ BeforeWindow(a, Len(a) - n + 1, s, r)
    <2>1. CASE w = NoWindow
      <3>1. BeforeWindow(a, Len(a) + 1, f, r) /\ Len(a) - 0 + 1 = Len(a) + 1
        BY <2>1, AccountParts DEF NotYet
      <3>2. 0 \in 0 .. Limit /\ f \in Int
        BY RateLimiterAssumption
      <3> QED
        BY <3>1, <3>2
    <2>2. CASE w # NoWindow
      <3>1. /\ OfWindow(a, w.count, w.reset - Window, r)
            /\ BeforeWindow(a, Len(a) - w.count + 1, w.reset - Window, r)
        BY <2>2, AccountParts DEF InWindow
      <3>2. w.count \in 0 .. Limit /\ w.count >= 1 /\ w.reset - Window \in Int
        BY <2>2, RateLimiterAssumption DEF Windows
      <3>3. Len(a) \in 1 .. Len(a) /\ Len(a) > Len(a) - w.count
        BY <3>1, <3>2 DEF OfWindow
      <3>4. w.reset - Window <= a[Len(a)].at /\ a[Len(a)].at <= t /\ a[Len(a)].at \in Nat
        BY <1>1, <3>1, <3>3, EntryTypes DEF OfWindow, Ordered
      <3>5. w.reset - Window <= t
        BY <3>2, <3>4
      <3> QED
        BY <3>1, <3>2, <3>5
    <2> QED
      BY <2>1, <2>2
  <1>4. BeforeWindow(a, Len(a) + 1, t, r + 1)
    <2>1. PICK q \in Nat : q = r + 1
      OBVIOUS
    <2>2. BeforeWindow(a, Len(a) + 1, t, q)
      BY <1>1, <1>3, <2>1, RestartBefore, Zenon
    <2> QED
      BY <2>1, <2>2
  <1> QED
    BY <1>1, <1>2, <1>4 DEF Account, NotYet

\* One more admission, at t in run r.
Grown(a, b, t, r) ==
    /\ Len(b) = Len(a) + 1
    /\ b[Len(b)].at = t /\ b[Len(b)].run = r
    /\ \A i \in 1 .. Len(a) : b[i] = a[i]

LEMMA AppendGrows ==
    ASSUME NEW a \in Seq(Admissions), NEW t \in Nat, NEW r \in Nat
    PROVE  LET b == Append(a, [at |-> t, run |-> r])
           IN  b \in Seq(Admissions) /\ Grown(a, b, t, r)
  <1>1. [at |-> t, run |-> r] \in Admissions
    BY DEF Admissions
  <1> QED
    BY <1>1, AppendProperties DEF Grown

LEMMA OneLonger ==
    ASSUME NEW a \in Seq(Admissions), NEW b \in Seq(Admissions), NEW t, NEW r,
           Grown(a, b, t, r)
    PROVE  /\ Len(a) \in Nat /\ Len(b) = Len(a) + 1
           /\ \A j \in 1 .. Len(b) : j \in 1 .. Len(a) \/ j = Len(b)
  BY DEF Grown

LEMMA GrownOrdered ==
    ASSUME NEW a \in Seq(Admissions), NEW b \in Seq(Admissions), NEW t \in Nat, NEW r \in Nat,
           Grown(a, b, t, r), Ordered(a, t, r)
    PROVE  Ordered(b, t, r)
  <1>1. Len(a) \in Nat /\ \A i \in 1 .. Len(b) : i \in 1 .. Len(a) \/ i = Len(b)
    BY OneLonger
  <1>2. \A i \in 1 .. Len(b) : b[i].at <= t /\ b[i].run <= r
    BY <1>1 DEF Grown, Ordered
  <1>3. ASSUME NEW i \in 1 .. Len(b), NEW j \in 1 .. Len(b), i <= j
        PROVE  b[i].at <= b[j].at /\ b[i].run <= b[j].run
    <2>1. CASE j = Len(b)
      BY <2>1, <1>2 DEF Grown
    <2>2. CASE j \in 1 .. Len(a)
      <3>1. i \in 1 .. Len(a)
        BY <1>1, <1>3, <2>2
      <3> QED
        BY <1>3, <2>2, <3>1 DEF Grown, Ordered
    <2> QED
      BY <1>1, <2>1, <2>2
  <1> QED
    BY <1>2, <1>3 DEF Ordered

\* What BeforeWindow says of the window makes the new admission late enough.
LEMMA GrownBounded ==
    ASSUME NEW a \in Seq(Admissions), NEW b \in Seq(Admissions), NEW t \in Nat, NEW r \in Nat,
           NEW n \in 1 .. Limit, NEW s \in Int,
           Grown(a, b, t, r), Ordered(b, t, r), Bounded(a),
           BeforeWindow(b, Len(b) - n + 1, s, r), s <= t
    PROVE  Bounded(b)
  <1> SUFFICES ASSUME NEW i \in 1 .. Len(b), NEW m \in 1 .. Len(b), i <= m,
                      m - i + 1 >= WindowsOf(2 + (b[m].run - b[i].run))
               PROVE  b[i].at + Window < b[m].at + MaxDelay
    BY DEF Bounded
  <1>0. Len(a) \in Nat /\ Len(b) = Len(a) + 1
    BY OneLonger
  <1>1. CASE m \in 1 .. Len(a)
    <2>1. i \in 1 .. Len(a)
      BY <1>0, <1>1
    <2>2. b[i] = a[i] /\ b[m] = a[m]
      BY <1>1, <2>1 DEF Grown
    <2> QED
      BY <1>1, <2>1, <2>2 DEF Bounded
  <1>2. CASE m = Len(b)
    <2>1. b[i].at \in Nat /\ b[i].run \in Nat /\ b[i].run <= r /\ b[m].at = t /\ b[m].run = r
      BY <1>2, EntryTypes DEF Grown, Ordered
    <2>2. PICK k \in Nat : k = r - b[i].run
      BY <2>1
    <2>3. Len(b) - i + 1 >= WindowsOf(2 + k)
      BY <1>2, <2>1, <2>2
    <2>4. i + WindowsOf(2 + k) <= Len(b) + 1
      <3> DEFINE w == WindowsOf(2 + k)
      <3>1. w \in Int /\ Len(b) \in Nat
        BY <1>0, Scaled, RateLimiterAssumption
      <3>2. Len(b) - i + 1 >= w
        BY <2>3
      <3> HIDE DEF w
      <3>3. i + w <= Len(b) + 1
        BY <3>1, <3>2
      <3> QED
        BY <3>3 DEF w
    <2>5. i + WindowsOf(1 + k) <= Len(b) - n + 1
      <3>1. Len(b) \in Nat /\ n \in 0 .. Limit
        BY <1>0, RateLimiterAssumption
      <3> QED
        BY <2>4, <3>1, LeavesRoom
    <2>6. b[i].at + Window < s + MaxDelay
      BY <2>2, <2>5 DEF BeforeWindow
    <2> QED
      BY <2>1, <2>6, OlderThanLater
  <1> QED
    BY <1>1, <1>2, OneLonger

\* allow opens a window: the first of its run, or one that begins after the end
\* of the window before.
LEMMA OpenWindow ==
    ASSUME NEW a \in Seq(Admissions), NEW b \in Seq(Admissions), NEW t \in Nat, NEW r \in Nat,
           NEW now \in Nat, NEW f \in Nat, f <= now,
           Grown(a, b, t, r), Ordered(a, t, r), Bounded(a), now <= t, t <= now + MaxDelay,
           \/ NotYet(a, f, r)
           \/ \E n \in 1 .. Limit, s \in Int : InWindow(a, n, s, r) /\ now > s + Window
    PROVE  Ordered(b, t, r) /\ InWindow(b, 1, now, r) /\ Bounded(b)
  <1> DEFINE la == Len(a)  lb == Len(b)
  <1>0. la \in Nat /\ lb = la + 1 /\ Limit \in Nat
    BY RateLimiterAssumption DEF Grown
  <1>1. Ordered(b, t, r)
    BY GrownOrdered
  <1>2. OfWindow(b, 1, now, r)
    BY <1>0 DEF OfWindow, Grown
  <1>3. BeforeWindow(b, lb, now, r)
    <2> SUFFICES ASSUME NEW j \in 1 .. lb, j + WindowsOf(1 + (r - b[j].run)) <= lb
                 PROVE  b[j].at + Window < now + MaxDelay
      BY DEF BeforeWindow
    <2>1. b[j].at \in Nat /\ b[j].run \in Nat /\ b[j].run <= r
      BY <1>1, EntryTypes DEF Ordered
    <2>2. PICK k \in Nat : k = r - b[j].run
      BY <2>1
    <2>3. /\ j + WindowsOf(1 + k) <= la + 1
          /\ WindowsOf(1 + k) \in Nat /\ WindowsOf(1 + k) >= Limit
      BY <1>0, <2>2, Scaled
    <2>4. j \in 1 .. la /\ j <= la + 1 - Limit
      BY <1>0, <2>3, RateLimiterAssumption
    <2>5. b[j] = a[j]
      BY <2>4 DEF Grown
    <2>6. CASE NotYet(a, f, r)
      <3>1. j + WindowsOf(1 + (r - a[j].run)) <= la + 1
        BY <1>0, <2>2, <2>3, <2>5
      <3>2. a[j].at + Window < f + MaxDelay
        BY <2>4, <2>6, <3>1 DEF NotYet, BeforeWindow
      <3> QED
        BY <2>1, <2>5, <3>2, RateLimiterAssumption
    <2>7. ASSUME NEW n \in 1 .. Limit, NEW s \in Int, InWindow(a, n, s, r), now > s + Window
          PROVE  b[j].at + Window < now + MaxDelay
      <3>1. n <= la
        BY <2>7 DEF InWindow, OfWindow
      <3>2. PICK g \in 1 .. la : g = la - n + 1
        BY <3>1, <1>0, FirstOfLast
      <3>3. j <= g
        BY <2>4, <3>1, <3>2, <1>0, FirstOfLast
      <3>4. a[j].at <= a[g].at /\ a[g].at <= s + MaxDelay
        BY <2>4, <2>7, <3>2, <3>3 DEF Ordered, InWindow, OfWindow
      <3>5. a[j].at \in Nat /\ a[g].at \in Nat
        BY <2>4, <3>2, EntryTypes
      <3> QED
        BY <2>5, <2>7, <3>4, <3>5, WindowsApart
    <2> QED
      BY <2>6, <2>7
  <1>4. Bounded(b)
    <2>1. lb - 1 + 1 = lb /\ 1 \in 1 .. Limit
      BY <1>0, RateLimiterAssumption
    <2> QED
      BY <2>1, <1>1, <1>3, GrownBounded
  <1>5. lb - 1 + 1 = lb
    BY <1>0
  <1> QED
    BY <1>1, <1>2, <1>3, <1>4, <1>5 DEF InWindow

\* allow counts a request in its window.
LEMMA CountInWindow ==
    ASSUME NEW a \in Seq(Admissions), NEW b \in Seq(Admissions), NEW t \in Nat, NEW r \in Nat,
           NEW n \in 1 .. Limit, NEW s \in Int, n < Limit,
           Grown(a, b, t, r), Ordered(a, t, r), Bounded(a), InWindow(a, n, s, r)
    PROVE  Ordered(b, t, r) /\ InWindow(b, n + 1, s, r) /\ Bounded(b)
  <1> DEFINE la == Len(a)  lb == Len(b)
  <1>0. la \in Nat /\ lb = la + 1 /\ Limit \in Nat /\ n <= la
    BY RateLimiterAssumption DEF Grown, InWindow, OfWindow
  <1>1. Ordered(b, t, r)
    BY GrownOrdered
  <1>2. t >= s
    <2>1. la \in 1 .. la /\ la > la - n
      BY <1>0
    <2>2. a[la].at >= s /\ a[la].at <= t /\ a[la].at \in Nat
      BY <2>1, EntryTypes DEF InWindow, OfWindow, Ordered
    <2> QED
      BY <2>2
  <1>3. OfWindow(b, n + 1, s, r)
    <2>1. PICK g \in 1 .. la : g = la - n + 1
      BY <1>0, FirstOfLast
    <2>a. lb - (n + 1) + 1 = g
      BY <2>1, <1>0, FirstOfLast
    <2>2. b[g].at <= s + MaxDelay
      BY <2>1 DEF InWindow, OfWindow, Grown
    <2>3. ASSUME NEW j \in 1 .. lb, j > lb - (n + 1) PROVE b[j].at >= s /\ b[j].run = r
      <3>1. CASE j \in 1 .. la
        <4>1. j > la - n
          BY <2>3, <3>1, <1>0, FirstOfLast
        <4> QED
          BY <3>1, <4>1 DEF InWindow, OfWindow, Grown
      <3>2. CASE j = lb
        BY <3>2, <1>2 DEF Grown
      <3>3. j \in 1 .. la \/ j = lb
        BY OneLonger
      <3> QED
        BY <3>1, <3>2, <3>3
    <2>4. n + 1 <= lb
      BY <1>0
    <2> QED
      BY <2>a, <2>2, <2>3, <2>4 DEF OfWindow
  <1>4. BeforeWindow(b, lb - (n + 1) + 1, s, r)
    <2>0. lb - (n + 1) + 1 = la - n + 1
      BY <1>0
    <2> SUFFICES ASSUME NEW j \in 1 .. lb, j + WindowsOf(1 + (r - b[j].run)) <= la - n + 1
                 PROVE  b[j].at + Window < s + MaxDelay
      BY <2>0 DEF BeforeWindow
    <2>1. b[j].run \in Nat /\ b[j].run <= r
      BY <1>1, EntryTypes DEF Ordered
    <2>2. PICK k \in Nat : k = r - b[j].run
      BY <2>1
    <2>3. j + WindowsOf(1 + k) <= la - n + 1 /\ WindowsOf(1 + k) \in Nat
      BY <2>2, Scaled
    <2>4. j \in 1 .. la
      BY <1>0, <2>3, Scaled, RateLimiterAssumption
    <2>5. b[j] = a[j]
      BY <2>4 DEF Grown
    <2> QED
      BY <2>2, <2>3, <2>4, <2>5 DEF InWindow, BeforeWindow
  <1>5. Bounded(b)
    <2>1. n + 1 \in 1 .. Limit
      BY <1>0
    <2> QED
      BY <2>1, <1>1, <1>2, <1>4, GrownBounded
  <1> QED
    BY <1>1, <1>3, <1>4, <1>5 DEF InWindow

-----------------------------------------------------------------------------
(* The invariant. *)

LEMMA InitIInv == Init => IInv
  <1> SUFFICES ASSUME Init PROVE IInv
    OBVIOUS
  <1>1. TypeOK
    <2>1. NoWindow \in Windows /\ Idle \in Requests /\ <<>> \in Seq(Admissions)
      BY DEF NoWindow, Windows, Idle, Requests
    <2> QED
      BY <2>1 DEF Init, TypeOK
  <1>2. Waiting(0)
    BY DEF Init, Waiting, Idle
  <1>3. clock = 0 /\ restarts = 0 /\ \A ip \in Ips : admitted[ip] = <<>> /\ hits[ip] = NoWindow
    BY DEF Init
  <1>4. \A ip \in Ips : Account(admitted[ip], hits[ip], clock, restarts, 0)
    BY <1>3, EmptyAccount
  <1> QED
    BY <1>1, <1>2, <1>3, <1>4 DEF IInv, Since

\* One address is admitted: its window becomes v.
LEMMA AdmitIInv ==
    ASSUME TypeOK, NEW f \in Nat, Since(f), NEW c \in Clients, NEW ip \in Ips,
           NEW v \in Windows, v.count \in 1 .. Limit,
           hits' = [hits EXCEPT ![ip] = v], Admitted(ip), Answered(c),
           UNCHANGED <<clock, restarts>>,
           Account(Append(admitted[ip], Admission), v, clock, restarts, f)
    PROVE  IInv'
  <1>1. /\ hits' \in [Ips -> Windows] /\ admitted' \in [Ips -> Seq(Admissions)]
        /\ request' \in [Clients -> Requests] /\ clock' \in Nat /\ restarts' \in Nat
    <2>1. Admission \in Admissions /\ Idle \in Requests
      BY DEF TypeOK, Admission, Admissions, Idle, Requests
    <2>2. Append(admitted[ip], Admission) \in Seq(Admissions)
      BY <2>1, AppendProperties DEF TypeOK
    <2> QED
      BY <2>1, <2>2 DEF TypeOK, Admitted, Answered
  <1>2. \A p \in Ips : /\ hits'[p] = IF p = ip THEN v ELSE hits[p]
                       /\ admitted'[p] = IF p = ip THEN Append(admitted[ip], Admission)
                                         ELSE admitted[p]
    BY DEF TypeOK, Admitted
  <1>3. \A d \in Clients : request'[d] = IF d = c THEN Idle ELSE request[d]
    BY DEF TypeOK, Answered
  <1>4. TypeOK'
    BY <1>1, <1>2 DEF TypeOK
  <1>5. Waiting(f)'
    BY <1>3 DEF Since, Waiting, Idle
  <1>6. \A p \in Ips : Account(admitted'[p], hits'[p], clock', restarts', f)
    BY <1>2 DEF Since
  <1> QED
    BY <1>4, <1>5, <1>6 DEF IInv, Since

\* What a waiting request finds.
LEMMA Found ==
    ASSUME TypeOK, NEW f \in Nat, Since(f), NEW c \in Clients, request[c].ip # None
    PROVE  /\ request[c].ip \in Ips /\ request[c].now \in Nat
           /\ clock \in Nat /\ restarts \in Nat
           /\ f <= request[c].now
           /\ request[c].now <= clock /\ clock <= request[c].now + MaxDelay
           /\ admitted[request[c].ip] \in Seq(Admissions) /\ hits[request[c].ip] \in Windows
           /\ Account(admitted[request[c].ip], hits[request[c].ip], clock, restarts, f)
           /\ hits[request[c].ip] = NoWindow \/ hits[request[c].ip].count \in 1 .. Limit
  <1>1. request[c].ip \in Ips /\ request[c].now \in Nat
    BY DEF TypeOK, Requests
  <1> QED
    BY <1>1 DEF Since, TypeOK, Waiting

LEMMA OpenIInv == ASSUME IInv, NEW c \in Clients, Open(c) PROVE IInv'
  <1> DEFINE ip == request[c].ip
             now == request[c].now
             w == hits[ip]
             a == admitted[ip]
             v == [count |-> 1, reset |-> now + Window]
             b == Append(a, [at |-> clock, run |-> restarts])
  <1>0. PICK f \in Nat : TypeOK /\ Since(f)
    BY DEF IInv
  <1>1. ip # None
    BY DEF Open
  <1>2. /\ ip \in Ips /\ now \in Nat /\ clock \in Nat /\ restarts \in Nat
        /\ f <= now /\ now <= clock
        /\ clock <= now + MaxDelay /\ a \in Seq(Admissions) /\ w \in Windows
        /\ Account(a, w, clock, restarts, f)
        /\ w = NoWindow \/ w.count \in 1 .. Limit
    BY <1>0, <1>1, Found
  <1>3. /\ v \in Windows /\ v.count = 1 /\ v.reset - Window = now /\ v # NoWindow
        /\ 1 \in 1 .. Limit
    BY <1>2, RateLimiterAssumption DEF Windows, NoWindow
  <1>4. \/ NotYet(a, f, restarts)
        \/ \E n \in 1 .. Limit, s \in Int : InWindow(a, n, s, restarts) /\ now > s + Window
    <2>1. CASE w = NoWindow
      BY <1>2, <2>1, AccountParts
    <2>2. CASE w # NoWindow /\ now > w.reset
      <3>1. InWindow(a, w.count, w.reset - Window, restarts) /\ w.count \in 1 .. Limit
        BY <1>2, <2>2, AccountParts
      <3>2. w.reset - Window \in Int /\ now > (w.reset - Window) + Window
        BY <1>2, <2>2, RateLimiterAssumption DEF Windows
      <3> QED
        BY <3>1, <3>2
    <2> QED
      BY <2>1, <2>2 DEF Open, Expired
  <1>5. Account(b, v, clock, restarts, f)
    <2>1. b \in Seq(Admissions) /\ Grown(a, b, clock, restarts)
      BY <1>2, AppendGrows
    <2>2. Ordered(a, clock, restarts) /\ Bounded(a)
      BY <1>2, AccountParts
    <2> HIDE DEF a, b, v, now
    <2>3. Ordered(b, clock, restarts) /\ InWindow(b, 1, now, restarts) /\ Bounded(b)
      BY <1>2, <1>4, <2>1, <2>2, OpenWindow
    <2> QED
      BY <2>3, <1>3, AccountOfWindow
  <1>6. b = Append(a, Admission)
    BY DEF Admission
  <1> QED
    BY <1>0, <1>2, <1>3, <1>5, <1>6, AdmitIInv DEF Open

LEMMA CountIInv == ASSUME IInv, NEW c \in Clients, Count(c) PROVE IInv'
  <1> DEFINE ip == request[c].ip
             w == hits[ip]
             a == admitted[ip]
             v == [w EXCEPT !.count = @ + 1]
             b == Append(a, [at |-> clock, run |-> restarts])
  <1>0. PICK f \in Nat : TypeOK /\ Since(f)
    BY DEF IInv
  <1>1. ip # None
    BY DEF Count
  <1>2. /\ ip \in Ips /\ clock \in Nat /\ restarts \in Nat
        /\ a \in Seq(Admissions) /\ w \in Windows
        /\ Account(a, w, clock, restarts, f)
        /\ w = NoWindow \/ w.count \in 1 .. Limit
    BY <1>0, <1>1, Found
  <1>3. w # NoWindow /\ ~(w.count >= Limit)
    BY DEF Count, Expired, Full
  <1>4. w.count \in 1 .. Limit /\ w.count < Limit
    BY <1>2, <1>3, RateLimiterAssumption
  <1>5. v \in Windows /\ v.count = w.count + 1 /\ v.reset = w.reset
    BY <1>2 DEF Windows
  <1>6. v # NoWindow /\ v.count \in 1 .. Limit /\ w.reset - Window \in Int
    <2>1. w.reset \in Nat /\ NoWindow.count = 0
      BY <1>2 DEF Windows, NoWindow
    <2> HIDE DEF v, w
    <2>2. v.count \in 1 .. Limit /\ v.count # 0
      BY <1>4, <1>5, RateLimiterAssumption
    <2> QED
      BY <2>1, <2>2, RateLimiterAssumption
  <1>7. Account(b, v, clock, restarts, f)
    <2>1. b \in Seq(Admissions) /\ Grown(a, b, clock, restarts)
      BY <1>2, AppendGrows
    <2>2. /\ Ordered(a, clock, restarts) /\ Bounded(a)
          /\ InWindow(a, w.count, w.reset - Window, restarts)
      BY <1>2, <1>3, AccountParts
    <2> HIDE DEF a, b, v, w
    <2>3. /\ Ordered(b, clock, restarts) /\ Bounded(b)
          /\ InWindow(b, w.count + 1, w.reset - Window, restarts)
      <3>1. PICK n \in 1 .. Limit, s \in Int :
              n = w.count /\ s = w.reset - Window /\ n < Limit
        BY <1>4, <1>6
      <3>2. a \in Seq(Admissions) /\ clock \in Nat /\ restarts \in Nat
        BY <1>2
      <3>3. InWindow(a, n, s, restarts)
        BY <2>2, <3>1
      <3>4. Ordered(a, clock, restarts) /\ Bounded(a) /\ n < Limit
        BY <2>2, <3>1
      <3>5. Ordered(b, clock, restarts) /\ Bounded(b) /\ InWindow(b, n + 1, s, restarts)
        BY <2>1, <3>2, <3>3, <3>4, CountInWindow, Zenon
      <3> QED
        BY <3>1, <3>5
    <2> QED
      BY <2>3, <1>5, <1>6, AccountOfWindow
  <1>8. /\ hits' = [hits EXCEPT ![ip] = v] /\ Admitted(ip) /\ Answered(c)
        /\ UNCHANGED <<clock, restarts>>
    BY DEF Count
  <1>9. b = Append(a, Admission)
    BY DEF Admission
  <1> HIDE DEF v
  <1> QED
    BY <1>0, <1>2, <1>5, <1>6, <1>7, <1>8, <1>9, AdmitIInv

LEMMA RestartIInv == ASSUME IInv, Restart PROVE IInv'
  <1>0. PICK f \in Nat : TypeOK /\ Since(f)
    BY DEF IInv
  <1>1. clock \in Nat /\ restarts \in Nat /\ clock' = clock /\ restarts' = restarts + 1
    BY <1>0 DEF TypeOK, Restart
  <1>2. TypeOK'
    BY <1>0, <1>1 DEF TypeOK, Restart, Windows, NoWindow, Requests, Idle
  <1>3. PICK g \in Nat : g = clock
    BY <1>1
  <1>4. ASSUME NEW ip \in Ips
        PROVE  Account(admitted[ip], NoWindow, clock, restarts + 1, clock)
    <2>1. /\ admitted[ip] \in Seq(Admissions) /\ hits[ip] \in Windows /\ f <= clock
          /\ Account(admitted[ip], hits[ip], clock, restarts, f)
          /\ hits[ip] = NoWindow \/ hits[ip].count \in 1 .. Limit
      BY <1>0 DEF TypeOK, Since
    <2> QED
      BY <1>1, <2>1, RestartAccount
  <1>5. \A ip \in Ips : Account(admitted'[ip], hits'[ip], clock', restarts', clock')
    BY <1>1, <1>4 DEF Restart
  <1>6. \E h \in Nat : Since(h)'
    <2>1. g <= clock'
      BY <1>1, <1>3
    <2>2. Waiting(g)'
      BY DEF Waiting, Restart, Idle
    <2>3. \A ip \in Ips : Account(admitted'[ip], hits'[ip], clock', restarts', g)
      BY <1>1, <1>3, <1>5
    <2> QED
      BY <2>1, <2>2, <2>3 DEF Since
  <1> QED
    BY <1>2, <1>6 DEF IInv

LEMMA NextIInv == IInv /\ [Next]_vars => IInv'
  <1> SUFFICES ASSUME IInv, [Next]_vars PROVE IInv'
    OBVIOUS
  <1>0. PICK f \in Nat : TypeOK /\ Since(f)
    BY DEF IInv
  <1>1. CASE Tick
    <2>1. clock \in Nat /\ clock' = clock + 1 /\ f <= clock
      BY <1>0, <1>1 DEF TypeOK, Since, Tick
    <2>2. TypeOK'
      BY <1>0, <1>1, <2>1 DEF TypeOK, Tick
    <2>3. Waiting(f)'
      <3> SUFFICES ASSUME NEW c \in Clients, request[c].ip # None
                   PROVE  /\ f <= request[c].now
                          /\ request[c].now <= clock + 1 /\ clock + 1 <= request[c].now + MaxDelay
        BY <1>1, <2>1 DEF Waiting, Tick
      <3>1. clock < request[c].now + MaxDelay
        BY <1>1 DEF Tick
      <3> QED
        BY <1>0, <3>1, Found, RateLimiterAssumption
    <2>4. \A ip \in Ips : Account(admitted[ip], hits[ip], clock + 1, restarts, f)
      BY <1>0, <2>1, LaterAccount DEF Since, TypeOK
    <2>5. f <= clock + 1
      BY <2>1
    <2> QED
      BY <1>1, <2>1, <2>2, <2>3, <2>4, <2>5 DEF IInv, Since, Tick
  <1>2. ASSUME NEW c \in Clients, NEW ip \in Ips, Arrive(c, ip) PROVE IInv'
    <2>1. [ip |-> ip, now |-> clock] \in Requests
      BY <1>0 DEF Requests, TypeOK
    <2>2. \A d \in Clients :
            request'[d] = IF d = c THEN [ip |-> ip, now |-> clock] ELSE request[d]
      BY <1>0, <1>2 DEF Arrive, TypeOK
    <2>3. TypeOK'
      BY <1>0, <1>2, <2>1 DEF TypeOK, Arrive
    <2>4. Waiting(f)'
      <3>1. clock \in Nat /\ f <= clock /\ clock <= clock + MaxDelay
        BY <1>0, RateLimiterAssumption DEF TypeOK, Since
      <3> QED
        BY <1>0, <1>2, <2>2, <3>1 DEF Since, Waiting, Arrive
    <2> QED
      BY <1>0, <1>2, <2>3, <2>4 DEF IInv, Since, Arrive
  <1>3. ASSUME NEW c \in Clients, Refuse(c) PROVE IInv'
    <2>1. \A d \in Clients : request'[d] = IF d = c THEN Idle ELSE request[d]
      BY <1>0, <1>3 DEF Refuse, Answered, TypeOK
    <2>2. TypeOK'
      BY <1>0, <1>3 DEF TypeOK, Refuse, Answered, Idle, Requests
    <2>3. Waiting(f)'
      BY <1>0, <1>3, <2>1 DEF Since, Waiting, Refuse, Idle
    <2> QED
      BY <1>0, <1>3, <2>2, <2>3 DEF IInv, Since, Refuse
  <1>5. CASE UNCHANGED vars
    <2>1. TypeOK' /\ Since(f)'
      BY <1>0, <1>5 DEF TypeOK, Since, Waiting, vars
    <2> QED
      BY <2>1 DEF IInv
  <1> QED
    BY <1>1, <1>2, <1>3, <1>5, OpenIInv, CountIInv, RestartIInv DEF Next

THEOREM Invariant == Spec => []IInv
  BY InitIInv, NextIInv, PTL DEF Spec

\* Windows, requests and admissions keep their types, and no window counts more
\* than Limit requests, for any number of addresses and requests.
THEOREM TypeCorrect == Spec => []TypeOK
  <1>1. IInv => TypeOK
    BY DEF IInv
  <1> QED
    BY Invariant, <1>1, PTL

\* Of 2 * Limit admissions of an address in a row, and Limit more for every restart
\* between them, the last is more than Window - MaxDelay after the first.
THEOREM BurstsAreBounded == Spec => []BurstBounded
  <1>1. IInv => BurstBounded
    <2> SUFFICES ASSUME IInv, NEW ip \in Ips,
                        NEW i \in DOMAIN admitted[ip], NEW j \in DOMAIN admitted[ip], i <= j,
                        j - i + 1 >= (2 + Between(admitted[ip][i], admitted[ip][j])) * Limit
                 PROVE  admitted[ip][j].at - admitted[ip][i].at > Window - MaxDelay
      BY DEF BurstBounded
    <2> DEFINE a == admitted[ip]
    <2>1. a \in Seq(Admissions) /\ Bounded(a)
      BY DEF IInv, TypeOK, Since, Account
    <2>2. i \in 1 .. Len(a) /\ j \in 1 .. Len(a)
      BY <2>1
    <2>3. a[i].at \in Nat /\ a[j].at \in Nat
      BY <2>1, <2>2, EntryTypes
    <2>4. j - i + 1 >= WindowsOf(2 + (a[j].run - a[i].run))
      BY DEF Between, WindowsOf
    <2> HIDE DEF a
    <2>5. a[i].at + Window < a[j].at + MaxDelay
      BY <2>1, <2>2, <2>4 DEF Bounded
    <2>6. a[j].at - a[i].at > Window - MaxDelay
      BY <2>3, <2>5, RateLimiterAssumption
    <2> QED
      BY <2>6 DEF a
  <1> QED
    BY Invariant, <1>1, PTL

\* A refused request is one of an address of which Limit requests were admitted
\* in this run of the process, and in the length of a window before it took the
\* time, or since.
THEOREM RefusalsAreJustified == Spec => RefusalJustified
  <1>1. ASSUME IInv, NEW c \in Clients, Refuse(c)
        PROVE  LimitReached(request[c].ip, request[c].now)
    <2> DEFINE ip == request[c].ip
               now == request[c].now
               w == hits[ip]
               a == admitted[ip]
    <2>0. PICK f \in Nat : TypeOK /\ Since(f)
      BY <1>1 DEF IInv
    <2>1. ip # None /\ w # NoWindow /\ ~(now > w.reset) /\ w.count >= Limit
      BY <1>1 DEF Refuse, Expired, Full
    <2>2. /\ now \in Nat /\ a \in Seq(Admissions) /\ w \in Windows
          /\ Account(a, w, clock, restarts, f)
          /\ w.count \in 1 .. Limit
      BY <2>0, <2>1, Found
    <2>3. OfWindow(a, w.count, w.reset - Window, restarts)
      BY <2>1, <2>2, AccountParts DEF InWindow
    <2>4. w.count = Limit /\ w.reset - Window >= now - Window /\ w.reset - Window \in Int
      BY <2>1, <2>2, RateLimiterAssumption DEF Windows
    <2>5. PICK s \in Int : s >= now - Window /\ OfWindow(a, Limit, s, restarts)
      BY <2>3, <2>4
    <2>6. Limit <= Len(a) /\ Limit \in 1 .. Limit /\ Len(a) \in Nat
      BY <2>2, <2>5, RateLimiterAssumption DEF OfWindow
    <2>7. PICK g \in 1 .. Len(a) : g = Len(a) - Limit + 1 /\ g > Len(a) - Limit
      <3>1. Len(a) - Limit + 1 \in 1 .. Len(a) /\ Len(a) - Limit + 1 > Len(a) - Limit
        BY <2>6, FirstOfLast, RateLimiterAssumption
      <3> QED
        BY <3>1
    <2>8. a[g].at >= s /\ a[g].run = restarts /\ a[g].at \in Nat
      BY <2>2, <2>5, <2>7, EntryTypes DEF OfWindow
    <2>9. a[g].at >= now - Window
      BY <2>2, <2>5, <2>8, RateLimiterAssumption
    <2> QED
      BY <2>6, <2>7, <2>8, <2>9 DEF LimitReached
  <1>2. IInv /\ [Next]_vars =>
          [\A c \in Clients : Refuse(c) => LimitReached(request[c].ip, request[c].now)]_vars
    BY <1>1
  <1> QED
    BY Invariant, <1>2, PTL DEF Spec, RefusalJustified
=============================================================================
