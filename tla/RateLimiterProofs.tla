-------------------------- MODULE RateLimiterProofs --------------------------
(***************************************************************************)
(* Proofs about RateLimiter, for every limit, window, period and clock.    *)
(***************************************************************************)
EXTENDS RateLimiter, TLAPS

\* The window of a request is well formed, has not begun after now, and is
\* not over (RateLimiter::check).
LEMMA CurrentTyped ==
    ASSUME TypeOK, NEW ip \in Ips
    PROVE  /\ Current(ip) \in Entries
           /\ Current(ip).count <= MaxRequests
           /\ Current(ip).start <= now
           /\ now <= Current(ip).start + Window
  <1>1. CASE state[ip] = Never \/ now > state[ip].start + Window
    <2>1. Current(ip) = [count |-> 0, start |-> now]
      BY <1>1 DEF Current
    <2> QED BY <2>1, LimiterAssumption DEF TypeOK, Entries
  <1>2. CASE ~ (state[ip] = Never \/ now > state[ip].start + Window)
    <2>1. Current(ip) = state[ip] /\ state[ip] \in Entries
      BY <1>2 DEF Current, TypeOK
    <2> QED BY <1>2, <2>1, LimiterAssumption DEF TypeOK, Entries
  <1> QED BY <1>1, <1>2


\* A log l fits a window e: what was let through before the window lies before
\* it, and all but one window's worth of that lies a window's length further
\* back.
Fits(l, e) ==
    /\ e.count <= Len(l)
    /\ \A i \in 1 .. Len(l) : i + e.count <= Len(l) => l[i] <= e.start
    /\ \A i \in 1 .. Len(l) : i + e.count > Len(l) => l[i] >= e.start
    /\ \A i \in 1 .. Len(l) : i + e.count + MaxRequests <= Len(l) => l[i] + Window <= e.start

\* An address without an entry is as good as one whose window is over.
Orderly(ip) ==
    /\ \A i \in 1 .. Len(log[ip]) : log[ip][i] <= now
    /\ IF state[ip] = Never
       THEN \A i \in 1 .. Len(log[ip]) :
               i + MaxRequests <= Len(log[ip]) => log[ip][i] + Window <= now
       ELSE Fits(log[ip], state[ip])

\* The timer of the clean-up task is ahead of the clock, and runs before any
\* entry is too old.
Swept ==
    /\ now <= cleanAt /\ cleanAt <= now + Period
    /\ \A ip \in Ips : state[ip] # Never => cleanAt <= state[ip].start + Window + Period

Inv == TypeOK /\ BurstBounded /\ Swept /\ \A ip \in Ips : Orderly(ip)

\* A window that begins now fits an orderly log, if the last one is over
\* (RateLimiter::check, "Reset window if expired").
LEMMA CurrentFits ==
    ASSUME TypeOK, NEW ip \in Ips, Orderly(ip)
    PROVE  Fits(log[ip], Current(ip))
  <1> DEFINE l == log[ip]
  <1>0. l \in Seq(Nat) /\ Len(l) \in Nat /\ \A i \in 1 .. Len(l) : l[i] \in Nat
    BY DEF TypeOK
  <1>1. CASE state[ip] # Never /\ ~ (now > state[ip].start + Window)
    BY <1>1 DEF Orderly, Current
  <1>2. CASE state[ip] = Never \/ now > state[ip].start + Window
    <2>1. Current(ip).count = 0 /\ Current(ip).start = now
      BY <1>2 DEF Current
    <2>2. \A i \in 1 .. Len(l) : i + MaxRequests <= Len(l) => l[i] + Window <= now
      <3>1. CASE state[ip] = Never
        BY <3>1 DEF Orderly
      <3>2. CASE state[ip] # Never
        <4>1. state[ip].count \in Nat /\ state[ip].start \in Nat /\ state[ip].count <= MaxRequests
          BY <3>2 DEF TypeOK, Entries
        <4>2. \A i \in 1 .. Len(l) : i + state[ip].count <= Len(l) => l[i] <= state[ip].start
          BY <3>2 DEF Orderly, Fits
        <4>3. now \in Nat /\ now > state[ip].start + Window
          BY <1>2, <3>2 DEF TypeOK
        <4>4. ASSUME NEW i \in 1 .. Len(l), i + MaxRequests <= Len(l) PROVE l[i] + Window <= now
          <5>1. l[i] \in Nat /\ i + state[ip].count <= Len(l)
            BY <1>0, <4>1, <4>4, LimiterAssumption
          <5>2. l[i] <= state[ip].start
            BY <4>2, <5>1
          <5> QED BY <4>1, <4>3, <5>1, <5>2, LimiterAssumption
        <4> QED BY <4>4
      <3> QED BY <3>1, <3>2
    <2>3. \A i \in 1 .. Len(l) : l[i] <= now
      BY DEF Orderly
    <2> QED BY <1>0, <2>1, <2>2, <2>3, LimiterAssumption DEF Fits, TypeOK
  <1> QED BY <1>1, <1>2

\* Letting one more through keeps the log in order (RateLimiter::check).
LEMMA AppendFits ==
    ASSUME NEW l \in Seq(Nat), NEW e \in Entries, NEW t \in Nat,
           Fits(l, e), e.start <= t, e.count < MaxRequests,
           \A i \in 1 .. Len(l) : l[i] <= t,
           \A i \in 1 .. Len(l) : i + 2 * MaxRequests <= Len(l) => l[i + 2 * MaxRequests] >= l[i] + Window,
           NEW f \in Entries, f.count = e.count + 1, f.start = e.start,
           NEW m \in Seq(Nat), m = Append(l, t)
    PROVE  /\ Fits(m, f)
           /\ \A i \in 1 .. Len(m) : m[i] <= t
           /\ \A i \in 1 .. Len(m) : i + 2 * MaxRequests <= Len(m) => m[i + 2 * MaxRequests] >= m[i] + Window
  <1>1. /\ Len(l) \in Nat /\ Len(m) = Len(l) + 1
        /\ m[Len(l) + 1] = t
        /\ \A i \in 1 .. Len(l) : m[i] = l[i] /\ l[i] \in Nat
    OBVIOUS
  <1>2. e.count \in Nat /\ e.start \in Nat /\ MaxRequests \in Nat /\ Window \in Nat
    BY LimiterAssumption DEF Entries
  <1>3. \A i \in 1 .. Len(m) : m[i] <= t
    BY <1>1
  <1>4. Fits(m, f)
    <2>1. ASSUME NEW i \in 1 .. Len(m), i + f.count <= Len(m) PROVE m[i] <= f.start
      BY <1>1, <1>2, <2>1 DEF Fits
    <2>2. ASSUME NEW i \in 1 .. Len(m), i + f.count > Len(m) PROVE m[i] >= f.start
      BY <1>1, <1>2, <2>2 DEF Fits
    <2>3. ASSUME NEW i \in 1 .. Len(m), i + f.count + MaxRequests <= Len(m)
          PROVE  m[i] + Window <= f.start
      <3>1. i \in 1 .. Len(l) /\ i + e.count + MaxRequests <= Len(l)
        BY <1>1, <1>2, <2>3
      <3> QED BY <1>1, <3>1 DEF Fits
    <2> QED BY <1>1, <1>2, <2>1, <2>2, <2>3 DEF Fits
  <1>5. ASSUME NEW i \in 1 .. Len(m), i + 2 * MaxRequests <= Len(m)
        PROVE  m[i + 2 * MaxRequests] >= m[i] + Window
    <2>1. CASE i + 2 * MaxRequests <= Len(l)
      <3>1. i \in 1 .. Len(l) /\ i + 2 * MaxRequests \in 1 .. Len(l)
        BY <1>1, <1>2, <2>1
      <3> QED BY <1>1, <2>1, <3>1
    <2>2. CASE i + 2 * MaxRequests = Len(l) + 1
      <3>1. i \in 1 .. Len(l) /\ i + e.count + MaxRequests <= Len(l)
        BY <1>1, <1>2, <2>2
      <3>2. l[i] + Window <= e.start
        BY <3>1 DEF Fits
      <3> QED BY <1>1, <1>2, <2>2, <3>1, <3>2
    <2>3. i + 2 * MaxRequests <= Len(l) \/ i + 2 * MaxRequests = Len(l) + 1
      <3> DEFINE k == i + 2 * MaxRequests
      <3>1. k \in Nat
        BY <1>1, <1>2
      <3>2. k <= Len(l) + 1
        BY <1>1, <1>5
      <3> HIDE DEF k
      <3>3. k <= Len(l) \/ k = Len(l) + 1
        BY <1>1, <3>1, <3>2
      <3> QED BY <3>3 DEF k
    <2> QED BY <2>1, <2>2, <2>3
  <1> QED BY <1>3, <1>4, <1>5

\* A new limiter is empty (RateLimiter::new).
LEMMA InitInv == Init => Inv
  BY LimiterAssumption DEF Init, Inv, TypeOK, BurstBounded, Swept, Orderly

\* Every step of the limiter, its clean-up task and the clock keeps the
\* invariant (RateLimiter::check, cleanup).
LEMMA NextInv ==
    ASSUME Inv, [Next]_vars
    PROVE  Inv'
  <1> USE LimiterAssumption
  <1>1. ASSUME NEW ip \in Ips, Admit(ip) PROVE Inv'
    <2> DEFINE e == Current(ip)
               f == [e EXCEPT !.count = @ + 1]
               l == log[ip]
               m == Append(l, now)
    <2>1. e \in Entries /\ e.count < MaxRequests /\ e.start <= now /\ now <= e.start + Window
      BY <1>1, CurrentTyped DEF Inv, Admit, Room
    <2>2. f \in Entries /\ f.count = e.count + 1 /\ f.start = e.start
      BY <2>1 DEF Entries
    <2>3. l \in Seq(Nat) /\ m \in Seq(Nat) /\ now \in Nat
      BY DEF Inv, TypeOK
    <2>4. Fits(l, e)
      BY CurrentFits DEF Inv
    <2>5. /\ \A i \in 1 .. Len(l) : l[i] <= now
          /\ \A i \in 1 .. Len(l) : i + 2 * MaxRequests <= Len(l) => l[i + 2 * MaxRequests] >= l[i] + Window
      BY DEF Inv, Orderly, BurstBounded
    <2>6. /\ Fits(m, f)
          /\ \A i \in 1 .. Len(m) : m[i] <= now
          /\ \A i \in 1 .. Len(m) : i + 2 * MaxRequests <= Len(m) => m[i + 2 * MaxRequests] >= m[i] + Window
      <3> HIDE DEF e, f, l, m
      <3> m = Append(l, now)
        BY DEF m
      <3> QED BY <2>1, <2>2, <2>3, <2>4, <2>5, AppendFits
    <2>7. /\ now' = now /\ cleanAt' = cleanAt /\ refused' = refused
          /\ state' = [state EXCEPT ![ip] = f]
          /\ log' = [log EXCEPT ![ip] = m]
      BY <1>1 DEF Admit
    <2>8. state'[ip] = f /\ log'[ip] = m /\ f # Never
          /\ \A o \in Ips \ {ip} : state'[o] = state[o] /\ log'[o] = log[o]
      BY <2>2, <2>7 DEF Inv, TypeOK
    <2> HIDE DEF e, f, l, m
    <2>9. TypeOK'
      BY <2>1, <2>2, <2>3, <2>7, <2>8 DEF Inv, TypeOK, Entries
    <2>10. BurstBounded'
      BY <2>6, <2>8 DEF Inv, BurstBounded
    <2>11. Swept'
      <3>1. cleanAt <= f.start + Window + Period
        <4>1. CASE state[ip] = Never \/ now > state[ip].start + Window
          BY <2>2, <4>1, <2>1 DEF Inv, Swept, e, Current, TypeOK
        <4>2. CASE ~ (state[ip] = Never \/ now > state[ip].start + Window)
          BY <2>2, <4>2 DEF Inv, Swept, e, Current
        <4> QED BY <4>1, <4>2
      <3> QED BY <2>7, <2>8, <3>1 DEF Inv, Swept
    <2>12. \A o \in Ips : Orderly(o)'
      <3>1. Orderly(ip)'
        BY <2>6, <2>7, <2>8 DEF Orderly, Fits
      <3>2. ASSUME NEW o \in Ips \ {ip} PROVE Orderly(o)'
        BY <2>7, <2>8 DEF Inv, Orderly, Fits
      <3> QED BY <3>1, <3>2
    <2> QED BY <2>9, <2>10, <2>11, <2>12 DEF Inv
  <1>2. ASSUME NEW ip \in Ips, Refuse(ip) PROVE Inv'
    <2> DEFINE e == Current(ip)
    <2>1. e \in Entries /\ e.count <= MaxRequests /\ e.start <= now /\ now <= e.start + Window
      BY CurrentTyped DEF Inv
    <2>2. Fits(log[ip], e)
      BY CurrentFits DEF Inv
    <2>3. /\ now' = now /\ cleanAt' = cleanAt /\ log' = log
          /\ state' = [state EXCEPT ![ip] = e]
          /\ refused' = [refused EXCEPT ![ip] = now]
      BY <1>2 DEF Refuse
    <2>4. state'[ip] = e /\ e # Never /\ \A o \in Ips \ {ip} : state'[o] = state[o]
      BY <2>1, <2>3 DEF Inv, TypeOK
    <2>5. cleanAt <= e.start + Window + Period
      <3>1. CASE state[ip] = Never \/ now > state[ip].start + Window
        BY <3>1, <2>1 DEF Inv, Swept, Current, TypeOK
      <3>2. CASE ~ (state[ip] = Never \/ now > state[ip].start + Window)
        BY <3>2 DEF Inv, Swept, Current
      <3> QED BY <3>1, <3>2
    <2> HIDE DEF e
    <2>6. TypeOK'
      BY <2>1, <2>3, <2>4 DEF Inv, TypeOK
    <2>7. BurstBounded'
      BY <2>3 DEF Inv, BurstBounded
    <2>8. Swept'
      BY <2>3, <2>4, <2>5 DEF Inv, Swept
    <2>9. \A o \in Ips : Orderly(o)'
      BY <2>2, <2>3, <2>4 DEF Inv, Orderly, Fits
    <2> QED BY <2>6, <2>7, <2>8, <2>9 DEF Inv
  <1>3. CASE Cleanup
    <2>1. /\ now' = now /\ cleanAt' = now + Period /\ log' = log /\ refused' = refused
          /\ state' = [ip \in Ips |-> IF state[ip] # Never /\ Over(ip) THEN Never ELSE state[ip]]
      BY <1>3 DEF Cleanup
    <2>2. TypeOK'
      BY <2>1 DEF Inv, TypeOK
    <2>3. BurstBounded'
      BY <2>1 DEF Inv, BurstBounded
    <2>4. Swept'
      <3>1. ASSUME NEW ip \in Ips, state'[ip] # Never
            PROVE  cleanAt' <= state'[ip].start + Window + Period
        <4>1. state'[ip] = state[ip] /\ state[ip] \in Entries /\ now < state[ip].start + Window
          BY <2>1, <3>1 DEF Inv, TypeOK, Over, Entries
        <4> QED BY <2>1, <4>1 DEF Inv, TypeOK, Entries
      <3> QED BY <2>1, <3>1 DEF Inv, Swept, TypeOK
    <2>5. ASSUME NEW ip \in Ips PROVE Orderly(ip)'
      <3>1. CASE state[ip] # Never /\ Over(ip)
        <4>1. state'[ip] = Never
          BY <2>1, <3>1
        <4>2. /\ state[ip].count \in Nat /\ state[ip].count <= MaxRequests
              /\ state[ip].start \in Nat /\ state[ip].start + Window <= now
              /\ now \in Nat /\ log[ip] \in Seq(Nat)
          BY <3>1 DEF Inv, TypeOK, Entries, Over
        <4>3. \A i \in 1 .. Len(log[ip]) :
                 i + state[ip].count <= Len(log[ip]) => log[ip][i] <= state[ip].start
          BY <3>1 DEF Inv, Orderly, Fits
        <4>4. \A i \in 1 .. Len(log[ip]) :
                 i + MaxRequests <= Len(log[ip]) => log[ip][i] + Window <= now
          <5>1. ASSUME NEW i \in 1 .. Len(log[ip]), i + MaxRequests <= Len(log[ip])
                PROVE  log[ip][i] + Window <= now
            <6>1. log[ip][i] \in Nat /\ i + state[ip].count <= Len(log[ip])
              BY <4>2, <5>1
            <6>2. log[ip][i] <= state[ip].start
              BY <4>3, <6>1
            <6> QED BY <4>2, <6>1, <6>2
          <5> QED BY <5>1
        <4> QED BY <2>1, <4>1, <4>4 DEF Inv, Orderly
      <3>2. CASE ~ (state[ip] # Never /\ Over(ip))
        BY <2>1, <3>2 DEF Inv, Orderly, Fits
      <3> QED BY <3>1, <3>2
    <2> QED BY <2>2, <2>3, <2>4, <2>5 DEF Inv
  <1>4. ASSUME NEW later \in Instants, Tick(later) PROVE Inv'
    <2>1. /\ now' = later /\ later \in Nat /\ now < later /\ later <= cleanAt
          /\ state' = state /\ cleanAt' = cleanAt /\ log' = log /\ refused' = refused
      BY <1>4 DEF Tick
    <2>2. TypeOK'
      BY <2>1 DEF Inv, TypeOK, Entries
    <2>3. BurstBounded' /\ Swept'
      BY <2>1 DEF Inv, BurstBounded, Swept, TypeOK
    <2>4. ASSUME NEW ip \in Ips PROVE Orderly(ip)'
      <3>1. \A i \in 1 .. Len(log[ip]) : log[ip][i] \in Nat
        BY DEF Inv, TypeOK
      <3>2. \A i \in 1 .. Len(log[ip]) : log[ip][i] <= later
        BY <2>1, <3>1 DEF Inv, Orderly, TypeOK
      <3>3. CASE state[ip] = Never
        BY <2>1, <3>1, <3>2, <3>3 DEF Inv, Orderly, TypeOK
      <3>4. CASE state[ip] # Never
        BY <2>1, <3>2, <3>4 DEF Inv, Orderly, Fits
      <3> QED BY <3>3, <3>4
    <2> QED BY <2>2, <2>3, <2>4 DEF Inv
  <1>5. CASE UNCHANGED vars
    BY <1>5 DEF vars, Inv, TypeOK, BurstBounded, Swept, Orderly, Fits
  <1> QED BY <1>1, <1>2, <1>3, <1>4, <1>5 DEF Next

\* The state of the limiter is well formed, no count above the limit.
THEOREM LimiterTypeCorrect == Spec => []TypeOK
  <1>1. Inv => TypeOK
    BY DEF Inv
  <1> QED BY <1>1, InitInv, NextInv, PTL DEF Spec

\* Within less than a window's length at most twice the limit gets through
\* (RateLimiter::check).
THEOREM BurstsAreBounded == Spec => []BurstBounded
  <1>1. Inv => BurstBounded
    BY DEF Inv
  <1> QED BY <1>1, InitInv, NextInv, PTL DEF Spec

\* Entries go (RateLimiter::cleanup).
THEOREM EntriesDoExpire == Spec => []EntriesExpire
  <1>1. Inv => EntriesExpire
    BY LimiterAssumption DEF Inv, Swept, EntriesExpire, TypeOK, Entries
  <1> QED BY <1>1, InitInv, NextInv, PTL DEF Spec

\* Nobody is turned away without having used the limit up
\* (RateLimiter::check).
THEOREM RefusalsHaveCause == Spec => RefusedWithCause
  <1> DEFINE Caused(ip) ==
               /\ Len(log[ip]) >= MaxRequests
               /\ MaxRequests > 0 => now <= log[ip][Len(log[ip]) + 1 - MaxRequests] + Window
  <1>1. ASSUME Inv, Next
        PROVE  \A ip \in Ips : refused'[ip] # refused[ip] => Caused(ip)
    <2>1. ASSUME NEW ip \in Ips, Refuse(ip) PROVE Caused(ip)
      <3>1. /\ Current(ip).count = MaxRequests /\ Current(ip).start \in Nat
            /\ now <= Current(ip).start + Window
        BY <1>1, <2>1, CurrentTyped, LimiterAssumption DEF Inv, Refuse, Room, Entries
      <3>2. Fits(log[ip], Current(ip))
        BY <1>1, CurrentFits DEF Inv
      <3>3. now \in Nat /\ Len(log[ip]) \in Nat /\ \A i \in 1 .. Len(log[ip]) : log[ip][i] \in Nat
        BY <1>1 DEF Inv, TypeOK
      <3>4. Len(log[ip]) >= MaxRequests
        BY <3>1, <3>2 DEF Fits
      <3>5. ASSUME MaxRequests > 0 PROVE now <= log[ip][Len(log[ip]) + 1 - MaxRequests] + Window
        <4> DEFINE i == Len(log[ip]) + 1 - MaxRequests
        <4>1. i \in 1 .. Len(log[ip]) /\ i + MaxRequests > Len(log[ip])
          BY <3>3, <3>4, <3>5, LimiterAssumption
        <4> HIDE DEF i
        <4>2. log[ip][i] >= Current(ip).start
          BY <3>1, <3>2, <4>1 DEF Fits
        <4>3. now <= log[ip][i] + Window
          BY <3>1, <3>3, <4>1, <4>2, LimiterAssumption
        <4> QED BY <4>3 DEF i
      <3> QED BY <3>4, <3>5
    <2>2. ASSUME NEW ip \in Ips, NEW o \in Ips, Refuse(o), refused'[ip] # refused[ip] PROVE ip = o
      BY <1>1, <2>2 DEF Refuse, Inv, TypeOK
    <2>3. ASSUME ~ \E o \in Ips : Refuse(o) PROVE refused' = refused
      BY <1>1, <2>3 DEF Next, Admit, Cleanup, Tick
    <2> HIDE DEF Caused
    <2> QED BY <2>1, <2>2, <2>3
  <1>2. ASSUME Inv, [Next]_vars
        PROVE  [\A ip \in Ips : refused'[ip] # refused[ip] => Caused(ip)]_vars
    BY <1>1, <1>2
  <1> QED BY <1>2, InitInv, NextInv, PTL DEF Spec, RefusedWithCause
=============================================================================
