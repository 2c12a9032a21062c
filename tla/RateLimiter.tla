----------------------------- MODULE RateLimiter -----------------------------
(***************************************************************************)
(* RateLimiter (src/rate_limit.rs) and the task of main() that cleans it   *)
(* up: how many requests of one address are let through, in time.          *)
(*                                                                         *)
(* check and cleanup hold the write lock and read the clock under it, so   *)
(* each is one step.  The limiter counts in fixed windows, the first of    *)
(* which starts with the first request; what it lets through is kept in a  *)
(* log, to say what that amounts to over any interval.                     *)
(***************************************************************************)
EXTENDS Naturals, Sequences

CONSTANTS
    Ips,         \* client addresses
    MaxRequests, \* RATE_LIMIT_PER_MINUTE
    Window,      \* 60 s
    Period,      \* 300 s: the interval of the clean-up task
    Instants,    \* the times the clock may show after the start
    Never        \* no entry, no refusal

Entries == [count : Nat, start : Nat]

ASSUME LimiterAssumption ==
    /\ MaxRequests \in Nat /\ Window \in Nat /\ Period \in Nat
    /\ Instants \subseteq Nat
    /\ Never \notin Nat \union Entries

VARIABLES
    now,         \* Instant::now()
    state,       \* count and start of the window, by address
    cleanAt,     \* when the clean-up task runs next
    log,         \* history: the times at which requests were let through
    refused      \* history: when a request was last turned away

vars == <<now, state, cleanAt, log, refused>>

TypeOK ==
    /\ now \in Nat
    /\ state \in [Ips -> Entries \union {Never}]
    /\ \A ip \in Ips : state[ip] # Never => state[ip].count <= MaxRequests /\ state[ip].start <= now
    /\ cleanAt \in Nat
    /\ log \in [Ips -> Seq(Nat)]
    /\ refused \in [Ips -> Nat \union {Never}]

\* The interval of the clean-up task ticks at once.
Init ==
    /\ now = 0
    /\ state = [ip \in Ips |-> Never]
    /\ cleanAt = 0
    /\ log = [ip \in Ips |-> <<>>]
    /\ refused = [ip \in Ips |-> Never]

-----------------------------------------------------------------------------
\* Fault: a window that is over is not reset.
FaultyCurrent(ip) == IF state[ip] = Never THEN [count |-> 0, start |-> now] ELSE state[ip]

\* The window of an address: a new one when there is none, or it is over.
Current(ip) ==
    IF state[ip] = Never \/ now > state[ip].start + Window
    THEN [count |-> 0, start |-> now]
    ELSE state[ip]

\* Fault: one more than the limit.
FaultyRoom(ip) == Current(ip).count <= MaxRequests

Room(ip) == Current(ip).count < MaxRequests

\* Fault: let through without being counted.
FaultyAdmit(ip) ==
    /\ Room(ip)
    /\ state' = [state EXCEPT ![ip] = Current(ip)]
    /\ log' = [log EXCEPT ![ip] = Append(@, now)]
    /\ UNCHANGED <<now, cleanAt, refused>>

\* check(ip) answers true ...
Admit(ip) ==
    /\ Room(ip)
    /\ state' = [state EXCEPT ![ip] = [Current(ip) EXCEPT !.count = @ + 1]]
    /\ log' = [log EXCEPT ![ip] = Append(@, now)]
    /\ UNCHANGED <<now, cleanAt, refused>>

\* ... or false, for the handler to answer 429.
Refuse(ip) ==
    /\ ~ Room(ip)
    /\ state' = [state EXCEPT ![ip] = Current(ip)]
    /\ refused' = [refused EXCEPT ![ip] = now]
    /\ UNCHANGED <<now, cleanAt, log>>

\* Fault: the age is compared the wrong way round.
FaultyOver(ip) == now < state[ip].start + Window

Over(ip) == now >= state[ip].start + Window

Cleanup ==
    /\ now = cleanAt
    /\ state' = [ip \in Ips |-> IF state[ip] # Never /\ Over(ip) THEN Never ELSE state[ip]]
    /\ cleanAt' = now + Period
    /\ UNCHANGED <<now, log, refused>>

\* Time passes, but not past the timer.
Tick(later) ==
    /\ now < later /\ later <= cleanAt
    /\ now' = later
    /\ UNCHANGED <<state, cleanAt, log, refused>>

Next ==
    \/ \E ip \in Ips : Admit(ip) \/ Refuse(ip)
    \/ Cleanup
    \/ \E later \in Instants : Tick(later)

Spec == Init /\ [][Next]_vars

-----------------------------------------------------------------------------
(***************************************************************************)
(* What the limit amounts to: within less than a window's length an        *)
(* address never gets more than twice the limit through, at the turn of a  *)
(* window included, whatever the clean-up removes in between.              *)
(***************************************************************************)
BurstBounded ==
    \A ip \in Ips : \A i \in 1 .. Len(log[ip]) :
        i + 2 * MaxRequests <= Len(log[ip]) => log[ip][i + 2 * MaxRequests] >= log[ip][i] + Window

(***************************************************************************)
(* A request is turned away only when as many as the limit of its own      *)
(* address were let through within a window's length up to now: an address *)
(* is never locked out by others, nor by refused requests of its own.      *)
(***************************************************************************)
RefusedWithCause ==
    [][\A ip \in Ips : refused'[ip] # refused[ip] =>
          /\ Len(log[ip]) >= MaxRequests
          /\ MaxRequests > 0 => now <= log[ip][Len(log[ip]) + 1 - MaxRequests] + Window]_vars

(***************************************************************************)
(* The map does not grow for ever (cleanup, "to prevent memory growth"):   *)
(* no entry outlives its window by as much as a period.                    *)
(***************************************************************************)
EntriesExpire ==
    \A ip \in Ips : state[ip] # Never => now <= state[ip].start + Window + Period
=============================================================================
