---------------------------- MODULE RateLimiter ----------------------------
(***************************************************************************)
(* The in-memory fixed-window rate limiter of                              *)
(* internal/middleware/rate_limit.go, as it is when it is enabled.         *)
(*                                                                         *)
(* Requests run on goroutines of their own.  Each reads the clock first    *)
(* and then takes the lock, so that the request that decides under the     *)
(* lock may hold a time older than a window another request has opened,    *)
(* or than the time at which entries were pruned.  What it decides under   *)
(* the lock is one action.                                                 *)
(***************************************************************************)
EXTENDS Integers, FiniteSets

CONSTANTS
    NumRequests,        \* requests are numbered in the order they arrive
    Keys,               \* client address and route
    Window,             \* RateLimitConfig.Window, in ticks of the clock
    RequestsPerWindow,  \* RateLimitConfig.RequestsPerWindow
    MaxDelay,           \* bound: ticks between reading the clock and the lock
    MaxTime             \* bound: ticks of the clock in a behaviour

Requests == 1..NumRequests
Times == 0..MaxTime

(* A request is not held up for a whole window before it gets the lock.    *)
ASSUME RateLimiterAssumption ==
    /\ NumRequests \in Nat
    /\ Keys # {}
    /\ Window \in Nat \ {0}
    /\ RequestsPerWindow \in Nat \ {0}
    /\ MaxDelay \in 0..Window
    /\ MaxTime \in Nat

VARIABLES
    clock,      \* the monotonic clock
    phase,      \* phase[r]: how far request r has come
    key,        \* key[r]: its key
    now,        \* now[r]: the time it read before it took the lock
    entries,    \* l.entries: the zero entry stands for a key that is not there
    countedIn,  \* history: the start of the window that counted or denied r
    decidedAt   \* history: when r held the lock

vars == <<clock, phase, key, now, entries, countedIn, decidedAt>>

ZeroTime == -1
ZeroEntry == [windowStart |-> ZeroTime, count |-> 0]

TypeOK ==
    /\ clock \in Times
    /\ phase \in [Requests -> {"idle", "stamped", "allowed", "denied"}]
    /\ key \in [Requests -> Keys]
    /\ now \in [Requests -> Times]
    /\ entries \in [Keys -> [windowStart : Times \cup {ZeroTime}, count : 0..RequestsPerWindow]]
    /\ countedIn \in [Requests -> Times]
    /\ decidedAt \in [Requests -> Times]

Init ==
    /\ clock = 0
    /\ phase = [r \in Requests |-> "idle"]
    /\ key = [r \in Requests |-> CHOOSE k \in Keys : TRUE]
    /\ now = [r \in Requests |-> 0]
    /\ entries = [k \in Keys |-> ZeroEntry]
    /\ countedIn = [r \in Requests |-> 0]
    /\ decidedAt = [r \in Requests |-> 0]
-----------------------------------------------------------------------------
(* now := time.Now(), before l.mu.Lock().                                  *)
Stamp(r, k) ==
    /\ phase[r] = "idle"
    /\ \A q \in Requests : q < r => phase[q] # "idle"
    /\ phase' = [phase EXCEPT ![r] = "stamped"]
    /\ key' = [key EXCEPT ![r] = k]
    /\ now' = [now EXCEPT ![r] = clock]
    /\ UNCHANGED <<clock, entries, countedIn, decidedAt>>

(* The window of r's key, as r finds it under the lock.                    *)
Entry(r) == entries[key[r]]

ExpiredAfter(r) == \/ Entry(r).windowStart = ZeroTime     \* variant
                   \/ now[r] - Entry(r).windowStart > Window
ExpiredAtOnce(r) == \/ Entry(r).windowStart = ZeroTime    \* variant
                    \/ now[r] - Entry(r).windowStart > 0
Expired(r) == \/ Entry(r).windowStart = ZeroTime
              \/ now[r] - Entry(r).windowStart >= Window

FullLate(r) == Entry(r).count > RequestsPerWindow   \* variant
Full(r) == Entry(r).count >= RequestsPerWindow

(* pruneLocked: every entry older than two windows is deleted.             *)
PrunedTooSoon(es, time) ==      \* variant
    [k \in Keys |-> IF time - es[k].windowStart > Window THEN ZeroEntry ELSE es[k]]
PrunedCurrent(es, time) ==      \* variant
    [k \in Keys |-> IF time - es[k].windowStart > 0 THEN ZeroEntry ELSE es[k]]
NothingPruned(es, time) == es   \* variant
Pruned(es, time) ==
    [k \in Keys |-> IF time - es[k].windowStart > 2 * Window THEN ZeroEntry ELSE es[k]]

Decided(r, verdict) ==
    /\ phase' = [phase EXCEPT ![r] = verdict]
    /\ countedIn' = [countedIn EXCEPT ![r] = entries'[key[r]].windowStart]
    /\ decidedAt' = [decidedAt EXCEPT ![r] = clock]
    /\ UNCHANGED <<clock, key, now>>

OpenWindow(r) ==
    /\ phase[r] = "stamped" /\ Expired(r)
    /\ entries' = Pruned([entries EXCEPT ![key[r]] = [windowStart |-> now[r], count |-> 1]],
                         now[r])
    /\ Decided(r, "allowed")

CountRequest(r) ==
    /\ phase[r] = "stamped" /\ ~Expired(r) /\ ~Full(r)
    /\ entries' = [entries EXCEPT ![key[r]].count = @ + 1]
    /\ Decided(r, "allowed")

Deny(r) ==
    /\ phase[r] = "stamped" /\ ~Expired(r) /\ Full(r)
    /\ UNCHANGED entries
    /\ Decided(r, "denied")

(* Time passes, but no request waits longer than MaxDelay for the lock.    *)
Tick ==
    /\ clock < MaxTime
    /\ \A r \in Requests : phase[r] = "stamped" => clock - now[r] < MaxDelay
    /\ clock' = clock + 1
    /\ UNCHANGED <<phase, key, now, entries, countedIn, decidedAt>>

Next == \/ \E r \in Requests : \/ \E k \in Keys : Stamp(r, k)
                                \/ OpenWindow(r) \/ CountRequest(r) \/ Deny(r)
        \/ Tick

Spec == Init /\ [][Next]_vars
-----------------------------------------------------------------------------
(* Properties.                                                             *)

(* The requests of a key that a window has admitted.                       *)
Admitted(k, start) ==
    {r \in Requests : phase[r] = "allowed" /\ key[r] = k /\ countedIn[r] = start}

(* No window ever admits more than RequestsPerWindow requests of a key,    *)
(* whatever is pruned and opened again meanwhile.                          *)
AtMostPerWindow ==
    \A k \in Keys, start \in Times : Cardinality(Admitted(k, start)) <= RequestsPerWindow

(* Two windows of a key never overlap: a request that read the clock       *)
(* before another one opened a window, or before pruning forgot one, does  *)
(* not open a window too early.                                            *)
WindowsApart ==
    \A q, r \in Requests :
        phase[q] = "allowed" /\ phase[r] = "allowed" /\ key[q] = key[r]
            => \/ countedIn[q] = countedIn[r]
               \/ countedIn[q] >= countedIn[r] + Window
               \/ countedIn[r] >= countedIn[q] + Window

(* A request is denied only when its key has had RequestsPerWindow         *)
(* requests admitted since less than a window before it arrived.           *)
DeniedOnlyWhenBusy ==
    \A r \in Requests : phase[r] = "denied" =>
        \E busy \in SUBSET {q \in Requests : /\ phase[q] = "allowed"
                                             /\ key[q] = key[r]
                                             /\ decidedAt[q] > now[r] - Window
                                             /\ decidedAt[q] <= decidedAt[r]} :
            Cardinality(busy) = RequestsPerWindow

(* In no stretch of time as long as a window do more than three windows of *)
(* a key admit requests, and no more than two when no request waits for    *)
(* the lock: a burst is at most three times RequestsPerWindow.             *)
BurstBound ==
    \A k \in Keys, from \in Times :
        Cardinality({countedIn[r] : r \in
                        {q \in Requests : /\ phase[q] = "allowed" /\ key[q] = k
                                          /\ decidedAt[q] \in from..(from + Window - 1)}})
            <= (IF MaxDelay = 0 THEN 2 ELSE 3)

(* What the limiter remembers stays within two windows: pruning, which     *)
(* only runs when a window is opened, keeps up with the keys.              *)
MemoryBounded ==
    \A j, k \in Keys :
        entries[j].windowStart # ZeroTime /\ entries[k].windowStart # ZeroTime
            => entries[j].windowStart - entries[k].windowStart <= 2 * Window
=============================================================================
