------------------------- MODULE RateLimiterProofs -------------------------
(* Proofs about RateLimiter: its type invariant and all the safety         *)
(* properties that its run checks, for every number of requests and keys,  *)
(* every window and limit, and every delay of at most a window.            *)
EXTENDS RateLimiter, FiniteSetTheorems, TLAPS

(* A request holds the lock within MaxDelay of the time it read; what is   *)
(* allowed was counted in a window that had begun and had not expired.     *)
Stamps ==
    \A r \in Requests :
        /\ phase[r] = "stamped" => now[r] <= clock /\ clock - now[r] <= MaxDelay
        /\ phase[r] = "allowed" =>
              /\ decidedAt[r] <= clock
              /\ decidedAt[r] - now[r] <= MaxDelay
              /\ now[r] < countedIn[r] + Window
              /\ countedIn[r] <= decidedAt[r]
        /\ phase[r] = "denied" => decidedAt[r] <= clock

(* An entry counts exactly what its window has admitted.                   *)
EntriesCount ==
    \A k \in Keys : entries[k].windowStart # ZeroTime =>
        /\ entries[k].windowStart <= clock
        /\ entries[k].count = Cardinality(Admitted(k, entries[k].windowStart))

(* The entry of a key is its latest window; when it is gone, that window   *)
(* began more than two windows ago.                                        *)
LatestWindow ==
    \A r \in Requests : phase[r] = "allowed" =>
        LET start == entries[key[r]].windowStart
        IN  IF start = ZeroTime
            THEN countedIn[r] + 2 * Window < clock
            ELSE countedIn[r] = start \/ countedIn[r] + Window <= start

IInv == /\ TypeOK /\ Stamps /\ EntriesCount /\ LatestWindow
        /\ AtMostPerWindow /\ WindowsApart /\ DeniedOnlyWhenBusy /\ MemoryBounded
-----------------------------------------------------------------------------
(* The requests that a window has admitted are finitely many.              *)
LEMMA AdmittedFinite ==
    \A k, start : IsFiniteSet(Admitted(k, start)) /\ Cardinality(Admitted(k, start)) \in Nat
<1>1. IsFiniteSet(Requests)
  BY FS_Interval, RateLimiterAssumption DEF Requests
<1> TAKE k, start
<1>2. Admitted(k, start) \in SUBSET Requests
  BY DEF Admitted
<1>3. IsFiniteSet(Admitted(k, start))
  BY <1>1, <1>2, FS_Subset
<1> QED BY <1>3, FS_CardinalityType

(* The limiter starts with no entry and no request.                        *)
LEMMA InvInit == Init => IInv
<1> SUFFICES ASSUME Init PROVE IInv OBVIOUS
<1>1. TypeOK
  BY RateLimiterAssumption DEF Init, TypeOK, Times, ZeroEntry, ZeroTime
<1>2. \A k, start : Admitted(k, start) = {}
  BY DEF Init, Admitted
<1>3. AtMostPerWindow
  BY <1>2, FS_EmptySet, RateLimiterAssumption DEF AtMostPerWindow
<1>4. EntriesCount /\ MemoryBounded
  BY DEF Init, EntriesCount, MemoryBounded, ZeroEntry
<1>5. Stamps /\ LatestWindow /\ WindowsApart /\ DeniedOnlyWhenBusy
  BY DEF Init, Stamps, LatestWindow, WindowsApart, DeniedOnlyWhenBusy
<1> QED BY <1>1, <1>3, <1>4, <1>5 DEF IInv

(* Reading the clock decides nothing.                                      *)
LEMMA StampInv ==
    ASSUME IInv, NEW r \in Requests, NEW k \in Keys, Stamp(r, k)
    PROVE  IInv'
<1> USE RateLimiterAssumption DEF IInv, Stamp
<1>1. TypeOK'
  BY DEF TypeOK
<1>2. \A q \in Requests : /\ phase'[q] = "allowed" <=> phase[q] = "allowed"
                          /\ phase'[q] = "denied" <=> phase[q] = "denied"
                          /\ phase[q] # "idle" => key'[q] = key[q] /\ now'[q] = now[q]
  BY DEF TypeOK
<1>3. \A j, start : Admitted(j, start)' = Admitted(j, start)
  BY <1>2 DEF Admitted
<1>4. Stamps'
  <2>1. now'[r] = clock /\ phase'[r] = "stamped" BY DEF TypeOK
  <2>2. \A q \in Requests : q # r => phase'[q] = phase[q] /\ now'[q] = now[q]
    BY DEF TypeOK
  <2> QED BY <2>1, <2>2 DEF Stamps, TypeOK, Times
<1>5. AtMostPerWindow' /\ EntriesCount' /\ MemoryBounded'
  BY <1>3 DEF AtMostPerWindow, EntriesCount, MemoryBounded
<1>6. LatestWindow' /\ WindowsApart'
  BY <1>2 DEF LatestWindow, WindowsApart
<1>7. DeniedOnlyWhenBusy'
  <2> SUFFICES ASSUME NEW q \in Requests, phase'[q] = "denied"
               PROVE  \E busy \in SUBSET {p \in Requests :
                               /\ phase'[p] = "allowed" /\ key'[p] = key'[q]
                               /\ decidedAt'[p] > now'[q] - Window
                               /\ decidedAt'[p] <= decidedAt'[q]} :
                          Cardinality(busy) = RequestsPerWindow
    BY DEF DeniedOnlyWhenBusy
  <2>1. PICK busy \in SUBSET {p \in Requests :
                               /\ phase[p] = "allowed" /\ key[p] = key[q]
                               /\ decidedAt[p] > now[q] - Window
                               /\ decidedAt[p] <= decidedAt[q]} :
                          Cardinality(busy) = RequestsPerWindow
    BY <1>2 DEF DeniedOnlyWhenBusy
  <2> QED BY <1>2, <2>1
<1> QED BY <1>1, <1>4, <1>5, <1>6, <1>7

(* As time passes, forgotten windows only get older.                       *)
LEMMA TickInv == ASSUME IInv, Tick PROVE IInv'
<1> USE RateLimiterAssumption DEF IInv, Tick
<1>1. TypeOK'
  BY DEF TypeOK, Times
<1>2. Stamps'
  BY DEF Stamps, TypeOK, Times
<1>3. \A j, start : Admitted(j, start)' = Admitted(j, start)
  BY DEF Admitted
<1>4. EntriesCount'
  BY <1>3 DEF EntriesCount, TypeOK, Times, ZeroTime
<1>5. LatestWindow'
  BY DEF LatestWindow, TypeOK, Times, ZeroTime
<1>6. AtMostPerWindow' /\ WindowsApart' /\ DeniedOnlyWhenBusy' /\ MemoryBounded'
  BY <1>3 DEF AtMostPerWindow, WindowsApart, DeniedOnlyWhenBusy, MemoryBounded
<1> QED BY <1>1, <1>2, <1>4, <1>5, <1>6
-----------------------------------------------------------------------------
(* A decision leaves every other request as it is, and the requests that   *)
(* a denied one found admitted stay admitted.                              *)
LEMMA DecidedKeeps ==
    ASSUME IInv, NEW r \in Requests, NEW verdict \in {"allowed", "denied"},
           phase[r] = "stamped", Decided(r, verdict), entries'[key[r]].windowStart \in Times
    PROVE  /\ phase'[r] = verdict /\ decidedAt'[r] = clock
           /\ countedIn'[r] = entries'[key[r]].windowStart
           /\ \A q \in Requests \ {r} : /\ phase'[q] = phase[q]
                                        /\ countedIn'[q] = countedIn[q]
                                        /\ decidedAt'[q] = decidedAt[q]
           /\ \A q \in Requests \ {r} : phase'[q] = "denied" =>
                  \E busy \in SUBSET {p \in Requests :
                        /\ phase'[p] = "allowed" /\ key'[p] = key'[q]
                        /\ decidedAt'[p] > now'[q] - Window
                        /\ decidedAt'[p] <= decidedAt'[q]} :
                     Cardinality(busy) = RequestsPerWindow
<1> USE DEF IInv, Decided
<1>1. /\ phase'[r] = verdict /\ decidedAt'[r] = clock
      /\ countedIn'[r] = entries'[key[r]].windowStart
  BY DEF TypeOK
<1>2. \A q \in Requests \ {r} : /\ phase'[q] = phase[q] /\ countedIn'[q] = countedIn[q]
                               /\ decidedAt'[q] = decidedAt[q]
  BY DEF TypeOK
<1>3. ASSUME NEW q \in Requests \ {r}, phase'[q] = "denied"
      PROVE  \E busy \in SUBSET {p \in Requests :
                   /\ phase'[p] = "allowed" /\ key'[p] = key'[q]
                   /\ decidedAt'[p] > now'[q] - Window
                   /\ decidedAt'[p] <= decidedAt'[q]} :
                Cardinality(busy) = RequestsPerWindow
  <2>1. PICK busy \in SUBSET {p \in Requests :
                               /\ phase[p] = "allowed" /\ key[p] = key[q]
                               /\ decidedAt[p] > now[q] - Window
                               /\ decidedAt[p] <= decidedAt[q]} :
                          Cardinality(busy) = RequestsPerWindow
    BY <1>2, <1>3 DEF DeniedOnlyWhenBusy
  <2>2. r \notin busy
    BY <2>1
  <2> QED BY <1>2, <2>1, <2>2
<1> QED BY <1>1, <1>2, <1>3

(* A window opens no earlier than Window after every earlier one of its    *)
(* key: when pruning has forgotten that one, the request that opens the    *)
(* new window read the clock within a window of now.                       *)
LEMMA OpensLateEnough ==
    ASSUME IInv, NEW r \in Requests, phase[r] = "stamped", Expired(r)
    PROVE  \A q \in Requests : phase[q] = "allowed" /\ key[q] = key[r]
                                    => countedIn[q] + Window <= now[r]
<1> SUFFICES ASSUME NEW q \in Requests, phase[q] = "allowed", key[q] = key[r]
             PROVE  countedIn[q] + Window <= now[r]
  OBVIOUS
<1>1. /\ now[r] \in Times /\ clock \in Times /\ countedIn[q] \in Times
      /\ entries[key[r]].windowStart \in Times \cup {ZeroTime}
  BY DEF IInv, TypeOK
<1>2. clock - now[r] <= MaxDelay
  BY DEF IInv, Stamps
<1>3. CASE entries[key[r]].windowStart = ZeroTime
  <2>1. countedIn[q] + 2 * Window < clock
    BY <1>3 DEF IInv, LatestWindow
  <2> QED BY <1>1, <1>2, <2>1, RateLimiterAssumption DEF Times
<1>4. CASE entries[key[r]].windowStart # ZeroTime
  <2>1. now[r] - entries[key[r]].windowStart >= Window
    BY <1>4 DEF Expired, Entry
  <2>2. countedIn[q] <= entries[key[r]].windowStart
    BY <1>1, <1>4, RateLimiterAssumption DEF IInv, LatestWindow, Times, ZeroTime
  <2> QED BY <1>1, <1>4, <2>1, <2>2, RateLimiterAssumption DEF Times, ZeroTime
<1> QED BY <1>3, <1>4

(* Opening a window keeps the invariant: it admits one request, overlaps   *)
(* no window of its key, and prunes what is older than two windows.        *)
LEMMA OpenWindowInv ==
    ASSUME IInv, NEW r \in Requests, OpenWindow(r)
    PROVE  IInv'
<1>0. PICK n \in Times, k0 \in Keys : n = now[r] /\ k0 = key[r]
  BY DEF IInv, TypeOK
<1>1. /\ n = now[r] /\ k0 = key[r] /\ n \in Times /\ k0 \in Keys /\ clock \in Times /\ n <= clock
      /\ clock - n <= MaxDelay /\ phase[r] = "stamped"
  BY <1>0 DEF IInv, TypeOK, Stamps, OpenWindow
<1>2. /\ entries'[k0].windowStart = n /\ entries'[k0].count = 1
      /\ \A k \in Keys \ {k0} : entries'[k] =
             IF n - entries[k].windowStart > 2 * Window THEN ZeroEntry ELSE entries[k]
  <2>1. n - n = 0 /\ ~(n - n > 2 * Window)
    BY <1>1, RateLimiterAssumption DEF Times
  <2> QED BY <1>1, <2>1 DEF OpenWindow, Pruned, IInv, TypeOK
<1>3. entries' \in [Keys -> [windowStart : Times \cup {ZeroTime}, count : 0..RequestsPerWindow]]
  <2>1. /\ [windowStart |-> n, count |-> 1] \in [windowStart : Times \cup {ZeroTime}, count : 0..RequestsPerWindow]
        /\ ZeroEntry \in [windowStart : Times \cup {ZeroTime}, count : 0..RequestsPerWindow]
    BY <1>1, RateLimiterAssumption DEF Times, ZeroEntry
  <2> QED BY <2>1 DEF OpenWindow, Pruned, IInv, TypeOK
<1>4. Decided(r, "allowed")
  BY DEF OpenWindow
<1>5. /\ phase'[r] = "allowed" /\ decidedAt'[r] = clock /\ countedIn'[r] = n
      /\ \A q \in Requests \ {r} : /\ phase'[q] = phase[q] /\ countedIn'[q] = countedIn[q]
                                   /\ decidedAt'[q] = decidedAt[q]
      /\ DeniedOnlyWhenBusy'
  BY <1>1, <1>2, <1>4, DecidedKeeps DEF DeniedOnlyWhenBusy
<1>6. key' = key /\ now' = now /\ clock' = clock
  BY <1>4 DEF Decided
<1>7. TypeOK'
  BY <1>1, <1>2, <1>3, <1>4 DEF TypeOK, IInv, Decided
<1>8. Stamps'
  BY <1>1, <1>5, <1>6, RateLimiterAssumption DEF Stamps, IInv, TypeOK, Times
<1>9. \A q \in Requests : phase[q] = "allowed" /\ key[q] = k0 => countedIn[q] + Window <= n
  BY <1>1, OpensLateEnough DEF OpenWindow
<1>10. \A q \in Requests : phase[q] = "allowed" /\ key[q] = k0 => countedIn[q] # n
  BY <1>1, <1>9, RateLimiterAssumption DEF IInv, TypeOK, Times
<1>11. Admitted(k0, n)' = {r}
  BY <1>1, <1>5, <1>6, <1>10 DEF Admitted
<1>12. \A k, start : k # k0 \/ start # n => Admitted(k, start)' = Admitted(k, start)
  BY <1>1, <1>5, <1>6 DEF Admitted
<1>13. AtMostPerWindow'
  <2> SUFFICES ASSUME NEW k \in Keys, NEW start \in Times
               PROVE  Cardinality(Admitted(k, start)') <= RequestsPerWindow
    BY DEF AtMostPerWindow
  <2>1. CASE k = k0 /\ start = n
    BY <1>11, <2>1, FS_Singleton, RateLimiterAssumption
  <2>2. CASE k # k0 \/ start # n
    BY <1>12, <2>2 DEF AtMostPerWindow, IInv
  <2> QED BY <2>1, <2>2
<1>14. EntriesCount'
  <2> SUFFICES ASSUME NEW k \in Keys, entries'[k].windowStart # ZeroTime
               PROVE  (/\ entries[k].windowStart <= clock
                       /\ entries[k].count = Cardinality(Admitted(k, entries[k].windowStart)))'
    BY DEF EntriesCount
  <2>0. PICK start \in Times : entries'[k].windowStart = start
    BY <1>3
  <2> SUFFICES start <= clock /\ entries'[k].count = Cardinality(Admitted(k, start)')
    <3>1. Admitted(k, entries[k].windowStart)' = Admitted(k, start)'
      BY <2>0 DEF Admitted
    <3> QED BY <1>6, <2>0, <3>1
  <2>1. CASE k = k0
    BY <1>1, <1>2, <1>11, <2>0, <2>1, FS_Singleton
  <2>2. CASE k # k0
    <3>1. entries'[k] = entries[k] /\ start # ZeroTime
      BY <1>2, <2>0, <2>2 DEF ZeroEntry, Times, ZeroTime
    <3>2. Admitted(k, start)' = Admitted(k, start)
      BY <1>12, <2>2
    <3> QED BY <2>0, <3>1, <3>2 DEF EntriesCount, IInv
  <2> QED BY <2>1, <2>2
<1>15. LatestWindow'
  <2> SUFFICES ASSUME NEW q \in Requests, phase'[q] = "allowed"
               PROVE  IF entries'[key[q]].windowStart = ZeroTime
                      THEN countedIn'[q] + 2 * Window < clock
                      ELSE \/ countedIn'[q] = entries'[key[q]].windowStart
                           \/ countedIn'[q] + Window <= entries'[key[q]].windowStart
    BY <1>6 DEF LatestWindow
  <2>1. CASE q = r
    BY <1>1, <1>2, <1>5, <2>1 DEF Times, ZeroTime
  <2>2. CASE q # r /\ key[q] = k0
    BY <1>1, <1>2, <1>5, <1>9, <2>2 DEF Times, ZeroTime
  <2>3. CASE q # r /\ key[q] # k0
    <3>1. /\ key[q] \in Keys \ {k0} /\ countedIn[q] \in Times
          /\ entries[key[q]].windowStart \in Times \cup {ZeroTime}
      BY <2>3 DEF IInv, TypeOK
    <3>2. phase[q] = "allowed" /\ countedIn'[q] = countedIn[q]
      BY <1>5, <2>3
    <3>3. IF entries[key[q]].windowStart = ZeroTime
          THEN countedIn[q] + 2 * Window < clock
          ELSE \/ countedIn[q] = entries[key[q]].windowStart
               \/ countedIn[q] + Window <= entries[key[q]].windowStart
      BY <3>2 DEF IInv, LatestWindow
    <3>4. CASE n - entries[key[q]].windowStart > 2 * Window
      <4>1. entries'[key[q]].windowStart = ZeroTime
        BY <1>2, <3>1, <3>4 DEF ZeroEntry
      <4> QED BY <1>1, <3>1, <3>2, <3>3, <3>4, <4>1, RateLimiterAssumption DEF Times, ZeroTime
    <3>5. CASE ~(n - entries[key[q]].windowStart > 2 * Window)
      BY <1>2, <3>1, <3>2, <3>3, <3>5
    <3> QED BY <3>4, <3>5
  <2> QED BY <2>1, <2>2, <2>3
<1>16. WindowsApart'
  <2> SUFFICES ASSUME NEW p \in Requests, NEW q \in Requests,
                      phase'[p] = "allowed", phase'[q] = "allowed", key[p] = key[q]
               PROVE  \/ countedIn'[p] = countedIn'[q]
                      \/ countedIn'[p] >= countedIn'[q] + Window
                      \/ countedIn'[q] >= countedIn'[p] + Window
    BY <1>6 DEF WindowsApart
  <2>1. CASE p = r \/ q = r
    BY <1>1, <1>5, <1>9, <2>1, RateLimiterAssumption DEF Times, IInv, TypeOK
  <2>2. CASE p # r /\ q # r
    BY <1>5, <2>2 DEF IInv, WindowsApart
  <2> QED BY <2>1, <2>2
<1>17. MemoryBounded'
  <2> SUFFICES ASSUME NEW j \in Keys, NEW k \in Keys,
                      entries'[j].windowStart # ZeroTime, entries'[k].windowStart # ZeroTime
               PROVE  entries'[j].windowStart - entries'[k].windowStart <= 2 * Window
    BY DEF MemoryBounded
  <2>1. /\ entries'[j].windowStart \in Times /\ entries'[k].windowStart \in Times
        /\ entries'[j].windowStart <= clock
    BY <1>3, <1>6, <1>14 DEF EntriesCount
  <2>2. CASE k = k0
    BY <1>1, <1>2, <2>1, <2>2, RateLimiterAssumption DEF Times
  <2>3. CASE k # k0 /\ j = k0
    <3>1. ~(n - entries[k].windowStart > 2 * Window) /\ entries'[k] = entries[k]
      BY <1>2, <2>3 DEF ZeroEntry
    <3> QED BY <1>2, <2>3, <3>1, <2>1, <1>1, RateLimiterAssumption DEF Times
  <2>4. CASE k # k0 /\ j # k0
    <3>1. entries'[k] = entries[k] /\ entries'[j] = entries[j]
      BY <1>2, <2>4 DEF ZeroEntry
    <3> QED BY <3>1 DEF IInv, MemoryBounded
  <2> QED BY <2>2, <2>3, <2>4
<1> QED BY <1>5, <1>7, <1>8, <1>13, <1>14, <1>15, <1>16, <1>17 DEF IInv

(* Counting a request keeps the invariant: it came before its window       *)
(* ended, and the window was not full.                                     *)
LEMMA CountRequestInv ==
    ASSUME IInv, NEW r \in Requests, CountRequest(r)
    PROVE  IInv'
<1>0. PICK k0 \in Keys, start \in Times : k0 = key[r] /\ start = entries[k0].windowStart
  BY DEF IInv, TypeOK, CountRequest, Expired, Entry
<1>1. /\ now[r] \in Times /\ clock \in Times /\ now[r] <= clock
      /\ clock - now[r] <= MaxDelay /\ phase[r] = "stamped"
      /\ now[r] - start < Window /\ start # ZeroTime
      /\ entries[k0].count \in 0..RequestsPerWindow /\ entries[k0].count < RequestsPerWindow
  BY <1>0, RateLimiterAssumption
     DEF IInv, TypeOK, Stamps, CountRequest, Expired, Full, Entry, Times, ZeroTime
<1>2. /\ entries'[k0] = [windowStart |-> start, count |-> entries[k0].count + 1]
      /\ \A k \in Keys \ {k0} : entries'[k] = entries[k]
      /\ entries' \in [Keys -> [windowStart : Times \cup {ZeroTime}, count : 0..RequestsPerWindow]]
  BY <1>0, <1>1, RateLimiterAssumption DEF IInv, TypeOK, CountRequest, Times
<1>3. \A k \in Keys : entries'[k].windowStart = entries[k].windowStart
  BY <1>0, <1>2
<1>4. Decided(r, "allowed")
  BY DEF CountRequest
<1>5. /\ phase'[r] = "allowed" /\ decidedAt'[r] = clock /\ countedIn'[r] = start
      /\ \A q \in Requests \ {r} : /\ phase'[q] = phase[q] /\ countedIn'[q] = countedIn[q]
                                   /\ decidedAt'[q] = decidedAt[q]
      /\ DeniedOnlyWhenBusy'
  BY <1>0, <1>1, <1>2, <1>4, DecidedKeeps DEF DeniedOnlyWhenBusy
<1>6. key' = key /\ now' = now /\ clock' = clock
  BY <1>4 DEF Decided
<1>7. TypeOK'
  BY <1>0, <1>1, <1>2, <1>4 DEF TypeOK, IInv, Decided
<1>8. start <= clock /\ entries[k0].count = Cardinality(Admitted(k0, start))
  BY <1>0, <1>1 DEF IInv, EntriesCount
<1>9. Stamps'
  BY <1>1, <1>5, <1>6, <1>8, RateLimiterAssumption DEF Stamps, IInv, TypeOK, Times
<1>10. Admitted(k0, start)' = Admitted(k0, start) \cup {r} /\ r \notin Admitted(k0, start)
  BY <1>0, <1>1, <1>5, <1>6 DEF Admitted
<1>11. Cardinality(Admitted(k0, start)') = entries[k0].count + 1
  BY <1>8, <1>10, AdmittedFinite, FS_AddElement
<1>12. \A k, s : k # k0 \/ s # start => Admitted(k, s)' = Admitted(k, s)
  BY <1>0, <1>1, <1>5, <1>6 DEF Admitted
<1>13. AtMostPerWindow'
  <2> SUFFICES ASSUME NEW k \in Keys, NEW s \in Times
               PROVE  Cardinality(Admitted(k, s)') <= RequestsPerWindow
    BY DEF AtMostPerWindow
  <2>1. CASE k = k0 /\ s = start
    BY <1>1, <1>11, <2>1, RateLimiterAssumption
  <2>2. CASE k # k0 \/ s # start
    BY <1>12, <2>2 DEF AtMostPerWindow, IInv
  <2> QED BY <2>1, <2>2
<1>14. EntriesCount'
  <2> SUFFICES ASSUME NEW k \in Keys, entries'[k].windowStart # ZeroTime
               PROVE  (/\ entries[k].windowStart <= clock
                       /\ entries[k].count = Cardinality(Admitted(k, entries[k].windowStart)))'
    BY DEF EntriesCount
  <2>0. PICK s \in Times : entries'[k].windowStart = s
    BY <1>2
  <2> SUFFICES s <= clock /\ entries'[k].count = Cardinality(Admitted(k, s)')
    <3>1. Admitted(k, entries[k].windowStart)' = Admitted(k, s)'
      BY <2>0 DEF Admitted
    <3> QED BY <1>6, <2>0, <3>1
  <2>1. CASE k = k0
    BY <1>2, <1>8, <1>11, <2>0, <2>1
  <2>2. CASE k # k0
    <3>1. entries'[k] = entries[k] /\ s # ZeroTime
      BY <1>2, <2>0, <2>2 DEF Times, ZeroTime
    <3>2. Admitted(k, s)' = Admitted(k, s)
      BY <1>12, <2>2
    <3> QED BY <2>0, <3>1, <3>2 DEF EntriesCount, IInv
  <2> QED BY <2>1, <2>2
<1>15. LatestWindow'
  <2> SUFFICES ASSUME NEW q \in Requests, phase'[q] = "allowed"
               PROVE  IF entries'[key[q]].windowStart = ZeroTime
                      THEN countedIn'[q] + 2 * Window < clock
                      ELSE \/ countedIn'[q] = entries'[key[q]].windowStart
                           \/ countedIn'[q] + Window <= entries'[key[q]].windowStart
    BY <1>6 DEF LatestWindow
  <2>1. CASE q = r
    BY <1>0, <1>1, <1>2, <1>5, <2>1
  <2>2. CASE q # r
    <3>1. phase[q] = "allowed" /\ countedIn'[q] = countedIn[q] /\ key[q] \in Keys
      BY <1>5, <2>2 DEF IInv, TypeOK
    <3> QED BY <1>3, <3>1 DEF IInv, LatestWindow
  <2> QED BY <2>1, <2>2
<1>16. WindowsApart'
  <2> SUFFICES ASSUME NEW p \in Requests, NEW q \in Requests,
                      phase'[p] = "allowed", phase'[q] = "allowed", key[p] = key[q]
               PROVE  \/ countedIn'[p] = countedIn'[q]
                      \/ countedIn'[p] >= countedIn'[q] + Window
                      \/ countedIn'[q] >= countedIn'[p] + Window
    BY <1>6 DEF WindowsApart
  <2>1. ASSUME NEW x \in Requests, x # r, phase'[x] = "allowed", key[x] = k0
        PROVE  countedIn'[x] = start \/ start >= countedIn'[x] + Window
    <3>1. phase[x] = "allowed" /\ countedIn'[x] = countedIn[x] /\ countedIn[x] \in Times
      BY <1>5, <2>1 DEF IInv, TypeOK
    <3> QED BY <1>0, <1>1, <2>1, <3>1, RateLimiterAssumption DEF IInv, LatestWindow, Times
  <2>2. CASE p = r \/ q = r
    BY <1>0, <1>5, <2>1, <2>2
  <2>3. CASE p # r /\ q # r
    BY <1>5, <2>3 DEF IInv, WindowsApart
  <2> QED BY <2>2, <2>3
<1>17. MemoryBounded'
  BY <1>3 DEF IInv, MemoryBounded
<1> QED BY <1>5, <1>7, <1>9, <1>13, <1>14, <1>15, <1>16, <1>17 DEF IInv

(* A denial changes no entry, and those whom the full window admitted are  *)
(* the ones that kept the request out.                                     *)
LEMMA DenyInv ==
    ASSUME IInv, NEW r \in Requests, Deny(r)
    PROVE  IInv'
<1>0. PICK k0 \in Keys, start \in Times : k0 = key[r] /\ start = entries[k0].windowStart
  BY DEF IInv, TypeOK, Deny, Expired, Entry
<1>1. /\ now[r] \in Times /\ clock \in Times /\ phase[r] = "stamped"
      /\ now[r] - start < Window /\ start # ZeroTime
      /\ entries[k0].count = RequestsPerWindow
  <2>1. /\ now[r] \in Times /\ clock \in Times /\ phase[r] = "stamped"
        /\ entries[k0].count \in 0..RequestsPerWindow /\ start # ZeroTime
    BY <1>0 DEF IInv, TypeOK, Deny, Times, ZeroTime
  <2>2. ~(now[r] - start >= Window) /\ entries[k0].count >= RequestsPerWindow
    BY <1>0 DEF Deny, Expired, Full, Entry
  <2>3. now[r] - start < Window
    BY <2>1, <2>2, RateLimiterAssumption DEF Times
  <2>4. entries[k0].count = RequestsPerWindow
    BY <2>1, <2>2, RateLimiterAssumption
  <2> QED BY <2>1, <2>3, <2>4
<1>2. entries' = entries /\ Decided(r, "denied")
  BY DEF Deny
<1>3. /\ phase'[r] = "denied" /\ decidedAt'[r] = clock
      /\ \A q \in Requests \ {r} : /\ phase'[q] = phase[q] /\ countedIn'[q] = countedIn[q]
                                   /\ decidedAt'[q] = decidedAt[q]
  BY <1>0, <1>1, <1>2, DecidedKeeps
<1>4. \A q \in Requests \ {r} : phase'[q] = "denied" =>
          \E busy \in SUBSET {p \in Requests :
                /\ phase'[p] = "allowed" /\ key'[p] = key'[q]
                /\ decidedAt'[p] > now'[q] - Window
                /\ decidedAt'[p] <= decidedAt'[q]} :
             Cardinality(busy) = RequestsPerWindow
  BY <1>0, <1>1, <1>2, DecidedKeeps
<1>5. key' = key /\ now' = now /\ clock' = clock
  BY <1>2 DEF Decided
<1>6. TypeOK'
  BY <1>0, <1>1, <1>2 DEF TypeOK, IInv, Decided
<1>7. Stamps'
  BY <1>1, <1>3, <1>5 DEF Stamps, IInv, TypeOK, Times
<1>8. \A k, s : Admitted(k, s)' = Admitted(k, s)
  BY <1>1, <1>3, <1>5 DEF Admitted
<1>9. AtMostPerWindow' /\ EntriesCount' /\ MemoryBounded'
  BY <1>2, <1>5, <1>8 DEF AtMostPerWindow, EntriesCount, MemoryBounded, IInv
<1>10. LatestWindow' /\ WindowsApart'
  BY <1>2, <1>3, <1>5 DEF LatestWindow, WindowsApart, IInv
<1>11. DeniedOnlyWhenBusy'
  <2>1. \E busy \in SUBSET {p \in Requests :
              /\ phase'[p] = "allowed" /\ key'[p] = key'[r]
              /\ decidedAt'[p] > now'[r] - Window
              /\ decidedAt'[p] <= decidedAt'[r]} :
           Cardinality(busy) = RequestsPerWindow
    <3>1. Cardinality(Admitted(k0, start)) = RequestsPerWindow
      BY <1>0, <1>1 DEF IInv, EntriesCount
    <3>2. ASSUME NEW p \in Admitted(k0, start)
          PROVE  /\ p \in Requests /\ phase'[p] = "allowed" /\ key'[p] = key'[r]
                 /\ decidedAt'[p] > now'[r] - Window /\ decidedAt'[p] <= decidedAt'[r]
      <4>1. p \in Requests /\ p # r /\ phase[p] = "allowed" /\ key[p] = k0 /\ countedIn[p] = start
        BY <1>1, <3>2 DEF Admitted
      <4>2. start <= decidedAt[p] /\ decidedAt[p] <= clock /\ decidedAt[p] \in Times
        BY <4>1 DEF IInv, Stamps, TypeOK
      <4> QED BY <1>0, <1>1, <1>3, <1>5, <4>1, <4>2, RateLimiterAssumption DEF Times
    <3> QED BY <3>1, <3>2
  <2> QED BY <1>4, <2>1 DEF DeniedOnlyWhenBusy
<1> QED BY <1>6, <1>7, <1>9, <1>10, <1>11 DEF IInv

(* The invariant holds in every reachable state.                           *)
LEMMA Inductive == Spec => []IInv
<1>1. IInv /\ [Next]_vars => IInv'
  <2> SUFFICES ASSUME IInv, [Next]_vars PROVE IInv'
    OBVIOUS
  <2>1. CASE UNCHANGED vars
    <3>1. \A k, start : Admitted(k, start)' = Admitted(k, start)
      BY <2>1 DEF vars, Admitted
    <3> QED BY <2>1, <3>1 DEF vars, IInv, TypeOK, Stamps, EntriesCount, LatestWindow,
               AtMostPerWindow, WindowsApart, DeniedOnlyWhenBusy, MemoryBounded
  <2> QED BY <2>1, StampInv, OpenWindowInv, CountRequestInv, DenyInv, TickInv DEF Next
<1> QED BY <1>1, InvInit, PTL DEF Spec
-----------------------------------------------------------------------------
(* Every variable keeps its type; above all, no entry ever counts more     *)
(* requests than the limit.                                                *)
THEOREM TypeCorrect == Spec => []TypeOK
BY Inductive, PTL DEF IInv

(* No window of a key admits more than RequestsPerWindow requests.         *)
THEOREM WindowsLimit == Spec => []AtMostPerWindow
BY Inductive, PTL DEF IInv

(* Windows of a key never overlap, whatever the lock, pruning and requests *)
(* with an old time do.                                                    *)
THEOREM WindowsDisjoint == Spec => []WindowsApart
BY Inductive, PTL DEF IInv

(* Whoever is denied was kept out by a full limit of recent requests.      *)
THEOREM DenialsJustified == Spec => []DeniedOnlyWhenBusy
BY Inductive, PTL DEF IInv

(* Entries that remain lie within two windows of each other.               *)
THEOREM EntriesRecent == Spec => []MemoryBounded
BY Inductive, PTL DEF IInv

(* Numbers closer to each other than Window that are Window apart whenever *)
(* they differ are one number.                                             *)
LEMMA NarrowSet ==
    ASSUME NEW S \in SUBSET Int, NEW low \in Int,
           \A x \in S : low < x /\ x <= low + Window,
           \A x, y \in S : x = y \/ x >= y + Window \/ y >= x + Window
    PROVE  IsFiniteSet(S) /\ Cardinality(S) <= 1 /\ Cardinality(S) \in Nat
<1>1. \A x, y \in S : x = y
  BY RateLimiterAssumption
<1>2. CASE S = {}
  BY <1>2, FS_EmptySet
<1>3. CASE S # {}
  <2>1. PICK x \in S : TRUE
    BY <1>3
  <2>2. S = {x}
    BY <1>1, <2>1
  <2>3. IsFiniteSet({x}) /\ Cardinality({x}) = 1
    BY FS_Singleton
  <2> QED BY <2>2, <2>3
<1> QED BY <1>2, <1>3

(* A union has no more elements than its parts together.                   *)
LEMMA UnionBound ==
    ASSUME NEW A, NEW B, NEW m \in Nat, NEW n \in Nat, IsFiniteSet(A), IsFiniteSet(B),
           Cardinality(A) <= m, Cardinality(B) <= n
    PROVE  IsFiniteSet(A \cup B) /\ Cardinality(A \cup B) <= m + n
<1>1. A \cap B \in SUBSET A
  OBVIOUS
<1>2. IsFiniteSet(A \cap B)
  BY <1>1, FS_Subset
<1>3. /\ Cardinality(A) \in Nat /\ Cardinality(B) \in Nat
      /\ Cardinality(A \cap B) \in Nat
  BY <1>2, FS_CardinalityType
<1>4. /\ IsFiniteSet(A \cup B)
      /\ Cardinality(A \cup B) = Cardinality(A) + Cardinality(B) - Cardinality(A \cap B)
  BY FS_Union
<1> QED BY <1>3, <1>4

(* A stretch of one window meets at most three windows of a key, and two   *)
(* when no request waits for the lock.                                     *)
THEOREM BurstsBounded == Spec => []BurstBound
<1>1. IInv => BurstBound
  <2> SUFFICES ASSUME IInv, NEW k \in Keys, NEW from \in Times
               PROVE  LET S == {countedIn[r] : r \in
                                  {q \in Requests : /\ phase[q] = "allowed" /\ key[q] = k
                                                    /\ decidedAt[q] \in from..(from + Window - 1)}}
                      IN  Cardinality(S) <= (IF MaxDelay = 0 THEN 2 ELSE 3)
    BY DEF BurstBound
  <2> DEFINE Q == {q \in Requests : /\ phase[q] = "allowed" /\ key[q] = k
                                    /\ decidedAt[q] \in from..(from + Window - 1)}
             S == {countedIn[r] : r \in Q}
             First  == {x \in S : from - 2 * Window < x /\ x <= from - Window}
             Second == {x \in S : from - Window < x /\ x <= from}
             Third  == {x \in S : from < x /\ x <= from + Window}
  <2>1. S \in SUBSET Int /\ from \in Int /\ Window \in Int
    BY RateLimiterAssumption DEF IInv, TypeOK, Times
  <2>2. \A x, y \in S : x = y \/ x >= y + Window \/ y >= x + Window
    BY DEF IInv, WindowsApart
  <2>3. ASSUME NEW x \in S
        PROVE  /\ from - 2 * Window < x /\ x <= from + Window
               /\ MaxDelay = 0 => from - Window < x
    <3>1. PICK q \in Q : x = countedIn[q]
      OBVIOUS
    <3>2. /\ q \in Requests /\ phase[q] = "allowed"
          /\ from <= decidedAt[q] /\ decidedAt[q] <= from + Window - 1
          /\ decidedAt[q] \in Times /\ countedIn[q] \in Times /\ now[q] \in Times
      BY DEF IInv, TypeOK
    <3>3. /\ decidedAt[q] - now[q] <= MaxDelay /\ now[q] < countedIn[q] + Window
          /\ countedIn[q] <= decidedAt[q]
      BY <3>2 DEF IInv, Stamps
    <3> QED BY <3>1, <3>2, <3>3, RateLimiterAssumption DEF Times
  <2>4. /\ IsFiniteSet(First) /\ Cardinality(First) <= 1 /\ Cardinality(First) \in Nat
    <3>1. from - 2 * Window \in Int /\ from - 2 * Window + Window = from - Window
      BY <2>1
    <3> QED BY <2>1, <2>2, <3>1, NarrowSet
  <2>5. /\ IsFiniteSet(Second) /\ Cardinality(Second) <= 1 /\ Cardinality(Second) \in Nat
    <3>1. from - Window \in Int /\ from - Window + Window = from
      BY <2>1
    <3> QED BY <2>1, <2>2, <3>1, NarrowSet
  <2>6. /\ IsFiniteSet(Third) /\ Cardinality(Third) <= 1 /\ Cardinality(Third) \in Nat
    BY <2>1, <2>2, NarrowSet
  <2>7. IsFiniteSet(Second \cup Third) /\ Cardinality(Second \cup Third) <= 2
    <3> HIDE DEF Second, Third
    <3>1. Cardinality(Second \cup Third) <= 1 + 1 /\ IsFiniteSet(Second \cup Third)
      BY <2>5, <2>6, UnionBound, 1 \in Nat, Zenon
    <3> QED BY <3>1
  <2>8. Cardinality(First \cup (Second \cup Third)) <= 3
    <3> HIDE DEF First, Second, Third
    <3>1. Cardinality(First \cup (Second \cup Third)) <= 1 + 2
      BY <2>4, <2>7, UnionBound, 1 \in Nat, 2 \in Nat, Zenon
    <3> QED BY <3>1
  <2>9. S = First \cup (Second \cup Third) /\ (MaxDelay = 0 => S = Second \cup Third)
    <3>1. ASSUME NEW x \in S
          PROVE  /\ x \in First \/ x \in Second \/ x \in Third
                 /\ MaxDelay = 0 => x \in Second \/ x \in Third
      <4>1. x \in Int
        BY <2>1
      <4>2. /\ from - 2 * Window < x /\ x <= from + Window
            /\ MaxDelay = 0 => from - Window < x
        BY <2>3
      <4> HIDE DEF S
      <4> QED BY <2>1, <4>1, <4>2
    <3> HIDE DEF S
    <3> QED BY <3>1
  <2> HIDE DEF S
  <2> QED BY <2>7, <2>8, <2>9 DEF S
<1> QED BY <1>1, Inductive, PTL
=============================================================================
