------------------------ MODULE RequestPolicyProofs ------------------------
(* What the workers of a crawl may rely on when they share origins, for any *)
(* number of workers and origins, any paths to robots.txt, any delays and   *)
(* any number of retries and redirects.                                     *)
EXTENDS RequestPolicy, TLAPS

Holding == {"slot", "pace", "cool", "nap", "clear"}
Requesting == Holding \cup {"send", "acquire", "flight", "backoff"}

\* A worker past the lock on last_request is the one that holds it.
SlotHeld == \A w \in Workers : at[w] \in Holding => holder[Dest(w)] = w

\* A worker that asks for robots.txt initialises the empty cell of its origin.
CellHeld ==
  /\ \A w \in Workers : hop[w] > 0 =>
       at[w] \in Requesting \cup {"done"} /\ (at[w] # "done" => loader[origin[w]] = w)
  /\ \A o \in Origins : loader[o] # NoWorker => robots[o] = "unset"

\* A request for a page has the permission of its origin.
Permitted ==
  \A w \in Workers : RespectRobots /\ at[w] \in Requesting /\ hop[w] = 0 =>
    robots[origin[w]] \in {"rules", "none"}

LoadedOnce ==
  cancelled \/ \A o \in Origins :
    loads[o] <= IF robots[o] = "unset" /\ loader[o] = NoWorker THEN 0 ELSE 1

\* The distance the next request of w has to keep.
Distance(w) ==
  IF hop[w] = 0 /\ RespectRobots /\ robots[origin[w]] = "rules"
  THEN PageDelay(Dest(w)) ELSE RequestDelay

Spaced ==
  \A w \in Workers :
    /\ at[w] = "slot" => sleep[w] >= Distance(w)
    /\ at[w] = "pace" => since[Dest(w)] + sleep[w] >= Distance(w)
    /\ at[w] \in {"cool", "nap", "clear"} => since[Dest(w)] >= Distance(w)

\* No response asked for more than the cooldown, and a request that started
\* during it was the one past its last check.
Cooled ==
  \A o \in Origins :
    /\ asked[o] <= cooldown[o] /\ late[o] <= 1
    /\ asked[o] = 0 => late[o] = 0
    /\ late[o] = 1 => \A w \in Workers : at[w] = "clear" => Dest(w) # o

Excused == paused => \A w \in Workers : at[w] = "clear" => w \in excused

IInv ==
  /\ TypeOK /\ SlotHeld /\ CellHeld /\ Permitted /\ LoadedOnce
  /\ Spaced /\ Cooled /\ Excused

-----------------------------------------------------------------------------
(* Where requests go.                                                      *)

LEMMA Destinations ==
  ASSUME TypeOK, NEW w \in Workers
  PROVE  Dest(w) \in Origins
<1>1. CASE hop[w] = 0
  BY <1>1 DEF TypeOK, Dest
<1>2. CASE hop[w] # 0
  <2>1. RobotsPath[origin[w]] \in Seq(Origins) /\ hop[w] \in 1..Len(RobotsPath[origin[w]])
    BY <1>2, PolicyAssumption DEF TypeOK
  <2> QED
    BY <1>2, <2>1 DEF Dest
<1> QED
  BY <1>1, <1>2

LEMMA Measures ==
  ASSUME TypeOK, NEW w \in Workers
  PROVE  /\ since[Dest(w)] \in Nat /\ sleep[w] \in Nat /\ Distance(w) \in Nat
         /\ PageDelay(Dest(w)) \in Nat /\ Distance(w) <= PageDelay(Dest(w))
<1>1. Dest(w) \in Origins
  BY Destinations
<1>2. \A o \in Origins : PageDelay(o) \in Nat /\ RequestDelay <= PageDelay(o)
  BY PolicyAssumption DEF PageDelay, Later
<1>3. Distance(w) \in Nat /\ Distance(w) <= PageDelay(Dest(w))
  BY <1>1, <1>2, PolicyAssumption DEF Distance
<1> QED
  BY <1>1, <1>2, <1>3 DEF TypeOK

LEMMA SamePlace ==
  ASSUME UNCHANGED <<origin, hop>>
  PROVE  \A w \in Workers : Dest(w)' = Dest(w)
BY DEF Dest

-----------------------------------------------------------------------------
LEMMA InitHolds == Init => IInv
<1> SUFFICES ASSUME Init PROVE IInv
  OBVIOUS
<1>1. \A o \in Origins : PageDelay(o) \in Nat
  BY PolicyAssumption DEF PageDelay, Later
<1>2. \A w \in Workers : Len(RobotsPath[origin[w]]) \in Nat
  BY PolicyAssumption DEF Init
<1>3. TypeOK
  <2>1. /\ 0 \in 0..RetryAttempts /\ 0 \in 0..MaxRedirects /\ 0 \in 0..Indefinite
        /\ \A w \in Workers : 0 <= Len(RobotsPath[origin[w]])
    BY <1>2, PolicyAssumption DEF Indefinite
  <2> QED
    BY <1>1, <2>1 DEF Init, TypeOK
<1>4. SlotHeld /\ Permitted /\ Spaced /\ Excused
  BY DEF Init, SlotHeld, Permitted, Spaced, Excused, Holding, Requesting
<1>5. CellHeld /\ LoadedOnce /\ Cooled
  BY DEF Init, CellHeld, LoadedOnce, Cooled
<1> QED
  BY <1>3, <1>4, <1>5 DEF IInv

-----------------------------------------------------------------------------
(* Steps that only move a worker to its next await.                        *)

Walk(w) ==
  \/ Begin(w) \/ EnterPage(w) \/ ObeyRobots(w) \/ EnterSend(w)
  \/ EndPacing(w) \/ EndNap(w) \/ EndBackoff(w) \/ Challenge(w)

LEMMA WalkKeeps ==
  ASSUME IInv, NEW w \in Workers, Walk(w)
  PROVE  IInv'
<1> USE DEF IInv
<1>1. UNCHANGED <<origin, hop, attempt, redirects, sleep, slot, policy, control, past>>
  BY DEF Walk, Begin, EnterPage, ObeyRobots, EnterSend, EndPacing, EndNap, EndBackoff,
         Challenge, retrying
<1>2. challenged' \in [Workers -> BOOLEAN]
  BY DEF Walk, Begin, EnterPage, ObeyRobots, EnterSend, EndPacing, EndNap, EndBackoff,
         Challenge, TypeOK, retrying
<1>3. \E p \in {"page", "policy", "send", "done", "acquire", "cool"} : Go(w, p)
  BY DEF Walk, Begin, EnterPage, ObeyRobots, EnterSend, EndPacing, EndNap, EndBackoff,
         Challenge
<1>4. /\ UNCHANGED <<origin, hop, attempt, redirects, sleep, slot, policy, control, past>>
      /\ challenged' \in [Workers -> BOOLEAN]
      /\ \A v \in Workers \ {w} : at'[v] = at[v]
      /\ at' \in [Workers -> Requesting \cup {"page", "policy", "done", "idle"}]
  BY <1>1, <1>2, <1>3 DEF Go, TypeOK, Requesting, Holding
<1>5. /\ at'[w] \notin {"slot", "pace", "nap", "clear"}
      /\ at'[w] \in Holding => at[w] \in Holding
      /\ at'[w] = "cool" => (at[w] = "pace" /\ sleep[w] = 0) \/ at[w] = "nap"
  BY DEF Walk, Begin, EnterPage, ObeyRobots, EnterSend, EndPacing, EndNap, EndBackoff,
         Challenge, Go, TypeOK, Holding
<1>6. hop[w] > 0 => at[w] # "done" /\ at'[w] \in Requesting
  BY DEF Walk, Begin, EnterPage, ObeyRobots, EnterSend, EndPacing, EndNap, EndBackoff,
         Challenge, Go, TypeOK, CellHeld, Requesting, Holding
<1>7. RespectRobots /\ at'[w] \in Requesting /\ hop[w] = 0 => robots[origin[w]] \in {"rules", "none"}
  BY DEF Walk, Begin, EnterPage, ObeyRobots, EnterSend, EndPacing, EndNap, EndBackoff,
         Challenge, Go, TypeOK, Permitted, Requesting, Holding
<1>8. \A v \in Workers : Dest(v)' = Dest(v)
  BY <1>4, SamePlace
<1>9. \A v \in Workers : Distance(v)' = Distance(v)
  BY <1>4, <1>8 DEF Distance, policy
<1>10. TypeOK'
  BY <1>4 DEF TypeOK, slot, policy, control, past, Requesting, Holding
<1>11. SlotHeld'
  BY <1>4, <1>5, <1>8 DEF SlotHeld, slot
<1>12. CellHeld'
  BY <1>4, <1>6 DEF CellHeld, policy
<1>13. Permitted'
  BY <1>4, <1>7 DEF Permitted, policy
<1>14. LoadedOnce'
  BY <1>4 DEF LoadedOnce, policy, control, past
<1>15. Spaced'
  BY <1>4, <1>5, <1>8, <1>9, Measures DEF Spaced, slot
<1>16. Cooled'
  BY <1>4, <1>5, <1>8 DEF Cooled, slot, past
<1>17. Excused'
  BY <1>4, <1>5 DEF Excused, control, past
<1> QED
  BY <1>10, <1>11, <1>12, <1>13, <1>14, <1>15, <1>16, <1>17

-----------------------------------------------------------------------------
(* Steps that read or write what workers share.                            *)

\* A step of w moves nobody else.
LEMMA OthersStay ==
  ASSUME TypeOK, NEW w \in Workers, NEW v \in Workers \ {w}, NEW h, NEW o,
         hop' = [hop EXCEPT ![w] = h], origin' = [origin EXCEPT ![w] = o]
  PROVE  hop'[v] = hop[v] /\ origin'[v] = origin[v] /\ Dest(v)' = Dest(v)
<1>1. hop'[v] = hop[v] /\ origin'[v] = origin[v]
  BY DEF TypeOK
<1> QED
  BY <1>1 DEF Dest

LEMMA GoMoves ==
  ASSUME TypeOK, NEW w \in Workers, NEW p, Go(w, p)
  PROVE  at'[w] = p /\ \A v \in Workers \ {w} : at'[v] = at[v]
BY DEF Go, TypeOK

\* A request that goes on as the same request keeps its cell and permission.
LEMMA SameRequest ==
  ASSUME CellHeld, Permitted, NEW w \in Workers,
         at[w] \in Requesting, at'[w] \in Requesting,
         \A v \in Workers \ {w} : at'[v] = at[v],
         UNCHANGED <<origin, hop, policy>>
  PROVE  CellHeld' /\ Permitted'
<1>1. at[w] # "done"
  BY DEF Requesting, Holding
<1>2. CellHeld'
  BY <1>1 DEF CellHeld, policy
<1>3. Permitted'
  BY DEF Permitted, policy
<1> QED
  BY <1>2, <1>3

\* Only an empty cell is written, so that a permission lasts.
LEMMA DistanceStays ==
  ASSUME Permitted, NEW v \in Workers, at[v] \in Requesting,
         hop'[v] = hop[v], origin'[v] = origin[v], Dest(v)' = Dest(v),
         robots[origin[v]] # "unset" => robots'[origin[v]] = robots[origin[v]]
  PROVE  Distance(v)' = Distance(v)
BY DEF Permitted, Distance

LEMMA AcquireKeeps ==
  ASSUME IInv, NEW w \in Workers, Acquire(w)
  PROVE  IInv'
<1> USE DEF IInv
<1>1. /\ UNCHANGED <<origin, hop, retrying, since, cooldown, policy, control, past>>
      /\ at[w] = "acquire" /\ holder[Dest(w)] = NoWorker
      /\ at' = [at EXCEPT ![w] = "slot"]
      /\ holder' = [holder EXCEPT ![Dest(w)] = w]
      /\ sleep' = [sleep EXCEPT ![w] = Pace(Dest(w))]
  BY DEF Acquire, Go
<1>2. \A v \in Workers : Dest(v)' = Dest(v) /\ Dest(v) \in Origins
  BY <1>1, SamePlace, Destinations
<1>3. \A v \in Workers : Distance(v)' = Distance(v)
  BY <1>1, <1>2 DEF Distance, policy
<1>4. Pace(Dest(w)) \in Nat
  BY <1>2, PolicyAssumption DEF Pace, PageDelay, Later
<1>5. Pace(Dest(w)) >= Distance(w)
  <2>1. hop[w] = 0 => Dest(w) = origin[w]
    BY DEF Dest
  <2>2. PageDelay(Dest(w)) \in Nat /\ PageDelay(Dest(w)) >= RequestDelay /\ RequestDelay \in Nat
    BY <1>2, PolicyAssumption DEF PageDelay, Later
  <2> QED
    BY <2>1, <2>2 DEF Pace, Distance
<1>6. TypeOK'
  BY <1>1, <1>2, <1>4 DEF TypeOK, retrying, policy, control, past
<1>7. at'[w] = "slot" /\ \A v \in Workers \ {w} : at'[v] = at[v]
  BY <1>1, GoMoves DEF Go
<1>8. SlotHeld'
  <2>1. \A v \in Workers : at[v] \in Holding => Dest(v) # Dest(w)
    BY <1>1, PolicyAssumption DEF SlotHeld
  <2>2. holder'[Dest(w)] = w /\ \A o \in Origins \ {Dest(w)} : holder'[o] = holder[o]
    BY <1>1, <1>2 DEF TypeOK
  <2> QED
    BY <2>1, <2>2, <1>7, <1>2 DEF SlotHeld
<1>9. CellHeld' /\ Permitted'
  BY <1>1, <1>7, SameRequest DEF Requesting, Holding
<1>10. LoadedOnce'
  BY <1>1 DEF LoadedOnce, policy, control, past
<1>11. Spaced'
  BY <1>1, <1>2, <1>3, <1>5 DEF Spaced, TypeOK
<1>12. Cooled' /\ Excused'
  BY <1>1, <1>2 DEF Cooled, Excused, control, past, TypeOK
<1> QED
  BY <1>6, <1>8, <1>9, <1>10, <1>11, <1>12

LEMMA StartPacingKeeps ==
  ASSUME IInv, NEW w \in Workers, StartPacing(w)
  PROVE  IInv'
<1> USE DEF IInv
<1>1. PICK wait \in 0..RateWait :
        sleep' = [sleep EXCEPT ![w] = Later(0, sleep[w] - since[Dest(w)]) + wait]
  BY DEF StartPacing, TypeOK
<1>2. /\ UNCHANGED <<origin, hop, retrying, slot, policy, control, past>>
      /\ at[w] = "slot" /\ at' = [at EXCEPT ![w] = "pace"]
  BY DEF StartPacing, Go
<1>3. \A v \in Workers : Dest(v)' = Dest(v)
  BY <1>2, SamePlace
<1>4. \A v \in Workers : Distance(v)' = Distance(v)
  BY <1>2, <1>3 DEF Distance, policy
<1>5. wait \in Nat /\ sleep[w] \in Nat /\ since[Dest(w)] \in Nat /\ Distance(w) \in Nat
  BY Measures, PolicyAssumption
<1>6. Later(0, sleep[w] - since[Dest(w)]) + wait \in Nat
      /\ since[Dest(w)] + (Later(0, sleep[w] - since[Dest(w)]) + wait) >= sleep[w]
  BY <1>5 DEF Later
<1>7. TypeOK'
  BY <1>1, <1>2, <1>6 DEF TypeOK, retrying, slot, policy, control, past
<1>8. SlotHeld'
  BY <1>2, <1>3 DEF SlotHeld, slot, TypeOK, Holding
<1>9. at'[w] = "pace" /\ \A v \in Workers \ {w} : at'[v] = at[v]
  BY <1>2, GoMoves DEF Go
<1>10. CellHeld' /\ Permitted'
  BY <1>2, <1>9, SameRequest DEF Requesting, Holding
<1>11. LoadedOnce'
  BY <1>2 DEF LoadedOnce, policy, control, past
<1>12. Spaced'
  <2> SUFFICES ASSUME NEW v \in Workers
               PROVE  /\ at'[v] = "slot" => sleep'[v] >= Distance(v)'
                      /\ at'[v] = "pace" => since[Dest(v)] + sleep'[v] >= Distance(v)'
                      /\ at'[v] \in {"cool", "nap", "clear"} => since[Dest(v)] >= Distance(v)'
    BY <1>2, <1>3 DEF Spaced, slot
  <2>1. CASE v = w
    <3>1. sleep[w] >= Distance(w) /\ at'[w] = "pace"
      BY <1>2 DEF Spaced, TypeOK
    <3>2. sleep'[w] = Later(0, sleep[w] - since[Dest(w)]) + wait
      BY <1>1 DEF TypeOK
    <3> QED
      BY <2>1, <3>1, <3>2, <1>4, <1>5, <1>6
  <2>2. CASE v # w
    BY <2>2, <1>1, <1>2, <1>4 DEF Spaced, TypeOK
  <2> QED
    BY <2>1, <2>2
<1>13. Cooled' /\ Excused'
  BY <1>2, <1>3 DEF Cooled, Excused, slot, control, past, TypeOK
<1> QED
  BY <1>7, <1>8, <1>10, <1>11, <1>12, <1>13

LEMMA CheckCooldownKeeps ==
  ASSUME IInv, NEW w \in Workers, CheckCooldown(w)
  PROVE  IInv'
<1> USE DEF IInv
<1>1. /\ UNCHANGED <<origin, hop, retrying, slot, policy, control, past>>
      /\ at[w] = "cool" /\ ~paused
      /\ at' = [at EXCEPT ![w] = at'[w]] /\ at'[w] \in {"clear", "nap"}
      /\ at'[w] = "clear" => cooldown[Dest(w)] = 0
      /\ \A v \in Workers \ {w} : sleep'[v] = sleep[v]
  BY DEF CheckCooldown, Go, Admitted, TypeOK
<1>2. \A v \in Workers : Dest(v)' = Dest(v) /\ Dest(v) \in Origins
  BY <1>1, SamePlace, Destinations
<1>3. \A v \in Workers : Distance(v)' = Distance(v)
  BY <1>1, <1>2 DEF Distance, policy
<1>4. sleep' \in [Workers -> Nat]
  <2>1. cooldown[Dest(w)] \in Nat
    BY <1>2, PolicyAssumption DEF TypeOK, Indefinite
  <2>2. Sooner(cooldown[Dest(w)], Chunk) \in Nat
    BY <2>1, PolicyAssumption DEF Sooner
  <2> QED
    BY <2>2 DEF CheckCooldown, TypeOK
<1>5. TypeOK'
  BY <1>1, <1>4 DEF TypeOK, retrying, slot, policy, control, past
<1>6. SlotHeld'
  BY <1>1, <1>2 DEF SlotHeld, slot, TypeOK, Holding
<1>7. \A v \in Workers \ {w} : at'[v] = at[v]
  BY <1>1 DEF TypeOK
<1>8. CellHeld' /\ Permitted'
  BY <1>1, <1>7, SameRequest DEF Requesting, Holding
<1>9. LoadedOnce'
  BY <1>1 DEF LoadedOnce, policy, control, past
<1>10. Spaced'
  BY <1>1, <1>2, <1>3, ZenonT(40) DEF Spaced, slot, TypeOK
<1>11. Cooled'
  <2>1. at'[w] = "clear" => late[Dest(w)] # 1
    <3>1. asked[Dest(w)] \in 0..Indefinite /\ Indefinite \in Nat
      BY <1>2, PolicyAssumption DEF TypeOK, Indefinite
    <3> QED
      BY <3>1, <1>1, <1>2 DEF Cooled
  <2> QED
    BY <2>1, <1>1, <1>2 DEF Cooled, slot, past, TypeOK
<1>12. Excused'
  BY <1>1 DEF Excused, control, past
<1> QED
  BY <1>5, <1>6, <1>8, <1>9, <1>10, <1>11, <1>12

LEMMA StartKeeps ==
  ASSUME IInv, NEW w \in Workers, Start(w)
  PROVE  IInv'
<1> USE DEF IInv
<1>1. /\ UNCHANGED <<origin, hop, retrying, sleep, cooldown, policy, control, asked, loads, excused>>
      /\ at[w] = "clear" /\ at' = [at EXCEPT ![w] = "flight"]
      /\ holder' = [holder EXCEPT ![Dest(w)] = NoWorker]
      /\ since' = [since EXCEPT ![Dest(w)] = 0]
      /\ late' = [late EXCEPT ![Dest(w)] = IF asked[Dest(w)] > 0 THEN late[Dest(w)] + 1 ELSE late[Dest(w)]]
  BY Destinations DEF Start, Go, TypeOK
<1>2. \A v \in Workers : Dest(v)' = Dest(v) /\ Dest(v) \in Origins
  BY <1>1, SamePlace, Destinations
<1>3. \A v \in Workers : Distance(v)' = Distance(v)
  BY <1>1, <1>2 DEF Distance, policy
<1>4. \A v \in Workers \ {w} : at[v] \in Holding => Dest(v) # Dest(w)
  BY <1>1, PolicyAssumption DEF SlotHeld, Holding
<1>5. at'[w] = "flight" /\ \A v \in Workers \ {w} : at'[v] = at[v]
  BY <1>1, GoMoves DEF Go
<1>6. TypeOK'
  <2>1. late' \in [Origins -> Nat]
    BY <1>1, <1>2, SMTT(30) DEF TypeOK
  <2>2. since' \in [Origins -> Nat]
    BY <1>1, <1>2 DEF TypeOK
  <2>3. holder' \in [Origins -> Workers \cup {NoWorker}]
    BY <1>1, <1>2 DEF TypeOK
  <2> QED
    BY <2>1, <2>2, <2>3, <1>1 DEF TypeOK, retrying, policy, control
<1>7. SlotHeld'
  BY <1>1, <1>2, <1>4 DEF SlotHeld, TypeOK, Holding
<1>8. CellHeld' /\ Permitted'
  BY <1>1, <1>5, SameRequest DEF Requesting, Holding
<1>9. LoadedOnce'
  BY <1>1 DEF LoadedOnce, policy, control
<1>10. Spaced'
  <2>1. \A o \in Origins \ {Dest(w)} : since'[o] = since[o]
    BY <1>1 DEF TypeOK
  <2> QED
    BY <2>1, <1>5, <1>1, <1>2, <1>3, <1>4 DEF Spaced, Holding
<1>11. Cooled'
  <2>1. late[Dest(w)] = 0
    BY <1>1, <1>2, SMTT(30) DEF Cooled, TypeOK
  <2>2. \A v \in Workers : at'[v] = "clear" => v # w /\ at[v] = "clear" /\ Dest(v) # Dest(w)
    BY <1>1, <1>4 DEF TypeOK, Holding
  <2> QED
    <3>1. late'[Dest(w)] \in {0, 1} /\ (asked[Dest(w)] = 0 => late'[Dest(w)] = 0)
          /\ \A o \in Origins \ {Dest(w)} : late'[o] = late[o]
      BY <2>1, <1>1, <1>2 DEF TypeOK
    <3> QED
      BY <3>1, <2>2, <1>1, <1>2 DEF Cooled
<1>12. Excused'
  BY <1>1 DEF Excused, control, TypeOK
<1> QED
  BY <1>6, <1>7, <1>8, <1>9, <1>10, <1>11, <1>12

-----------------------------------------------------------------------------
(* Steps of a worker that has let go of its slot, or never had it.         *)

LEMMA OffSlot ==
  ASSUME IInv, NEW w \in Workers, at'[w] \notin Holding,
         \A v \in Workers \ {w} :
           /\ at'[v] = at[v] /\ sleep'[v] = sleep[v] /\ Dest(v)' = Dest(v)
           /\ hop'[v] = hop[v] /\ origin'[v] = origin[v]
           /\ holder[Dest(v)] = v => holder'[Dest(v)] = v,
         \A o \in Origins : robots[o] # "unset" => robots'[o] = robots[o],
         UNCHANGED <<since, paused, excused>>
  PROVE  SlotHeld' /\ Spaced' /\ Excused'
<1> USE DEF IInv
<1>1. SlotHeld'
  BY DEF SlotHeld
<1>2. \A v \in Workers : at'[v] \in Holding => v # w /\ Distance(v)' = Distance(v)
  <2> SUFFICES ASSUME NEW v \in Workers, at'[v] \in Holding PROVE v # w /\ Distance(v)' = Distance(v)
    OBVIOUS
  <2>1. v # w /\ origin[v] \in Origins /\ at[v] \in Requesting
    BY DEF TypeOK, Requesting
  <2> QED
    BY <2>1, DistanceStays
<1>3. Spaced'
  BY <1>2 DEF Spaced, Holding
<1>4. Excused'
  BY DEF Excused, Holding
<1> QED
  BY <1>1, <1>3, <1>4

LEMMA LoadRobotsKeeps ==
  ASSUME IInv, NEW w \in Workers, LoadRobots(w)
  PROVE  IInv'
<1> USE DEF IInv
<1> DEFINE o == origin[w]
<1>1. /\ at[w] = "policy" /\ robots[o] = "unset" /\ loader[o] = NoWorker
      /\ loads' = [loads EXCEPT ![o] = loads[o] + 1]
      /\ UNCHANGED <<origin, retrying, sleep, slot, control, asked, late, excused>>
      /\ o \in Origins
  BY DEF LoadRobots, TypeOK
<1>2. hop[w] = 0
  <2>1. hop[w] \in Nat
    BY DEF TypeOK
  <2>2. at[w] \notin Requesting \cup {"done"}
    BY <1>1 DEF Requesting, Holding
  <2> QED
    BY <2>1, <2>2 DEF CellHeld
<1>3. \A x \in Origins \ {o} : loads'[x] = loads[x]
  BY <1>1 DEF TypeOK
<1>4. loads'[o] = loads[o] + 1 /\ loads' \in [Origins -> Nat]
  BY <1>1 DEF TypeOK
<1>5. cancelled \/ loads'[o] <= 1
  BY <1>1, <1>4 DEF LoadedOnce, TypeOK
<1>6. \A v \in Workers : RespectRobots /\ at[v] \in Requesting /\ hop[v] = 0 => origin[v] # o
  BY <1>1 DEF Permitted
<1>7. CASE RobotsPath[o] = <<>>
  <2>1. PICK answer \in {"rules", "error"} : robots' = [robots EXCEPT ![o] = answer]
    BY <1>7 DEF LoadRobots
  <2>2. UNCHANGED <<at, hop, loader>>
    BY <1>7 DEF LoadRobots
  <2>3. robots'[o] = answer /\ \A x \in Origins \ {o} : robots'[x] = robots[x]
    BY <2>1, <1>1 DEF TypeOK
  <2>4. \A v \in Workers : Dest(v)' = Dest(v)
    BY <1>1, <2>2, SamePlace
  <2>5. TypeOK'
    BY <1>1, <1>4, <2>1, <2>2 DEF TypeOK, retrying, slot, control
  <2>6. SlotHeld' /\ Spaced' /\ Excused'
    BY <1>1, <2>2, <2>3, <2>4, OffSlot DEF slot, control, Holding
  <2>7. CellHeld'
    BY <1>1, <2>2, <2>3 DEF CellHeld
  <2>8. Permitted'
    BY <1>1, <1>6, <2>2, <2>3 DEF Permitted, TypeOK
  <2>9. LoadedOnce'
    BY <1>1, <1>3, <1>5, <2>2, <2>3 DEF LoadedOnce, control
  <2>10. Cooled'
    BY <1>1, <2>2, <2>4 DEF Cooled, slot
  <2> QED
    BY <2>5, <2>6, <2>7, <2>8, <2>9, <2>10
<1>8. CASE RobotsPath[o] # <<>>
  <2>1. /\ loader' = [loader EXCEPT ![o] = w] /\ hop' = [hop EXCEPT ![w] = 1]
        /\ Go(w, "send") /\ UNCHANGED robots
    BY <1>8 DEF LoadRobots
  <2>2. loader'[o] = w /\ \A x \in Origins \ {o} : loader'[x] = loader[x]
    BY <2>1, <1>1 DEF TypeOK
  <2>3. hop'[w] = 1 /\ at'[w] = "send"
    BY <2>1, GoMoves DEF TypeOK
  <2>4. \A v \in Workers \ {w} : /\ at'[v] = at[v] /\ hop'[v] = hop[v] /\ Dest(v)' = Dest(v)
                                 /\ origin'[v] = origin[v]
    <3>1. origin' = [origin EXCEPT ![w] = origin[w]]
      BY <1>1 DEF TypeOK
    <3> QED
      BY <2>1, <3>1, GoMoves, OthersStay
  <2>5. TypeOK'
    <3>1. RobotsPath[o] \in Seq(Origins) /\ Len(RobotsPath[o]) >= 1
      BY <1>1, <1>8, PolicyAssumption
    <3>2. \A v \in Workers : hop'[v] <= Len(RobotsPath[origin'[v]])
      BY <3>1, <2>3, <2>4, <1>1 DEF TypeOK
    <3>3. at' \in [Workers -> {"idle", "page", "policy", "send", "acquire", "slot",
                         "pace", "cool", "nap", "clear", "flight", "backoff", "done"}]
      BY <2>1 DEF Go, TypeOK
    <3> QED
      BY <1>1, <1>4, <2>1, <3>2, <3>3 DEF TypeOK, retrying, slot, control
  <2>6. SlotHeld' /\ Spaced' /\ Excused'
    BY <1>1, <2>1, <2>3, <2>4, OffSlot DEF slot, control, Holding
  <2>7. CellHeld'
    <3>1. \A v \in Workers \ {w} : hop[v] > 0 /\ at[v] # "done" => origin[v] # o
      BY <1>1, PolicyAssumption DEF CellHeld
    <3>2. \A v \in Workers : hop'[v] > 0 =>
            at'[v] \in Requesting \cup {"done"} /\ (at'[v] # "done" => loader'[origin'[v]] = v)
      <4> SUFFICES ASSUME NEW v \in Workers, hop'[v] > 0
                   PROVE  at'[v] \in Requesting \cup {"done"}
                          /\ (at'[v] # "done" => loader'[origin'[v]] = v)
        OBVIOUS
      <4>1. CASE v = w
        BY <4>1, <1>1, <2>2, <2>3 DEF Requesting
      <4>2. CASE v # w
        <5>1. hop[v] > 0 /\ at'[v] = at[v] /\ origin'[v] = origin[v] /\ origin[v] \in Origins
          BY <4>2, <2>4 DEF TypeOK
        <5> QED
          BY <5>1, <4>2, <3>1, <2>2 DEF CellHeld
      <4> QED
        BY <4>1, <4>2
    <3> QED
      BY <3>2, <1>1, <2>1, <2>2 DEF CellHeld
  <2>8. Permitted'
    BY <1>1, <2>1, <2>3, <2>4 DEF Permitted
  <2>9. LoadedOnce'
    <3>1. w # NoWorker
      BY PolicyAssumption
    <3> QED
      BY <3>1, <1>1, <1>3, <1>5, <2>1, <2>2 DEF LoadedOnce, control
  <2>10. Cooled'
    BY <1>1, <2>3, <2>4 DEF Cooled, slot
  <2> QED
    BY <2>5, <2>6, <2>7, <2>8, <2>9, <2>10
<1> QED
  BY <1>7, <1>8

\* A worker that asks for nothing more holds no cell and needs no permission.
LEMMA PageLeft ==
  ASSUME CellHeld, Permitted, NEW w \in Workers, hop'[w] = 0, at'[w] \notin Requesting,
         \A v \in Workers \ {w} : at'[v] = at[v] /\ hop'[v] = hop[v] /\ origin'[v] = origin[v],
         UNCHANGED policy
  PROVE  CellHeld' /\ Permitted'
<1>1. CellHeld'
  BY DEF CellHeld, policy
<1>2. Permitted'
  BY DEF Permitted, policy
<1> QED
  BY <1>1, <1>2

\* The answer to robots.txt fills the cell, which was empty until then.
LEMMA CellFilled ==
  ASSUME IInv, NEW w \in Workers, hop[w] > 0, at[w] = "flight",
         NEW answer \in {"rules", "none", "error"}, SettleRobots(origin[w], answer),
         hop'[w] = 0, at'[w] = "policy", UNCHANGED <<origin, loads, cancelled>>,
         \A v \in Workers \ {w} : at'[v] = at[v] /\ hop'[v] = hop[v]
  PROVE  /\ CellHeld' /\ Permitted' /\ LoadedOnce'
         /\ \A o \in Origins : robots[o] # "unset" => robots'[o] = robots[o]
         /\ robots' \in [Origins -> {"unset", "rules", "none", "error"}]
         /\ loader' \in [Origins -> Workers \cup {NoWorker}]
<1> USE DEF IInv
<1> DEFINE o == origin[w]
<1>1. o \in Origins /\ w # NoWorker
  BY PolicyAssumption DEF TypeOK
<1>2. loader[o] = w /\ robots[o] = "unset"
  BY <1>1 DEF CellHeld
<1>3. /\ robots'[o] = answer /\ \A x \in Origins \ {o} : robots'[x] = robots[x]
      /\ loader'[o] = NoWorker /\ \A x \in Origins \ {o} : loader'[x] = loader[x]
  BY <1>1 DEF SettleRobots, TypeOK
<1>4. CellHeld'
  <2>1. \A v \in Workers \ {w} : hop[v] > 0 /\ at[v] # "done" => origin[v] # o
    BY <1>2 DEF CellHeld
  <2>2. \A v \in Workers : origin[v] \in Origins
    BY DEF TypeOK
  <2> QED
    BY <1>2, <1>3, <2>1, <2>2 DEF CellHeld
<1>5. Permitted'
  <2>1. at'[w] \notin Requesting
    BY DEF Requesting, Holding
  <2>2. \A v \in Workers : RespectRobots /\ at[v] \in Requesting /\ hop[v] = 0 =>
          origin[v] \in Origins \ {o}
    BY <1>2 DEF Permitted, TypeOK
  <2> QED
    BY <1>3, <2>1, <2>2 DEF Permitted
<1>6. LoadedOnce'
  <2> SUFFICES ASSUME ~cancelled, NEW x \in Origins
               PROVE  loads[x] <= IF robots'[x] = "unset" /\ loader'[x] = NoWorker THEN 0 ELSE 1
    BY DEF LoadedOnce
  <2>1. loads[x] <= IF robots[x] = "unset" /\ loader[x] = NoWorker THEN 0 ELSE 1
    BY DEF LoadedOnce
  <2> QED
    BY <1>1, <1>2, <1>3, <2>1
<1>7. robots' \in [Origins -> {"unset", "rules", "none", "error"}]
      /\ loader' \in [Origins -> Workers \cup {NoWorker}]
  BY DEF SettleRobots, TypeOK
<1> QED
  BY <1>2, <1>3, <1>4, <1>5, <1>6, <1>7

LEMMA FailKeeps ==
  ASSUME IInv, NEW w \in Workers, Fail(w)
  PROVE  IInv'
<1> USE DEF IInv
<1>1. /\ at[w] = "flight" /\ (Retry(w) \/ GiveUp(w))
      /\ UNCHANGED <<origin, holder, since, control, late, loads, excused>>
  BY DEF Fail
<1>2. /\ cooldown' \in [Origins -> 0..Indefinite] /\ asked' \in [Origins -> 0..Indefinite]
      /\ \A o \in Origins : asked'[o] <= cooldown'[o] /\ asked[o] <= asked'[o]
  <2>1. CASE UNCHANGED <<cooldown, asked>>
    BY <2>1, PolicyAssumption DEF TypeOK, Cooled, Indefinite
  <2>2. CASE \E delay \in 1..Indefinite : ObserveRetryAfter(Dest(w), delay)
    <3>1. PICK delay \in 1..Indefinite : ObserveRetryAfter(Dest(w), delay)
      BY <2>2
    <3>2. Indefinite \in Nat /\ Dest(w) \in Origins
      BY Destinations, PolicyAssumption DEF Indefinite
    <3>3. \A o \in Origins : asked[o] \in 0..Indefinite /\ cooldown[o] \in 0..Indefinite
                             /\ asked[o] <= cooldown[o]
      BY DEF TypeOK, Cooled
    <3>4. /\ Later(cooldown[Dest(w)], delay) \in 0..Indefinite
          /\ Later(asked[Dest(w)], delay) \in 0..Indefinite
          /\ Later(asked[Dest(w)], delay) <= Later(cooldown[Dest(w)], delay)
          /\ asked[Dest(w)] <= Later(asked[Dest(w)], delay)
      BY <3>2, <3>3 DEF Later
    <3>5. /\ cooldown' = [cooldown EXCEPT ![Dest(w)] = Later(cooldown[Dest(w)], delay)]
          /\ asked' = [asked EXCEPT ![Dest(w)] = Later(asked[Dest(w)], delay)]
      BY <3>1, <3>2 DEF ObserveRetryAfter, TypeOK
    <3>6. /\ cooldown' \in [Origins -> 0..Indefinite] /\ asked' \in [Origins -> 0..Indefinite]
          /\ cooldown'[Dest(w)] = Later(cooldown[Dest(w)], delay)
          /\ asked'[Dest(w)] = Later(asked[Dest(w)], delay)
          /\ \A o \in Origins \ {Dest(w)} : cooldown'[o] = cooldown[o] /\ asked'[o] = asked[o]
      BY <3>2, <3>4, <3>5 DEF TypeOK
    <3>7. \A o \in Origins : asked[o] <= asked[o]
      BY <3>2, <3>3
    <3> QED
      BY <3>3, <3>4, <3>6, <3>7
  <2> QED
    BY <2>1, <2>2 DEF Fail
<1>3. /\ hop' = [hop EXCEPT ![w] = hop'[w]] /\ hop'[w] \in {0, hop[w]}
      /\ Go(w, at'[w]) /\ at'[w] \in {"backoff", "done", "policy"}
      /\ attempt' \in [Workers -> 0..RetryAttempts] /\ challenged' \in [Workers -> BOOLEAN]
      /\ redirects' = redirects
      /\ sleep' \in [Workers -> Nat] /\ \A v \in Workers \ {w} : sleep'[v] = sleep[v]
  <2>1. CASE Retry(w)
    <3>1. /\ Go(w, "backoff") /\ sleep' = [sleep EXCEPT ![w] = Backoff]
          /\ attempt' = [attempt EXCEPT ![w] = attempt[w] + 1] /\ attempt[w] < RetryAttempts
          /\ UNCHANGED <<hop, redirects, challenged, policy>>
      BY <2>1 DEF Retry, TypeOK
    <3>2. at'[w] = "backoff"
      BY <3>1, GoMoves
    <3>3. attempt' \in [Workers -> 0..RetryAttempts]
      <4>1. attempt[w] \in 0..RetryAttempts
        BY DEF TypeOK
      <4>2. attempt[w] + 1 \in 0..RetryAttempts
        BY <3>1, <4>1, PolicyAssumption
      <4> QED
        BY <3>1, <4>2 DEF TypeOK
    <3>4. sleep' \in [Workers -> Nat] /\ \A v \in Workers \ {w} : sleep'[v] = sleep[v]
      BY <3>1, PolicyAssumption DEF TypeOK
    <3>5. hop' = [hop EXCEPT ![w] = hop'[w]] /\ challenged' \in [Workers -> BOOLEAN]
      BY <3>1 DEF TypeOK
    <3> QED
      BY <3>1, <3>2, <3>3, <3>4, <3>5
  <2>2. CASE GiveUp(w)
    <3>1. 0 \in 0..RetryAttempts
      BY PolicyAssumption
    <3> QED
      BY <2>2, <3>1 DEF GiveUp, Go, TypeOK, retrying
  <2> QED
    BY <1>1, <2>1, <2>2
<1>4. \A v \in Workers \ {w} : /\ at'[v] = at[v] /\ hop'[v] = hop[v] /\ Dest(v)' = Dest(v)
                               /\ origin'[v] = origin[v]
  <2>1. origin' = [origin EXCEPT ![w] = origin[w]]
    BY <1>1 DEF TypeOK
  <2>2. \A v \in Workers \ {w} : at'[v] = at[v]
    BY <1>3, GoMoves
  <2>3. \A v \in Workers \ {w} : hop'[v] = hop[v] /\ origin'[v] = origin[v] /\ Dest(v)' = Dest(v)
    <3> DEFINE h == hop'[w]
    <3>1. hop' = [hop EXCEPT ![w] = h]
      BY <1>3
    <3> HIDE DEF h
    <3> QED
      BY <3>1, <2>1, OthersStay
  <2> QED
    BY <2>2, <2>3
<1>5. /\ CellHeld' /\ Permitted' /\ LoadedOnce'
      /\ \A o \in Origins : robots[o] # "unset" => robots'[o] = robots[o]
      /\ robots' \in [Origins -> {"unset", "rules", "none", "error"}]
      /\ loader' \in [Origins -> Workers \cup {NoWorker}]
  <2>1. CASE Retry(w)
    <3>1. UNCHANGED <<hop, policy>> /\ at'[w] = "backoff"
      BY <2>1, GoMoves DEF Retry
    <3>2. CellHeld' /\ Permitted'
      <4>1. at[w] \in Requesting /\ at'[w] \in Requesting
        BY <1>1, <3>1 DEF Requesting
      <4>2. UNCHANGED <<origin, hop, policy>> /\ \A v \in Workers \ {w} : at'[v] = at[v]
        BY <1>1, <1>4, <3>1
      <4> QED
        BY <4>1, <4>2, SameRequest
    <3> QED
      BY <1>1, <3>1, <3>2 DEF policy, control, LoadedOnce, TypeOK
  <2>2. CASE GiveUp(w) /\ hop[w] = 0
    <3>1. UNCHANGED <<hop, policy>> /\ at'[w] = "done"
      BY <2>2, GoMoves DEF GiveUp
    <3>2. CellHeld' /\ Permitted'
      BY <1>4, <2>2, <3>1, PageLeft DEF Requesting, Holding
    <3> QED
      BY <1>1, <3>1, <3>2 DEF policy, control, LoadedOnce, TypeOK
  <2>3. CASE GiveUp(w) /\ hop[w] # 0
    <3>1. PICK answer \in {"none", "error"} : SettleRobots(origin[w], answer)
      BY <2>3 DEF GiveUp
    <3>2. at'[w] = "policy" /\ hop'[w] = 0 /\ hop[w] > 0
      BY <2>3, GoMoves, SMTT(30) DEF GiveUp, TypeOK
    <3>3. UNCHANGED <<origin, loads, cancelled>>
          /\ \A v \in Workers \ {w} : at'[v] = at[v] /\ hop'[v] = hop[v]
      BY <1>1, <1>4 DEF control
    <3>4. answer \in {"rules", "none", "error"}
      OBVIOUS
    <3> QED
      BY <1>1, <3>1, <3>2, <3>3, <3>4, CellFilled
  <2> QED
    BY <1>1, <2>1, <2>2, <2>3
<1>6. TypeOK'
  <2>1. \A v \in Workers : hop'[v] <= Len(RobotsPath[origin'[v]])
    <3>1. \A v \in Workers : Len(RobotsPath[origin[v]]) \in Nat /\ hop[v] <= Len(RobotsPath[origin[v]])
      BY PolicyAssumption DEF TypeOK
    <3>2. \A v \in Workers : hop'[v] \in {0, hop[v]}
      BY <1>3, <1>4
    <3> QED
      BY <3>1, <3>2, <1>1
  <2>2. at' \in [Workers -> {"idle", "page", "policy", "send", "acquire", "slot",
                         "pace", "cool", "nap", "clear", "flight", "backoff", "done"}]
    BY <1>3 DEF Go, TypeOK
  <2>3. hop' \in [Workers -> Nat]
    <3>1. hop'[w] \in Nat
      BY <1>3 DEF TypeOK
    <3> QED
      BY <1>3, <3>1 DEF TypeOK
  <2> QED
    BY <1>1, <1>2, <1>3, <1>5, <2>1, <2>2, <2>3 DEF TypeOK, control
<1>7. SlotHeld' /\ Spaced' /\ Excused'
  BY <1>1, <1>3, <1>4, <1>5, OffSlot DEF control, Holding
<1>8. Cooled'
  <2>1. \A o \in Origins : asked[o] \in Nat /\ asked'[o] \in Nat
    BY <1>2, PolicyAssumption DEF TypeOK, Indefinite
  <2> QED
    BY <2>1, <1>1, <1>2, <1>3, <1>4 DEF Cooled
<1> QED
  BY <1>5, <1>6, <1>7, <1>8

LEMMA SucceedKeeps ==
  ASSUME IInv, NEW w \in Workers, Succeed(w)
  PROVE  IInv'
<1> USE DEF IInv
<1>1. /\ at[w] = "flight" /\ UNCHANGED <<sleep, slot, control, past>>
      /\ attempt' \in [Workers -> 0..RetryAttempts] /\ challenged' \in [Workers -> BOOLEAN]
  BY PolicyAssumption DEF Succeed, TypeOK
<1>2. at[w] \in Requesting \ Holding
  BY <1>1 DEF Requesting, Holding
<1>3. ASSUME NEW h \in Nat, NEW o \in Origins, NEW p,
             hop' = [hop EXCEPT ![w] = h], origin' = [origin EXCEPT ![w] = o],
             h <= Len(RobotsPath[o]), Go(w, p), p \in {"send", "policy", "done", "page"},
             redirects' \in [Workers -> 0..MaxRedirects],
             CellHeld', Permitted', LoadedOnce',
             \A x \in Origins : robots[x] # "unset" => robots'[x] = robots[x],
             robots' \in [Origins -> {"unset", "rules", "none", "error"}],
             loader' \in [Origins -> Workers \cup {NoWorker}]
      PROVE  IInv'
  <2>1. at'[w] = p /\ \A v \in Workers \ {w} : at'[v] = at[v]
    BY <1>3, GoMoves
  <2>2. \A v \in Workers \ {w} : hop'[v] = hop[v] /\ origin'[v] = origin[v] /\ Dest(v)' = Dest(v)
    BY <1>3, OthersStay
  <2>3. TypeOK'
    <3>1. \A v \in Workers : hop'[v] <= Len(RobotsPath[origin'[v]])
      BY <1>3, <2>2 DEF TypeOK
    <3>2. at' \in [Workers -> {"idle", "page", "policy", "send", "acquire", "slot",
                         "pace", "cool", "nap", "clear", "flight", "backoff", "done"}]
      BY <1>3 DEF Go, TypeOK
    <3>3. hop' \in [Workers -> Nat] /\ origin' \in [Workers -> Origins]
      BY <1>3 DEF TypeOK
    <3> QED
      BY <1>1, <1>3, <3>1, <3>2, <3>3 DEF TypeOK, slot, control, past
  <2>4. SlotHeld' /\ Spaced' /\ Excused'
    BY <1>1, <1>3, <2>1, <2>2, OffSlot DEF slot, control, past, Holding
  <2>5. Cooled'
    <3>1. \A v \in Workers : at'[v] = "clear" => at[v] = "clear" /\ Dest(v)' = Dest(v)
      BY <1>3, <2>1, <2>2
    <3> QED
      BY <1>1, <3>1 DEF Cooled, slot, past
  <2> QED
    BY <1>3, <2>3, <2>4, <2>5
<1>4. /\ origin[w] \in Origins /\ hop[w] \in Nat
      /\ hop = [hop EXCEPT ![w] = hop[w]] /\ origin = [origin EXCEPT ![w] = origin[w]]
  BY DEF TypeOK
<1>5. RobotsPath[origin[w]] \in Seq(Origins) /\ Len(RobotsPath[origin[w]]) \in Nat
  BY <1>4, PolicyAssumption
<1>6. UNCHANGED policy => /\ LoadedOnce'
                          /\ \A x \in Origins : robots[x] # "unset" => robots'[x] = robots[x]
                          /\ robots' \in [Origins -> {"unset", "rules", "none", "error"}]
                          /\ loader' \in [Origins -> Workers \cup {NoWorker}]
  BY <1>1 DEF LoadedOnce, policy, control, past, TypeOK
<1>7. CASE /\ hop[w] > 0 /\ hop[w] < Len(RobotsPath[origin[w]])
           /\ hop' = [hop EXCEPT ![w] = hop[w] + 1] /\ Go(w, "send")
           /\ UNCHANGED <<origin, redirects, policy>>
  <2>1. hop[w] + 1 \in Nat /\ hop[w] + 1 <= Len(RobotsPath[origin[w]])
    BY <1>4, <1>5, <1>7
  <2>2. /\ at'[w] = "send" /\ hop'[w] = hop[w] + 1 /\ origin'[w] = origin[w]
        /\ \A v \in Workers \ {w} : at'[v] = at[v] /\ hop'[v] = hop[v] /\ origin'[v] = origin[v]
    BY <1>7, GoMoves DEF TypeOK
  <2>3. CellHeld'
    BY <1>1, <1>4, <1>7, <2>2 DEF CellHeld, policy, Requesting
  <2>4. Permitted'
    BY <1>4, <1>7, <2>2 DEF Permitted, policy
  <2> QED
    BY <1>3, <1>4, <1>6, <1>7, <2>1, <2>3, <2>4 DEF TypeOK
<1>8. CASE /\ hop[w] > 0 /\ hop' = [hop EXCEPT ![w] = 0] /\ Go(w, "policy")
           /\ \E answer \in {"rules", "none", "error"} : SettleRobots(origin[w], answer)
           /\ UNCHANGED <<origin, redirects>>
  <2>1. PICK answer \in {"rules", "none", "error"} : SettleRobots(origin[w], answer)
    BY <1>8
  <2>2. /\ at'[w] = "policy" /\ hop'[w] = 0
        /\ \A v \in Workers \ {w} : at'[v] = at[v] /\ hop'[v] = hop[v]
    BY <1>8, GoMoves DEF TypeOK
  <2>3. UNCHANGED <<origin, loads, cancelled>>
    BY <1>1, <1>8 DEF past, control
  <2>4. /\ CellHeld' /\ Permitted' /\ LoadedOnce'
        /\ \A o \in Origins : robots[o] # "unset" => robots'[o] = robots[o]
        /\ robots' \in [Origins -> {"unset", "rules", "none", "error"}]
        /\ loader' \in [Origins -> Workers \cup {NoWorker}]
    BY <1>1, <1>8, <2>1, <2>2, <2>3, CellFilled
  <2>5. 0 \in Nat /\ 0 <= Len(RobotsPath[origin[w]])
    BY <1>5
  <2> QED
    BY <1>3, <1>4, <1>8, <2>4, <2>5 DEF TypeOK
<1>9. ASSUME NEW o \in Origins, NEW p \in {"done", "page"}, hop[w] = 0, UNCHANGED <<hop, policy>>,
             origin' = [origin EXCEPT ![w] = o], Go(w, p),
             redirects' \in [Workers -> 0..MaxRedirects]
      PROVE  IInv'
  <2>1. /\ at'[w] = p /\ hop'[w] = 0
        /\ \A v \in Workers \ {w} : at'[v] = at[v] /\ hop'[v] = hop[v] /\ origin'[v] = origin[v]
    BY <1>9, GoMoves DEF TypeOK
  <2>2. p \notin Requesting
    BY <1>9 DEF Requesting, Holding
  <2>3. CellHeld' /\ Permitted'
    BY <1>9, <2>1, <2>2, PageLeft
  <2>4. 0 \in Nat /\ 0 <= Len(RobotsPath[o]) /\ hop' = [hop EXCEPT ![w] = 0]
    BY <1>4, <1>9, PolicyAssumption
  <2> QED
    BY <1>3, <1>6, <1>9, <2>3, <2>4
<1>10. CASE hop[w] = 0 /\ Go(w, "done") /\ UNCHANGED <<origin, hop, redirects, policy>>
  BY <1>4, <1>9, <1>10 DEF TypeOK
<1>11. CASE /\ hop[w] = 0 /\ redirects[w] < MaxRedirects
            /\ \E o \in Origins : origin' = [origin EXCEPT ![w] = o]
            /\ redirects' = [redirects EXCEPT ![w] = redirects[w] + 1]
            /\ Go(w, "page") /\ UNCHANGED <<hop, policy>>
  <2>1. PICK o \in Origins : origin' = [origin EXCEPT ![w] = o]
    BY <1>11
  <2>2. redirects' \in [Workers -> 0..MaxRedirects]
    <3>1. redirects[w] + 1 \in 0..MaxRedirects
      <4>1. redirects[w] \in 0..MaxRedirects
        BY DEF TypeOK
      <4> QED
        BY <4>1, <1>11, PolicyAssumption
    <3> QED
      BY <1>11, <3>1 DEF TypeOK
  <2> QED
    BY <1>9, <1>11, <2>1, <2>2
<1> QED
  BY <1>7, <1>8, <1>10, <1>11 DEF Succeed

LEMMA ObserveStopKeeps ==
  ASSUME IInv, NEW w \in Workers, ObserveStop(w)
  PROVE  IInv'
<1> USE DEF IInv
<1>1. /\ cancelled /\ Go(w, "done") /\ Release(w)
      /\ loader' = [o \in Origins |-> IF loader[o] = w THEN NoWorker ELSE loader[o]]
      /\ UNCHANGED <<origin, hop, retrying, sleep, since, cooldown, control, past>>
  BY DEF ObserveStop
<1>2. /\ robots' \in [Origins -> {"unset", "rules", "none", "error"}]
      /\ \A o \in Origins : loader[o] # w => robots'[o] = robots[o]
      /\ \A o \in Origins : robots[o] # "unset" => robots'[o] = robots[o]
  <2>1. CASE UNCHANGED robots
    BY <2>1 DEF TypeOK
  <2>2. CASE loader[origin[w]] = w /\ robots' = [robots EXCEPT ![origin[w]] = "error"]
    <3>1. origin[w] \in Origins /\ w # NoWorker
      BY PolicyAssumption DEF TypeOK
    <3>2. robots[origin[w]] = "unset"
      BY <2>2, <3>1 DEF CellHeld
    <3> QED
      BY <2>2, <3>1, <3>2 DEF TypeOK
  <2> QED
    BY <2>1, <2>2 DEF ObserveStop
<1>3. at'[w] = "done" /\ \A v \in Workers \ {w} : at'[v] = at[v]
  BY <1>1, GoMoves
<1>4. \A v \in Workers : Dest(v)' = Dest(v) /\ Dest(v) \in Origins
  BY <1>1, SamePlace, Destinations
<1>5. \A v \in Workers \ {w} : holder[Dest(v)] = v => holder'[Dest(v)] = v
  BY <1>1, <1>4 DEF Release
<1>6. TypeOK'
  <2>1. holder' \in [Origins -> Workers \cup {NoWorker}] /\ loader' \in [Origins -> Workers \cup {NoWorker}]
    BY <1>1 DEF Release, TypeOK
  <2>2. at' \in [Workers -> {"idle", "page", "policy", "send", "acquire", "slot",
                         "pace", "cool", "nap", "clear", "flight", "backoff", "done"}]
    BY <1>1 DEF Go, TypeOK
  <2> QED
    BY <1>1, <1>2, <2>1, <2>2 DEF TypeOK, retrying, control, past
<1>7. SlotHeld' /\ Spaced' /\ Excused'
  BY <1>1, <1>2, <1>3, <1>4, <1>5, OffSlot DEF control, past, Holding
<1>8. CellHeld'
  <2>1. \A v \in Workers : hop[v] > 0 =>
          at'[v] \in Requesting \cup {"done"} /\ (at'[v] # "done" => loader'[origin[v]] = v)
    BY <1>1, <1>3 DEF CellHeld, TypeOK
  <2>2. \A o \in Origins : loader'[o] # NoWorker => loader[o] # w /\ loader[o] # NoWorker
    BY <1>1
  <2> QED
    BY <1>1, <1>2, <2>1, <2>2 DEF CellHeld
<1>9. Permitted'
  <2>1. \A v \in Workers : at'[v] \in Requesting => at[v] \in Requesting /\ origin[v] \in Origins
    BY <1>3 DEF Requesting, Holding, TypeOK
  <2> QED
    BY <1>1, <1>2, <2>1 DEF Permitted
<1>10. LoadedOnce'
  BY <1>1 DEF LoadedOnce, control
<1>11. Cooled'
  BY <1>1, <1>3, <1>4 DEF Cooled, past
<1> QED
  BY <1>6, <1>7, <1>8, <1>9, <1>10, <1>11

-----------------------------------------------------------------------------
(* Steps of the user and of the clock.                                     *)

LEMMA ControlKeeps ==
  ASSUME IInv, Pause \/ Resume \/ Stop
  PROVE  IInv'
<1> USE DEF IInv
<1>1. /\ UNCHANGED <<place, retrying, sleep, slot, policy, asked, late, loads>>
      /\ paused' \in BOOLEAN /\ cancelled' \in BOOLEAN /\ excused' \in SUBSET Workers
      /\ cancelled => cancelled'
  BY DEF Pause, Resume, Stop, past, TypeOK
<1>2. \A v \in Workers : Dest(v)' = Dest(v)
  BY <1>1, SamePlace DEF place
<1>3. \A v \in Workers : Distance(v)' = Distance(v)
  BY <1>1, <1>2 DEF Distance, place, policy
<1>4. TypeOK'
  BY <1>1 DEF TypeOK, place, retrying, slot, policy
<1>5. SlotHeld' /\ CellHeld' /\ Permitted'
  BY <1>1, <1>2 DEF SlotHeld, CellHeld, Permitted, place, slot, policy
<1>6. LoadedOnce'
  BY <1>1 DEF LoadedOnce, policy
<1>7. Spaced' /\ Cooled'
  BY <1>1, <1>2, <1>3 DEF Spaced, Cooled, place, slot
<1>8. Excused'
  BY <1>1 DEF Excused, Pause, Resume, Stop, place, past
<1> QED
  BY <1>4, <1>5, <1>6, <1>7, <1>8

LEMMA DownIsMonotone ==
  ASSUME NEW s \in 0..Indefinite, NEW t \in 0..Indefinite, s <= t
  PROVE  Down(s) \in 0..Indefinite /\ Down(s) <= Down(t)
BY PolicyAssumption DEF Down, Indefinite

LEMMA TickKeeps ==
  ASSUME IInv, Tick
  PROVE  IInv'
<1> USE DEF IInv
<1>1. /\ since' = [o \in Origins |-> Sooner(since[o] + 1, PageDelay(o))]
      /\ cooldown' = [o \in Origins |-> Down(cooldown[o])]
      /\ asked' = [o \in Origins |-> Down(asked[o])]
      /\ late' = [o \in Origins |-> IF asked'[o] = 0 THEN 0 ELSE late[o]]
      /\ sleep' = [w \in Workers |-> IF at[w] \in {"pace", "nap", "backoff"}
                                     THEN Later(0, sleep[w] - 1) ELSE sleep[w]]
      /\ UNCHANGED <<place, retrying, holder, policy, control, loads, excused>>
  BY DEF Tick
<1>2. \A v \in Workers : Dest(v)' = Dest(v) /\ Dest(v) \in Origins
  BY <1>1, SamePlace, Destinations DEF place
<1>3. \A v \in Workers : Distance(v)' = Distance(v)
  BY <1>1, <1>2 DEF Distance, place, policy
<1>4. \A o \in Origins : PageDelay(o) \in Nat
  BY PolicyAssumption DEF PageDelay, Later
<1>5. \A o \in Origins : /\ cooldown'[o] \in 0..Indefinite /\ asked'[o] \in 0..Indefinite
                         /\ asked'[o] <= cooldown'[o]
  <2> SUFFICES ASSUME NEW o \in Origins
               PROVE  /\ Down(cooldown[o]) \in 0..Indefinite /\ Down(asked[o]) \in 0..Indefinite
                      /\ Down(asked[o]) <= Down(cooldown[o])
    BY <1>1
  <2>1. cooldown[o] \in 0..Indefinite /\ asked[o] \in 0..Indefinite /\ asked[o] <= cooldown[o]
    BY DEF TypeOK, Cooled
  <2>2. cooldown[o] <= cooldown[o]
    BY <2>1, PolicyAssumption DEF Indefinite
  <2> QED
    BY <2>1, <2>2, DownIsMonotone
<1>6. TypeOK'
  <2>1. since' \in [Origins -> Nat]
    BY <1>1, <1>4 DEF Sooner, TypeOK
  <2>2. sleep' \in [Workers -> Nat]
    BY <1>1 DEF Later, TypeOK
  <2>3. cooldown' \in [Origins -> 0..Indefinite] /\ asked' \in [Origins -> 0..Indefinite]
    BY <1>1, <1>5
  <2>4. late' \in [Origins -> Nat]
    BY <1>1 DEF TypeOK
  <2> QED
    BY <1>1, <2>1, <2>2, <2>3, <2>4 DEF TypeOK, place, retrying, policy, control
<1>7. SlotHeld' /\ CellHeld' /\ Permitted'
  BY <1>1, <1>2 DEF SlotHeld, CellHeld, Permitted, place, policy
<1>8. LoadedOnce'
  BY <1>1 DEF LoadedOnce, policy, control
<1>9. Spaced'
  <2> SUFFICES ASSUME NEW v \in Workers
               PROVE  /\ at[v] = "slot" => sleep'[v] >= Distance(v)
                      /\ at[v] = "pace" => since'[Dest(v)] + sleep'[v] >= Distance(v)
                      /\ at[v] \in {"cool", "nap", "clear"} => since'[Dest(v)] >= Distance(v)
    BY <1>1, <1>2, <1>3 DEF Spaced, place
  <2>1. /\ since[Dest(v)] \in Nat /\ sleep[v] \in Nat /\ Distance(v) \in Nat
        /\ PageDelay(Dest(v)) \in Nat /\ Distance(v) <= PageDelay(Dest(v))
    BY Measures
  <2>2. since'[Dest(v)] = Sooner(since[Dest(v)] + 1, PageDelay(Dest(v)))
    BY <1>1, <1>2
  <2>3. CASE at[v] = "slot"
    BY <2>3, <1>1 DEF Spaced
  <2>4. CASE at[v] = "pace"
    <3>1. sleep'[v] = Later(0, sleep[v] - 1) /\ since[Dest(v)] + sleep[v] >= Distance(v)
      BY <2>4, <1>1 DEF Spaced
    <3> QED
      BY <2>1, <2>2, <2>4, <3>1 DEF Sooner, Later
  <2>5. CASE at[v] \in {"cool", "nap", "clear"}
    BY <2>1, <2>2, <2>5 DEF Spaced, Sooner
  <2> QED
    BY <2>3, <2>4, <2>5
<1>10. Cooled'
  <2> SUFFICES ASSUME NEW o \in Origins
               PROVE  /\ asked'[o] <= cooldown'[o] /\ late'[o] <= 1
                      /\ asked'[o] = 0 => late'[o] = 0
                      /\ late'[o] = 1 => \A w \in Workers : at[w] = "clear" => Dest(w) # o
    BY <1>1, <1>2 DEF Cooled, place
  <2>1. late'[o] = IF asked'[o] = 0 THEN 0 ELSE late[o]
    BY <1>1
  <2> QED
    BY <2>1, <1>5 DEF Cooled
<1>11. Excused'
  BY <1>1 DEF Excused, place, control
<1> QED
  BY <1>6, <1>7, <1>8, <1>9, <1>10, <1>11

-----------------------------------------------------------------------------
LEMMA FetchKeeps ==
  ASSUME IInv, NEW w \in Workers, Begin(w) \/ Fetch(w)
  PROVE  IInv'
BY WalkKeeps, LoadRobotsKeeps, AcquireKeeps, StartPacingKeeps, CheckCooldownKeeps, StartKeeps,
   FailKeeps, SucceedKeeps, ObserveStopKeeps DEF Fetch, Walk

LEMMA NextKeeps == IInv /\ [Next]_vars => IInv'
<1> SUFFICES ASSUME IInv, [Next]_vars PROVE IInv'
  OBVIOUS
<1>1. CASE UNCHANGED vars
  BY <1>1 DEF vars, place, retrying, slot, policy, control, past, IInv, TypeOK, SlotHeld, CellHeld,
              Permitted, LoadedOnce, Spaced, Cooled, Excused, Distance, Dest
<1>2. CASE Next
  BY <1>2, FetchKeeps, ControlKeeps, TickKeeps DEF Next
<1> QED
  BY <1>1, <1>2

LEMMA InvariantHolds == Spec => []IInv
BY InitHolds, NextKeeps, PTL DEF Spec

\* A request starts in Start alone, where its worker had passed its last check.
LEMMA StartsAreStart ==
  ASSUME TypeOK, Next, NEW w \in Workers, Starts(w)
  PROVE  Start(w)
<1>1. CASE Pause \/ Resume \/ Stop \/ Tick
  BY <1>1 DEF Pause, Resume, Stop, Tick, place, Starts
<1>2. ASSUME NEW v \in Workers, Begin(v) \/ Fetch(v)
      PROVE  \/ Start(v) \/ UNCHANGED at
             \/ \E p \in {"page", "policy", "send", "done", "acquire", "slot", "pace", "cool",
                          "clear", "nap", "backoff"} : Go(v, p)
  BY <1>2 DEF Begin, Fetch, EnterPage, LoadRobots, ObeyRobots, EnterSend, Acquire, StartPacing,
              EndPacing, CheckCooldown, EndNap, Challenge, Fail, Retry, GiveUp, EndBackoff, Succeed,
              ObserveStop
<1>3. ASSUME NEW v \in Workers, Begin(v) \/ Fetch(v)
      PROVE  Start(w)
  <2>1. CASE Start(v)
    <3>1. Go(v, "flight")
      BY <2>1 DEF Start
    <3>2. v = w
      BY <3>1, GoMoves DEF Starts
    <3> QED
      BY <2>1, <3>2
  <2>2. CASE \E p \in {"page", "policy", "send", "done", "acquire", "slot", "pace", "cool",
                       "clear", "nap", "backoff"} : Go(v, p)
    BY <2>2, GoMoves DEF Starts
  <2> QED
    BY <1>2, <1>3, <2>1, <2>2 DEF Starts
<1> QED
  BY <1>1, <1>3 DEF Next

-----------------------------------------------------------------------------
\* Every variable keeps its type.
THEOREM TypeCorrect == Spec => []TypeOK
<1>1. IInv => TypeOK
  BY DEF IInv
<1> QED
  BY <1>1, InvariantHolds, PTL

\* However many workers share an origin, and in whatever order answers ask for
\* delays, at most the one request past its last check starts during a cooldown.
THEOREM CooldownsBind == Spec => []CooldownBinds
<1>1. IInv => CooldownBinds
  BY DEF IInv, Cooled, CooldownBinds
<1> QED
  BY <1>1, InvariantHolds, PTL

\* Requests to one origin keep the distance that is asked for, whoever sends them.
THEOREM RequestsKeepDistance == Spec => Paced
<1>1. IInv /\ [Next]_vars =>
        [\A w \in Workers : Starts(w) =>
           since[Dest(w)] >= IF hop[w] = 0 /\ RespectRobots /\ robots[origin[w]] = "rules"
                             THEN PageDelay(Dest(w)) ELSE RequestDelay]_vars
  <2> SUFFICES ASSUME IInv, Next, NEW w \in Workers, Starts(w)
               PROVE  since[Dest(w)] >= Distance(w)
    BY DEF Distance
  <2>1. at[w] = "clear"
    BY StartsAreStart DEF IInv, Start
  <2> QED
    BY <2>1 DEF IInv, Spaced
<1> QED
  BY <1>1, InvariantHolds, PTL DEF Spec, Paced

\* During a pause only requests start that had passed their last check when it
\* began, one per origin.
THEOREM PausesBind == Spec => PauseBinds
<1>1. IInv /\ [Next]_vars =>
        [\A w \in Workers : Starts(w) /\ paused =>
           /\ w \in excused
           /\ \A v \in excused \ {w} : at[v] = "clear" => Dest(v) # Dest(w)]_vars
  <2> SUFFICES ASSUME IInv, Next, NEW w \in Workers, Starts(w), paused
               PROVE  /\ w \in excused
                      /\ \A v \in excused \ {w} : at[v] = "clear" => Dest(v) # Dest(w)
    OBVIOUS
  <2>1. at[w] = "clear"
    BY StartsAreStart DEF IInv, Start
  <2>2. w \in excused
    BY <2>1 DEF IInv, Excused
  <2>3. ASSUME NEW v \in excused \ {w}, at[v] = "clear"
        PROVE  Dest(v) # Dest(w)
    <3>1. v \in Workers
      BY DEF IInv, TypeOK
    <3> QED
      BY <2>1, <2>3, <3>1 DEF IInv, SlotHeld, Holding
  <2> QED
    BY <2>2, <2>3
<1> QED
  BY <1>1, InvariantHolds, PTL DEF Spec, PauseBinds

\* No page is requested before the robots.txt of its origin is known to have
\* rules or to be missing, and none is loaded twice.
THEOREM RobotsComeFirst == Spec => RobotsFirst
<1>1. IInv /\ IInv' /\ [Next]_vars =>
        [/\ \A w \in Workers : Starts(w) /\ hop[w] = 0 /\ RespectRobots =>
               robots[origin[w]] \in {"rules", "none"}
         /\ cancelled \/ \A o \in Origins : loads'[o] <= 1]_vars
  <2> SUFFICES ASSUME IInv, IInv', Next
               PROVE  /\ \A w \in Workers : Starts(w) /\ hop[w] = 0 /\ RespectRobots =>
                           robots[origin[w]] \in {"rules", "none"}
                      /\ cancelled \/ \A o \in Origins : loads'[o] <= 1
    OBVIOUS
  <2>1. ASSUME NEW w \in Workers, Starts(w), hop[w] = 0, RespectRobots
        PROVE  robots[origin[w]] \in {"rules", "none"}
    <3>1. at[w] \in Requesting
      BY <2>1, StartsAreStart DEF IInv, Start, Requesting, Holding
    <3> QED
      BY <2>1, <3>1 DEF IInv, Permitted
  <2>2. UNCHANGED cancelled \/ UNCHANGED loads
    BY DEF Next, Begin, Fetch, EnterPage, LoadRobots, ObeyRobots, EnterSend, Acquire, StartPacing,
           EndPacing, CheckCooldown, EndNap, Start, Challenge, Fail, EndBackoff, Succeed,
           ObserveStop, Pause, Resume, Stop, Tick, control, past
  <2>3. ASSUME ~cancelled, NEW o \in Origins
        PROVE  loads'[o] <= 1
    <3>1. loads[o] \in Nat /\ loads'[o] \in Nat
      BY DEF IInv, TypeOK
    <3> QED
      BY <2>2, <2>3, <3>1 DEF IInv, LoadedOnce
  <2> QED
    BY <2>1, <2>3
<1> QED
  BY <1>1, InvariantHolds, PTL DEF Spec, RobotsFirst
=============================================================================
