---------------------------- MODULE RequestPolicy ----------------------------
(***************************************************************************)
(* How the workers of a crawl share the origins they fetch from (struct    *)
(* RequestPolicy of crates/crawler-core): one request slot per origin, a   *)
(* delay between requests, the longest Retry-After deadline any response   *)
(* asked for, one robots.txt per origin and run, retries, one answer to a  *)
(* Digest challenge, and Pause and Stop at any moment.                     *)
(*                                                                         *)
(* Time is discrete: every timer counts down (or, for the time since the   *)
(* last request, up to a ceiling) when it ticks, and a worker may be late  *)
(* for any of its timers.  The robots.txt of an origin is reached through  *)
(* a path of origins, one request each; whether its rules allow the page   *)
(* of a worker is left open.                                               *)
(***************************************************************************)
EXTENDS Integers, FiniteSets, Sequences

CONSTANTS
  Workers, Origins,
  RobotsPath,      \* RobotsPath[o]: where redirects of the robots.txt of o lead
  RespectRobots,   \* BOOLEAN
  Credentials,     \* BOOLEAN: a Digest challenge can be answered
  RequestDelay,    \* ticks between two requests to one origin
  CrawlDelay,      \* CrawlDelay[o]: the same as asked for by robots.txt
  RateWait,        \* longest wait for the rate limiter
  MaxRetryAfter,   \* longest representable Retry-After
  Chunk,           \* longest single sleep of a cooldown
  Backoff,         \* sleep before a retry
  RetryAttempts, MaxRedirects

Later(a, b) == IF a >= b THEN a ELSE b
Sooner(a, b) == IF a <= b THEN a ELSE b

NoWorker == "nobody"

ASSUME PolicyAssumption ==
  /\ IsFiniteSet(Workers) /\ NoWorker \notin Workers
  /\ RobotsPath \in [Origins -> Seq(Origins)]
  /\ RespectRobots \in BOOLEAN /\ Credentials \in BOOLEAN
  /\ RequestDelay \in Nat /\ CrawlDelay \in [Origins -> Nat]
  /\ RateWait \in Nat /\ MaxRetryAfter \in Nat \ {0} /\ Chunk \in Nat \ {0}
  /\ Backoff \in Nat /\ RetryAttempts \in Nat /\ MaxRedirects \in Nat

(* A delay that no clock can represent: it ends with the crawl.            *)
Indefinite == MaxRetryAfter + 1

(* What robots.txt asks for never makes requests come faster.              *)
PageDelay(o) == Later(RequestDelay, CrawlDelay[o])

VARIABLES
  \* per worker
  at,         \* where the worker waits
  origin,     \* origin of the page it fetches
  hop,        \* 0: the page itself; i: i-th request for its robots.txt
  attempt, redirects, challenged, sleep,
  \* per origin (OriginPolicy)
  holder,     \* worker that holds last_request
  since,      \* ticks since the last request, up to PageDelay
  cooldown,   \* ticks to the Retry-After deadline, or Indefinite
  robots,     \* "unset", "rules", "none" (no robots.txt) or "error"
  loader,     \* worker that initialises robots
  \* CrawlControl
  paused, cancelled,
  \* history per origin
  asked,      \* ticks left of the longest delay any response asked for
  late,       \* requests started during it
  loads,      \* times robots.txt was loaded
  excused     \* workers past their last check when the pause that lasts began

place    == <<at, origin, hop>>
retrying == <<attempt, redirects, challenged>>
slot     == <<holder, since, cooldown>>
policy   == <<robots, loader>>
control  == <<paused, cancelled>>
past     == <<asked, late, loads, excused>>
vars == <<place, retrying, sleep, slot, policy, control, past>>

-----------------------------------------------------------------------------
(* Origin whose slot worker w needs for its next request. *)
Dest(w) == IF hop[w] = 0 THEN origin[w] ELSE RobotsPath[origin[w]][hop[w]]

(* The delay read when the slot of o is taken: that of robots.txt counts   *)
(* once it is known.                                                       *)
Pace(o) ==
  IF RespectRobots /\ robots[o] = "rules" THEN PageDelay(o) ELSE RequestDelay

Go(w, place_) == at' = [at EXCEPT ![w] = place_]

Init ==
  /\ at = [w \in Workers |-> "idle"]
  /\ origin \in [Workers -> Origins]
  /\ hop = [w \in Workers |-> 0]
  /\ attempt = [w \in Workers |-> 0] /\ redirects = [w \in Workers |-> 0]
  /\ challenged = [w \in Workers |-> FALSE]
  /\ sleep = [w \in Workers |-> 0]
  /\ holder = [o \in Origins |-> NoWorker]
  /\ since = [o \in Origins |-> PageDelay(o)]
  /\ cooldown = [o \in Origins |-> 0]
  /\ robots = [o \in Origins |-> "unset"]
  /\ loader = [o \in Origins |-> NoWorker]
  /\ paused = FALSE /\ cancelled = FALSE
  /\ asked = [o \in Origins |-> 0] /\ late = [o \in Origins |-> 0]
  /\ loads = [o \in Origins |-> 0] /\ excused = {}

(* wait_if_paused, then ensure_not_cancelled: the worker goes on only when *)
(* neither flag is set.                                                    *)
Admitted == ~paused /\ ~cancelled

-----------------------------------------------------------------------------
(* fetch_one and robots_delay: a page is fetched only after the robots.txt *)
(* of its origin.                                                          *)

Begin(w) ==
  /\ at[w] = "idle" /\ ~cancelled
  /\ Go(w, "page")
  /\ UNCHANGED <<origin, hop, retrying, sleep, slot, policy, control, past>>

EnterPage(w) ==
  /\ at[w] = "page" /\ Admitted
  /\ Go(w, IF RespectRobots THEN "policy" ELSE "send")
  /\ UNCHANGED <<origin, hop, retrying, sleep, slot, policy, control, past>>

(* The first worker that finds the cell empty initialises it.              *)
LoadRobots(w) ==
  LET o == origin[w] IN
  /\ at[w] = "policy" /\ robots[o] = "unset" /\ loader[o] = NoWorker
  /\ loads' = [loads EXCEPT ![o] = @ + 1]
  /\ IF RobotsPath[o] = <<>>     \* the text is configured
     THEN /\ \E answer \in {"rules", "error"} : robots' = [robots EXCEPT ![o] = answer]
          /\ UNCHANGED <<at, hop, loader>>
     ELSE /\ loader' = [loader EXCEPT ![o] = w]
          /\ hop' = [hop EXCEPT ![w] = 1]
          /\ Go(w, "send")
          /\ UNCHANGED robots
  /\ UNCHANGED <<origin, retrying, sleep, slot, control, asked, late,
                 excused>>

(* Fault: robots.txt that cannot be read allows everything.                *)
ObeyRobotsFault(w) ==
  /\ at[w] = "policy" /\ robots[origin[w]] # "unset"
  /\ \/ Go(w, "send")
     \/ robots[origin[w]] = "rules" /\ Go(w, "done")
  /\ UNCHANGED <<origin, hop, retrying, sleep, slot, policy, control, past>>

(* The other workers of the origin wait for the cell, then all obey it:    *)
(* the rules allow a page or not, what cannot be read allows none.         *)
ObeyRobots(w) ==
  /\ at[w] = "policy" /\ robots[origin[w]] # "unset"
  /\ \/ robots[origin[w]] \in {"rules", "none"} /\ Go(w, "send")
     \/ robots[origin[w]] \in {"rules", "error"} /\ Go(w, "done")
  /\ UNCHANGED <<origin, hop, retrying, sleep, slot, policy, control, past>>

-----------------------------------------------------------------------------
(* send and wait: one request.                                             *)

EnterSend(w) ==
  /\ at[w] = "send" /\ Admitted
  /\ Go(w, "acquire")
  /\ UNCHANGED <<origin, hop, retrying, sleep, slot, policy, control, past>>

(* Fault: the slot is shared.                                              *)
AcquireFault(w) ==
  /\ at[w] = "acquire"
  /\ holder' = [holder EXCEPT ![Dest(w)] = w]
  /\ sleep' = [sleep EXCEPT ![w] = Pace(Dest(w))]
  /\ Go(w, "slot")
  /\ UNCHANGED <<origin, hop, retrying, since, cooldown, policy, control, past>>

(* The lock on last_request is held until the request starts; the delay is *)
(* read before the pause that may follow.                                  *)
Acquire(w) ==
  /\ at[w] = "acquire" /\ holder[Dest(w)] = NoWorker
  /\ holder' = [holder EXCEPT ![Dest(w)] = w]
  /\ sleep' = [sleep EXCEPT ![w] = Pace(Dest(w))]
  /\ Go(w, "slot")
  /\ UNCHANGED <<origin, hop, retrying, since, cooldown, policy, control, past>>

(* What is left of the delay, then the rate limiter.                       *)
StartPacing(w) ==
  /\ at[w] = "slot" /\ Admitted
  /\ \E wait \in 0..RateWait :
       sleep' = [sleep EXCEPT ![w] = Later(0, @ - since[Dest(w)]) + wait]
  /\ Go(w, "pace")
  /\ UNCHANGED <<origin, hop, retrying, slot, policy, control, past>>

EndPacing(w) ==
  /\ at[w] = "pace" /\ sleep[w] = 0
  /\ Go(w, "cool")
  /\ UNCHANGED <<origin, hop, retrying, sleep, slot, policy, control, past>>

(* Fault: the pause is looked at before pacing only.                       *)
CheckCooldownFaultPause(w) ==
  /\ at[w] = "cool" /\ ~cancelled
  /\ IF cooldown[Dest(w)] = 0
     THEN Go(w, "clear") /\ UNCHANGED sleep
     ELSE /\ sleep' = [sleep EXCEPT ![w] = Sooner(cooldown[Dest(w)], Chunk)]
          /\ Go(w, "nap")
  /\ UNCHANGED <<origin, hop, retrying, slot, policy, control, past>>

(* Another worker may have prolonged the cooldown while this one slept, so *)
(* it is read again after every sleep, which is bounded.                   *)
CheckCooldown(w) ==
  /\ at[w] = "cool" /\ Admitted
  /\ IF cooldown[Dest(w)] = 0
     THEN Go(w, "clear") /\ UNCHANGED sleep
     ELSE /\ sleep' = [sleep EXCEPT ![w] = Sooner(cooldown[Dest(w)], Chunk)]
          /\ Go(w, "nap")
  /\ UNCHANGED <<origin, hop, retrying, slot, policy, control, past>>

EndNap(w) ==
  /\ at[w] = "nap" /\ sleep[w] = 0
  /\ Go(w, "cool")
  /\ UNCHANGED <<origin, hop, retrying, sleep, slot, policy, control, past>>

(* Fault: the slot is kept until the answer.                               *)
StartFault(w) ==
  /\ at[w] = "clear"
  /\ Go(w, "flight")
  /\ since' = [since EXCEPT ![Dest(w)] = 0]
  /\ UNCHANGED <<origin, hop, retrying, sleep, holder, cooldown, policy,
                 control, past>>

(* last_request is set, the slot is free, the request is on its way.       *)
Start(w) ==
  LET o == Dest(w) IN
  /\ at[w] = "clear"
  /\ Go(w, "flight")
  /\ holder' = [holder EXCEPT ![o] = NoWorker]
  /\ since' = [since EXCEPT ![o] = 0]
  /\ late' = [late EXCEPT ![o] = IF asked[o] > 0 THEN @ + 1 ELSE @]
  /\ UNCHANGED <<origin, hop, retrying, sleep, cooldown, policy, control,
                 asked, loads, excused>>

-----------------------------------------------------------------------------
(* The answer.                                                             *)

(* A Digest challenge is answered once per request.                        *)
Challenge(w) ==
  /\ at[w] = "flight" /\ Credentials /\ ~challenged[w]
  /\ challenged' = [challenged EXCEPT ![w] = TRUE]
  /\ Go(w, "send")
  /\ UNCHANGED <<origin, hop, attempt, redirects, sleep, slot, policy, control,
                 past>>

(* Fault: the last Retry-After wins.                                       *)
ObserveRetryAfterFault(o, delay) ==
  /\ cooldown' = [cooldown EXCEPT ![o] = delay]
  /\ asked' = [asked EXCEPT ![o] = Later(@, delay)]

(* A 429 or 503 asks for a delay; only a later deadline replaces one.      *)
ObserveRetryAfter(o, delay) ==
  /\ cooldown' = [cooldown EXCEPT ![o] = Later(@, delay)]
  /\ asked' = [asked EXCEPT ![o] = Later(@, delay)]

SettleRobots(o, answer) ==
  /\ robots' = [robots EXCEPT ![o] = answer]
  /\ loader' = [loader EXCEPT ![o] = NoWorker]

(* The request failed for good: a page becomes an error record; robots.txt *)
(* counts as missing after a client error (429 too), else as unreadable.   *)
GiveUp(w) ==
  /\ attempt[w] >= RetryAttempts
  /\ IF hop[w] = 0
     THEN Go(w, "done") /\ UNCHANGED <<hop, retrying, policy>>
     ELSE /\ \E answer \in {"none", "error"} : SettleRobots(origin[w], answer)
          /\ Go(w, "policy")
          /\ hop' = [hop EXCEPT ![w] = 0]
          /\ attempt' = [attempt EXCEPT ![w] = 0]
          /\ challenged' = [challenged EXCEPT ![w] = FALSE]
          /\ UNCHANGED redirects
  /\ UNCHANGED sleep

Retry(w) ==
  /\ attempt[w] < RetryAttempts
  /\ attempt' = [attempt EXCEPT ![w] = @ + 1]
  /\ sleep' = [sleep EXCEPT ![w] = Backoff]
  /\ Go(w, "backoff")
  /\ UNCHANGED <<hop, redirects, challenged, policy>>

(* A network error or a status worth a retry, perhaps with a Retry-After.  *)
Fail(w) ==
  /\ at[w] = "flight"
  /\ \/ UNCHANGED <<cooldown, asked>>
     \/ \E delay \in 1..Indefinite : ObserveRetryAfter(Dest(w), delay)
  /\ Retry(w) \/ GiveUp(w)
  /\ UNCHANGED <<origin, holder, since, control, late, loads, excused>>

EndBackoff(w) ==
  /\ at[w] = "backoff" /\ sleep[w] = 0
  /\ Go(w, "send")
  /\ UNCHANGED <<origin, hop, retrying, sleep, slot, policy, control, past>>

(* Any other answer.  robots.txt: a redirect leads to the next origin of   *)
(* its path, any other answer settles the cell.  A page: it is done, or     *)
(* redirects to an origin whose robots.txt must be obeyed in turn.         *)
Succeed(w) ==
  /\ at[w] = "flight"
  /\ attempt' = [attempt EXCEPT ![w] = 0]
  /\ challenged' = [challenged EXCEPT ![w] = FALSE]
  /\ \/ /\ hop[w] > 0 /\ hop[w] < Len(RobotsPath[origin[w]])
        /\ hop' = [hop EXCEPT ![w] = @ + 1]
        /\ Go(w, "send")
        /\ UNCHANGED <<origin, redirects, policy>>
     \/ /\ hop[w] > 0
        /\ hop' = [hop EXCEPT ![w] = 0]
        /\ \E answer \in {"rules", "none", "error"} : SettleRobots(origin[w], answer)
        /\ Go(w, "policy")
        /\ UNCHANGED <<origin, redirects>>
     \/ /\ hop[w] = 0
        /\ Go(w, "done")
        /\ UNCHANGED <<origin, hop, redirects, policy>>
     \/ /\ hop[w] = 0 /\ redirects[w] < MaxRedirects
        /\ \E o \in Origins : origin' = [origin EXCEPT ![w] = o]
        /\ redirects' = [redirects EXCEPT ![w] = @ + 1]
        /\ Go(w, "page")
        /\ UNCHANGED <<hop, policy>>
  /\ UNCHANGED <<sleep, slot, control, past>>

-----------------------------------------------------------------------------
(* Stop, Pause and time.                                                   *)

(* Where a worker looks at the stop flag.  Waiting for the slot it does    *)
(* so only inside load_robots.                                             *)
SeesStop(w) ==
  \/ at[w] \in {"page", "policy", "send", "slot", "pace", "cool", "nap",
                "flight", "backoff"}
  \/ at[w] = "acquire" /\ hop[w] > 0

(* Fault: the slot stays taken.                                            *)
ReleaseFault(w) == UNCHANGED holder

(* Dropping the guard frees the slot.                                      *)
Release(w) == holder' = [o \in Origins |-> IF holder[o] = w THEN NoWorker ELSE holder[o]]

(* The worker gives up; a cell it was initialising stays empty, or keeps   *)
(* the cancellation as an error.                                           *)
ObserveStop(w) ==
  /\ cancelled /\ SeesStop(w)
  /\ Go(w, "done")
  /\ Release(w)
  /\ loader' = [o \in Origins |-> IF loader[o] = w THEN NoWorker ELSE loader[o]]
  /\ \/ UNCHANGED robots
     \/ loader[origin[w]] = w /\ robots' = [robots EXCEPT ![origin[w]] = "error"]
  /\ UNCHANGED <<origin, hop, retrying, sleep, since, cooldown, control, past>>

Pause ==
  /\ ~paused /\ paused' = TRUE
  /\ excused' = {w \in Workers : at[w] = "clear"}
  /\ UNCHANGED <<place, retrying, sleep, slot, policy, cancelled, asked, late,
                 loads>>

Resume ==
  /\ paused /\ paused' = FALSE
  /\ excused' = {}
  /\ UNCHANGED <<place, retrying, sleep, slot, policy, cancelled, asked, late,
                 loads>>

Stop ==
  /\ ~cancelled /\ cancelled' = TRUE
  /\ UNCHANGED <<place, retrying, sleep, slot, policy, paused, past>>

(* saturating_duration_since: a deadline that has passed stays passed.     *)
Down(t) == IF t = 0 \/ t = Indefinite THEN t ELSE t - 1

Tick ==
  /\ since' = [o \in Origins |-> Sooner(since[o] + 1, PageDelay(o))]
  /\ cooldown' = [o \in Origins |-> Down(cooldown[o])]
  /\ asked' = [o \in Origins |-> Down(asked[o])]
  /\ late' = [o \in Origins |-> IF asked'[o] = 0 THEN 0 ELSE late[o]]
  /\ sleep' = [w \in Workers |->
                 IF at[w] \in {"pace", "nap", "backoff"}
                 THEN Later(0, sleep[w] - 1) ELSE sleep[w]]
  /\ <<since, cooldown, asked, sleep>> # <<since', cooldown', asked', sleep'>>
  /\ UNCHANGED <<place, retrying, holder, policy, control, loads, excused>>

-----------------------------------------------------------------------------
Fetch(w) ==
  \/ EnterPage(w) \/ LoadRobots(w) \/ ObeyRobots(w)
  \/ EnterSend(w) \/ Acquire(w) \/ StartPacing(w) \/ EndPacing(w)
  \/ CheckCooldown(w) \/ EndNap(w) \/ Start(w)
  \/ Challenge(w) \/ Fail(w) \/ EndBackoff(w) \/ Succeed(w)
  \/ ObserveStop(w)

Next ==
  \/ \E w \in Workers : Begin(w) \/ Fetch(w)
  \/ Pause \/ Resume \/ Stop \/ Tick

Spec == Init /\ [][Next]_vars

(* Workers are polled, requests are answered or time out, time passes.     *)
FairSpec == Spec /\ WF_vars(Tick) /\ \A w \in Workers : WF_vars(Fetch(w))

-----------------------------------------------------------------------------
(* Properties.                                                             *)

(* The values the variables take.                                          *)
TypeOK ==
  /\ at \in [Workers -> {"idle", "page", "policy", "send", "acquire", "slot",
                         "pace", "cool", "nap", "clear", "flight", "backoff",
                         "done"}]
  /\ origin \in [Workers -> Origins]
  /\ hop \in [Workers -> Nat]
  /\ \A w \in Workers : hop[w] <= Len(RobotsPath[origin[w]])
  /\ attempt \in [Workers -> 0..RetryAttempts]
  /\ redirects \in [Workers -> 0..MaxRedirects]
  /\ challenged \in [Workers -> BOOLEAN]
  /\ sleep \in [Workers -> Nat]
  /\ holder \in [Origins -> Workers \cup {NoWorker}]
  /\ since \in [Origins -> Nat]
  /\ cooldown \in [Origins -> 0..Indefinite]
  /\ robots \in [Origins -> {"unset", "rules", "none", "error"}]
  /\ loader \in [Origins -> Workers \cup {NoWorker}]
  /\ paused \in BOOLEAN /\ cancelled \in BOOLEAN
  /\ asked \in [Origins -> 0..Indefinite]
  /\ late \in [Origins -> Nat] /\ loads \in [Origins -> Nat]
  /\ excused \in SUBSET Workers

Starts(w) == at[w] # "flight" /\ at'[w] = "flight"

(* Requests to one origin keep their distance, however many workers want   *)
(* it, and a page keeps the distance its robots.txt asks for.              *)
Paced ==
  [][\A w \in Workers : Starts(w) =>
       since[Dest(w)] >= IF hop[w] = 0 /\ RespectRobots /\ robots[origin[w]] = "rules"
                         THEN PageDelay(Dest(w)) ELSE RequestDelay]_vars

(* The cooldown one response asked for binds every worker (README.md:72),  *)
(* and a shorter one never replaces it: at most the one request that had   *)
(* already passed its last check when the response came starts during it.  *)
CooldownBinds == \A o \in Origins : late[o] <= 1

(* A pause binds at once (README.md:75): only a request that had passed    *)
(* its last check when the crawl was paused still starts, at most one per  *)
(* origin, and also a retry of it waits.                                   *)
PauseBinds ==
  [][\A w \in Workers : Starts(w) /\ paused =>
       /\ w \in excused
       /\ \A v \in excused \ {w} : at[v] = "clear" => Dest(v) # Dest(w)]_vars

(* A page is requested only when the robots.txt of its origin, also of one *)
(* it was redirected to, is known to have rules or to be missing; and      *)
(* robots.txt is loaded once per origin and run, whoever needs it and      *)
(* whether or not it could be read.                                        *)
RobotsFirst ==
  [][/\ \A w \in Workers : Starts(w) /\ hop[w] = 0 /\ RespectRobots =>
          robots[origin[w]] \in {"rules", "none"}
     /\ cancelled \/ \A o \in Origins : loads'[o] <= 1]_vars

Ended(w) == at[w] \in {"idle", "done"}

(* Stop ends every worker, also one that is paused, sleeps for an          *)
(* indefinite cooldown or waits for a slot or for robots.txt.              *)
StopEnds == cancelled ~> \A w \in Workers : Ended(w)

(* Unless the crawl stays paused or a server asks for an indefinite delay, *)
(* every fetch ends: neither the slots nor the robots cells block anyone.  *)
FetchesEnd ==
  (<>[]~paused /\ [](\A o \in Origins : cooldown[o] # Indefinite))
    => <>[](\A w \in Workers : Ended(w))

(* No worker waits forever for what only another worker could give it.     *)
WorkersEnd == StopEnds /\ FetchesEnd
=============================================================================
