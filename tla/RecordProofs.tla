-------------------------------- MODULE RecordProofs ----------------------
(* Theorems of the records.  What a fetch records is what the site answers,*)
(* for every site that gives well-formed answers, every limit and a Stop   *)
(* at any moment.  Whatever is asked of these records, in memory, in SQL,  *)
(* of the counters or of a report, is answered alike, what the reference   *)
(* audit claims is so on the site, and any two crawls are compared alike.  *)
EXTENDS Comparison, SeqLemmas, FiniteSetTheorems

-----------------------------------------------------------------------------
(* What a fetch records. The invariant is about the fetch that is still on *)
(* its way: where it is and the chain behind it are the beginning of the   *)
(* trail of redirects from its item, no URL of which was met twice         *)
(* (OnTheWay), and it waits for a body only where there is an answer.      *)

HopsOf == [url : Urls, location : Urls]

\* A fetch of i that has come to u over the redirects c.
OnTheWay(s, i, u, c) ==
  LET n == Len(c)
      trail == Trail(s, i)
  IN /\ i \in Urls
     /\ c \in Seq(HopsOf)
     /\ n <= MaxRedirects
     /\ u = trail[n]
     /\ \A k \in 0..n : trail[k] \in Urls
     /\ \A k \in 1..n : c[k] = [url |-> trail[k - 1], location |-> trail[k]]
     /\ \A j, k \in 0..n : trail[j] = trail[k] => j = k

Waiting(st, s, i, u, c) ==
  /\ st \in {"idle", "permission", "request", "body"}
  /\ st # "idle" => OnTheWay(s, i, u, c)
  /\ st = "request" => s[u].kind # "blocked"
  /\ st = "body" => s[u].kind = "answer"

Fetching ==
  /\ site \in Sites
  /\ records \in Seq(Range(records))
  /\ Waiting(step, site, item, url, chain)
  /\ RecordsTellTheSite

-----------------------------------------------------------------------------
(* The trail                                                               *)

LEMMA LimitIsNat == MaxRedirects \in Nat
  BY FetchAssumption

(* Only targets and None lie on a trail, one after the other.              *)
LEMMA TrailFacts ==
  ASSUME NEW s \in Sites, NEW u
  PROVE  /\ Trail(s, u)[0] = u
         /\ \A k \in 0..MaxRedirects :
              Trail(s, u)[k + 1] =
                IF Trail(s, u)[k] \in Urls /\ s[Trail(s, u)[k]].kind = "redirect"
                THEN s[Trail(s, u)[k]].to ELSE None
         /\ \A k \in 0..MaxRedirects + 1 : Trail(s, u)[k] \in Targets \cup {None, u}
<1> DEFINE n == MaxRedirects + 1
           V == Targets \cup {None, u}
           G == [v \in V |-> IF v \in Urls /\ s[v].kind = "redirect" THEN s[v].to ELSE None]
           Step(f, k) == IF k = 0 THEN u
                         ELSE IF f[k - 1] \in Urls /\ s[f[k - 1]].kind = "redirect"
                              THEN s[f[k - 1]].to ELSE None
           IsTrail(f) == f = [k \in 0..n |-> Step(f, k)]
           trail == CHOOSE f : IsTrail(f)
<1>1. n \in Nat /\ u \in V /\ G \in [V -> V]
  <2>1. \A v \in V : v \in Urls /\ s[v].kind = "redirect" => s[v].to \in V
    BY FetchAssumption DEF AnswerAssumption
  <2>2. n \in Nat /\ u \in V /\ None \in V
    BY LimitIsNat DEF Targets
  <2>3. G \in [V -> V]
    <3> HIDE DEF V
    <3> QED BY <2>1, <2>2
  <2> QED BY <2>2, <2>3
<1>2. \E f : IsTrail(f)
  <2> HIDE DEF n, V
  <2>1. PICK f \in [0..n -> V] : f[0] = u /\ \A k \in 1..n : f[k] = G[f[k - 1]]
    <3> HIDE DEF G
    <3>1. HasRecursionUpTo(n, V, u, G)
      BY <1>1, RecursionUpTo
    <3> QED BY <3>1 DEF HasRecursionUpTo
  <2>2. ASSUME NEW k \in 0..n PROVE f[k] = Step(f, k)
    <3>1. CASE k = 0
      BY <2>1, <3>1
    <3>2. CASE k # 0
      <4>1. k \in 1..n /\ k - 1 \in 0..n
        BY <1>1, <3>2
      <4>2. f[k] = G[f[k - 1]] /\ f[k - 1] \in V
        BY <2>1, <4>1
      <4> QED BY <3>2, <4>2
    <3> QED BY <3>1, <3>2
  <2>3. f = [k \in 0..n |-> f[k]]
    OBVIOUS
  <2> HIDE DEF Step
  <2> QED BY <2>2, <2>3
<1>3. IsTrail(trail)
  <2> HIDE DEF IsTrail
  <2> QED BY <1>2
<1>4. Trail(s, u) = trail
  BY DEF Trail
<1> HIDE DEF trail
<1>5. /\ trail[0] = u
      /\ \A k \in 0..MaxRedirects :
           trail[k + 1] = IF trail[k] \in Urls /\ s[trail[k]].kind = "redirect"
                          THEN s[trail[k]].to ELSE None
  <2>1. \A k \in 0..n : trail[k] = Step(trail, k)
    <3> HIDE DEF Step, n
    <3> QED BY <1>3
  <2>2. 0 \in 0..n /\ \A k \in 0..MaxRedirects : k + 1 \in 0..n /\ k + 1 # 0 /\ (k + 1) - 1 = k
    BY LimitIsNat
  <2> HIDE DEF n
  <2> QED BY <2>1, <2>2
<1>6. ASSUME NEW k \in 0..n PROVE trail[k] \in V
  <2>1. CASE k = 0
    BY <1>1, <1>5, <2>1
  <2>2. CASE k \in 1..n
    <3>1. k - 1 \in 0..MaxRedirects /\ (k - 1) + 1 = k
      BY <2>2, LimitIsNat
    <3>2. trail[k] = IF trail[k - 1] \in Urls /\ s[trail[k - 1]].kind = "redirect"
                     THEN s[trail[k - 1]].to ELSE None
      <4> HIDE DEF n
      <4> QED BY <3>1, <1>5
    <3> HIDE DEF n
    <3> QED BY <3>2, FetchAssumption DEF AnswerAssumption
  <2> QED BY <1>1, <2>1, <2>2
<1> QED BY <1>4, <1>5, <1>6

-----------------------------------------------------------------------------
(* What ends a fetch                                                       *)

(* A fetch that ends where it is: its chain goes all the way there.        *)
LEMMA EndsThere ==
  ASSUME NEW s \in Sites, NEW i, NEW u, NEW c, OnTheWay(s, i, u, c),
         NEW r, r.url = i, r.chain = c, r.final = u, Tells(r, s[u])
  PROVE  TellsTheSite(s, r)
<1> DEFINE n == Len(c)
           trail == Trail(s, i)
<1>1. /\ n \in Nat /\ n <= MaxRedirects /\ u = trail[n]
      /\ \A k \in 1..n : c[k] = [url |-> trail[k - 1], location |-> trail[k]]
      /\ \A j, k \in 0..n : trail[j] = trail[k] => j = k
  BY DEF OnTheWay
<1> HIDE DEF trail, n
<1>2. \A j, k \in 0..n - 1 : trail[j] = trail[k] => j = k
  BY <1>1
<1>3. ~\E k \in 0..n - 1 : trail[k] = trail[n]
  BY <1>1
<1>4. r.final = trail[n] /\ Tells(r, s[trail[n]])
  BY <1>1
<1> QED BY <1>1, <1>2, <1>3, <1>4 DEF TellsTheSite, n, trail

(* A redirect leads to the next URL of the trail, and the chain that holds *)
(* it leads there.                                                         *)
Redirects(s, u) == s[u].kind = "redirect" /\ s[u].to \in Urls
Longer(s, u, c) == Append(c, [url |-> u, location |-> s[u].to])
Met(s, u, c) == s[u].to = u \/ \E k \in DOMAIN c : c[k].url = s[u].to

LeadsOn(s, u, c, trail, n) ==
  /\ n \in Nat /\ n <= MaxRedirects
  /\ Longer(s, u, c) \in Seq(HopsOf) /\ Len(Longer(s, u, c)) = n + 1
  /\ u = trail[n] /\ trail[n + 1] = s[u].to
  /\ \A k \in 0..n + 1 : trail[k] \in Urls
  /\ \A k \in 1..n + 1 : Longer(s, u, c)[k] = [url |-> trail[k - 1], location |-> trail[k]]
  /\ \A j, k \in 0..n : trail[j] = trail[k] => j = k
  /\ (\E k \in 0..n : trail[k] = s[u].to) <=> Met(s, u, c)

LEMMA HopLeadsOn ==
  ASSUME NEW s \in Sites, NEW i, NEW u, NEW c, OnTheWay(s, i, u, c), Redirects(s, u)
  PROVE  LeadsOn(s, u, c, Trail(s, i), Len(c)) /\ i \in Urls
<1> DEFINE n == Len(c)
           to == s[u].to
           hop == [url |-> u, location |-> to]
           d == Append(c, hop)
           trail == Trail(s, i)
<1>0. s[u].kind = "redirect" /\ to \in Urls /\ i \in Urls
  BY DEF Redirects, OnTheWay
<1>1. /\ n <= MaxRedirects /\ u = trail[n] /\ c \in Seq(HopsOf)
      /\ \A k \in 0..n : trail[k] \in Urls
      /\ \A k \in 1..n : c[k] = [url |-> trail[k - 1], location |-> trail[k]]
      /\ \A j, k \in 0..n : trail[j] = trail[k] => j = k
  BY DEF OnTheWay
<1>2. n \in Nat /\ u \in Urls /\ hop \in HopsOf
  <2> HIDE DEF trail
  <2> QED BY <1>0, <1>1 DEF HopsOf
<1>3. d \in Seq(HopsOf) /\ Len(d) = n + 1 /\ d[n + 1] = hop /\ \A k \in 1..n : d[k] = c[k]
  <2> HIDE DEF hop, trail
  <2> QED BY <1>1, <1>2
<1>4. trail[n + 1] = to
  <2>1. n \in 0..MaxRedirects
    BY <1>1, <1>2, LimitIsNat
  <2>2. trail[n + 1] = IF trail[n] \in Urls /\ s[trail[n]].kind = "redirect"
                       THEN s[trail[n]].to ELSE None
    <3> HIDE DEF n
    <3> QED BY <1>0, <2>1, TrailFacts
  <2> HIDE DEF trail, n
  <2> QED BY <1>0, <1>1, <1>2, <2>2
<1>8. DOMAIN c = 1..n
  BY <1>1
<1> HIDE DEF trail, d, n
<1>5. \A k \in 0..n + 1 : trail[k] \in Urls
  <2>1. \A k \in 0..n + 1 : k \in 0..n \/ k = n + 1
    BY <1>2
  <2> QED BY <1>0, <1>1, <1>4, <2>1
<1>6. \A k \in 1..n + 1 : d[k] = [url |-> trail[k - 1], location |-> trail[k]]
  <2>1. \A k \in 1..n + 1 : k \in 1..n \/ k = n + 1
    BY <1>2
  <2>2. (n + 1) - 1 = n
    BY <1>2
  <2> QED BY <1>1, <1>3, <1>4, <2>1, <2>2
<1>7. (\E k \in 0..n : trail[k] = to) <=> Met(s, u, c)
  <2>1. \A k \in 1..n : k - 1 \in 0..n
    BY <1>2
  <2>2. \A k \in 0..n : k = n \/ (k + 1 \in 1..n /\ (k + 1) - 1 = k)
    BY <1>2
  <2>3. n \in 0..n
    BY <1>2
  <2>4. ASSUME NEW k \in 1..n PROVE c[k].url = trail[k - 1]
    <3>1. c[k] = [url |-> trail[k - 1], location |-> trail[k]]
      BY <1>1
    <3> QED BY <3>1
  <2>5. Met(s, u, c) <=> (to = u \/ \E k \in 1..n : c[k].url = to)
    BY <1>8 DEF Met
  <2> HIDE DEF to
  <2>6. ASSUME NEW k \in 0..n, trail[k] = to
        PROVE  to = u \/ \E m \in 1..n : c[m].url = to
    <3>1. CASE k = n
      BY <1>1, <2>6, <3>1
    <3>2. CASE k + 1 \in 1..n /\ (k + 1) - 1 = k
      <4>1. c[k + 1].url = to
        BY <2>4, <2>6, <3>2
      <4> QED BY <3>2, <4>1
    <3> QED BY <2>2, <3>1, <3>2
  <2>7. (to = u \/ \E k \in 1..n : c[k].url = to) => \E k \in 0..n : trail[k] = to
    BY <1>1, <2>1, <2>3, <2>4
  <2> QED BY <2>5, <2>6, <2>7
<1>9. Longer(s, u, c) = d
  BY DEF Longer, d
<1> QED BY <1>0, <1>1, <1>2, <1>3, <1>4, <1>5, <1>6, <1>7, <1>9 DEF LeadsOn, trail, n

(* The record of a loop.                                                   *)
LEMMA EndsInLoop ==
  ASSUME NEW s \in Sites, NEW i, NEW u, NEW c, OnTheWay(s, i, u, c),
         Redirects(s, u), Met(s, u, c),
         NEW r, r.url = i, r.chain = Longer(s, u, c),
         r.final = u, r.error = "Redirect loop detected"
  PROVE  TellsTheSite(s, r)
<1> DEFINE n == Len(c)
           trail == Trail(s, i)
<1>1. LeadsOn(s, u, c, trail, n)
  BY HopLeadsOn
<1> HIDE DEF n, trail
<1>2. (n + 1) - 1 = n /\ n + 1 > 0
  <2>1. n \in Nat
    BY <1>1 DEF LeadsOn
  <2> QED BY <2>1, Successor
<1>3. \E k \in 0..n : trail[k] = trail[n + 1]
  BY <1>1 DEF LeadsOn
<1> QED BY <1>1, <1>2, <1>3, ZenonT(40) DEF TellsTheSite, LeadsOn, trail

(* Otherwise the next URL is new: the record of the limit, or the next     *)
(* turn.                                                                   *)
AllNew(trail, n) == \A j, k \in 0..n : trail[j] = trail[k] => j = k

LEMMA NextIsNew ==
  ASSUME NEW s, NEW u, NEW c, NEW trail, NEW n, LeadsOn(s, u, c, trail, n), ~Met(s, u, c)
  PROVE  AllNew(trail, n + 1)
<1>1. \A k \in 0..n + 1 : k \in 0..n \/ k = n + 1
  BY DEF LeadsOn
<1> QED BY <1>1 DEF LeadsOn, AllNew

LEMMA EndsAtLimit ==
  ASSUME NEW s \in Sites, NEW i, NEW u, NEW c, OnTheWay(s, i, u, c),
         Redirects(s, u), ~Met(s, u, c), Len(c) = MaxRedirects,
         NEW r, r.url = i, r.chain = Longer(s, u, c),
         r.final = s[u].to, r.error = "Redirect limit exceeded"
  PROVE  TellsTheSite(s, r)
<1> DEFINE n == Len(c)
           trail == Trail(s, i)
<1>1. LeadsOn(s, u, c, trail, n)
  BY HopLeadsOn
<1>2. n = MaxRedirects
  OBVIOUS
<1> HIDE DEF n, trail
<1>3. AllNew(trail, n + 1)
  BY <1>1, NextIsNew
<1>4. /\ (n + 1) - 1 = n /\ n + 1 \in 0..n + 1
      /\ \A k \in 0..n : k \in 0..n + 1 /\ k # n + 1
  <2>1. n \in Nat
    BY <1>1 DEF LeadsOn
  <2> QED BY <2>1, Successor
<1>5. ~\E k \in 0..n : trail[k] = trail[n + 1]
  BY <1>3, <1>4 DEF AllNew
<1>6. \A j, k \in 0..n : trail[j] = trail[k] => j = k
  BY <1>3, <1>4 DEF AllNew
<1>7. Len(r.chain) = n + 1 /\ r.final = trail[n + 1]
  BY <1>1 DEF LeadsOn
<1>8. Len(r.chain) - 1 = n /\ Len(r.chain) = MaxRedirects + 1
  BY <1>2, <1>4, <1>7
<1>9. \A k \in 1..n + 1 : r.chain[k] = [url |-> trail[k - 1], location |-> trail[k]]
  BY <1>1 DEF LeadsOn
<1> HIDE DEF Longer, Met, Redirects
<1> QED BY <1>5, <1>6, <1>7, <1>8, <1>9, ZenonT(40) DEF TellsTheSite, trail

LEMMA GoesOn ==
  ASSUME NEW s \in Sites, NEW i, NEW u, NEW c, OnTheWay(s, i, u, c),
         Redirects(s, u), ~Met(s, u, c), Len(c) # MaxRedirects
  PROVE  OnTheWay(s, i, s[u].to, Longer(s, u, c))
<1> DEFINE n == Len(c)
           trail == Trail(s, i)
<1>1. LeadsOn(s, u, c, trail, n) /\ i \in Urls
  BY HopLeadsOn
<1>2. n # MaxRedirects
  OBVIOUS
<1> HIDE DEF n, trail
<1>3. AllNew(trail, n + 1)
  BY <1>1, NextIsNew
<1>4. n + 1 <= MaxRedirects
  BY <1>1, <1>2, LimitIsNat DEF LeadsOn
<1> QED BY <1>1, <1>3, <1>4 DEF OnTheWay, LeadsOn, AllNew, trail

-----------------------------------------------------------------------------
(* The records of an answer                                                *)

\* What the properties look at of a record that Bare makes.
Basics(r, i, u, c) == r.url = i /\ r.final = u /\ r.chain = c

LEMMA ErrorFields ==
  ASSUME NEW u, NEW error, NEW c
  PROVE  /\ Basics(ErrorRecord(u, error, c), item, u, c)
         /\ ErrorRecord(u, error, c).error = error
         /\ ErrorRecord(u, error, c).status = None
  BY DEF ErrorRecord, Bare, Basics

LEMMA BlockedFields ==
  ASSUME NEW u, NEW why, NEW c
  PROVE  /\ Basics(BlockedRecord(u, c, why), item, u, c)
         /\ BlockedRecord(u, c, why).reason = "Blocked by robots.txt"
         /\ BlockedRecord(u, c, why).status = None
  BY DEF BlockedRecord, Bare, Basics

Basis == {"url", "final", "chain", "status", "indexability", "indexStatus", "canonical", "robots"}

\* A record of the shape a response gives, with what a status alone says of it.
OfStatus(r, i, u, c, status) ==
  /\ Basics(r, i, u, c)
  /\ Basis \subseteq DOMAIN r
  /\ r.status = status
  /\ r.indexability = IF Success(status) THEN "Indexable" ELSE "Non-indexable"
  /\ r.indexStatus = IF Success(status) THEN "Indexable" ELSE "HTTP"

LEMMA StatusFields ==
  ASSUME NEW u, NEW status, NEW c, NEW error
  PROVE  /\ OfStatus(StatusRecord(u, status, c, error), item, u, c, status)
         /\ StatusRecord(u, status, c, error).error = error
<1> HIDE DEF Success
<1>1. Basics(StatusRecord(u, status, c, error), item, u, c)
  BY DEF StatusRecord, Bare, Basics
<1>2. /\ StatusRecord(u, status, c, error).status = status
      /\ StatusRecord(u, status, c, error).error = error
  BY DEF StatusRecord, Bare
<1>3. /\ StatusRecord(u, status, c, error).indexability
           = IF Success(status) THEN "Indexable" ELSE "Non-indexable"
      /\ StatusRecord(u, status, c, error).indexStatus
           = IF Success(status) THEN "Indexable" ELSE "HTTP"
  BY DEF StatusRecord, Bare
<1>4. Basis \subseteq DOMAIN StatusRecord(u, status, c, error)
  BY DEF StatusRecord, Bare, Basis
<1> QED BY <1>1, <1>2, <1>3, <1>4 DEF OfStatus

(* The headers, the page and the directives of an answer.                  *)
Continues(r, q) ==
  /\ r.url = q.url /\ r.final = q.final /\ r.chain = q.chain /\ r.status = q.status
  /\ Basis \subseteq DOMAIN r

LEMMA HeaderFields ==
  ASSUME NEW q, NEW given, Basis \subseteq DOMAIN q, given.header.noindex \in BOOLEAN
  PROVE  LET r == WithHeaders(q, given)
         IN /\ Continues(r, q)
            /\ r.indexability = q.indexability /\ r.indexStatus = q.indexStatus
            /\ "header" \in r.robots <=> given.header.noindex
            /\ "meta" \notin r.robots
<1> USE DEF Basis
<1> DEFINE r == WithHeaders(q, given)
<1>1. Continues(r, q)
  BY DEF Continues, WithHeaders
<1>2. r.indexability = q.indexability /\ r.indexStatus = q.indexStatus
  BY DEF WithHeaders
<1>3. r.robots = IF given.header.noindex THEN {"header"} ELSE {}
  BY DEF WithHeaders
<1> QED BY <1>1, <1>2, <1>3

LEMMA PageFields ==
  ASSUME NEW q, NEW page, Basis \subseteq DOMAIN q, page.noindex \in BOOLEAN
  PROVE  LET r == WithPage(q, page)
         IN /\ Continues(r, q)
            /\ r.indexability = q.indexability /\ r.indexStatus = q.indexStatus
            /\ r.robots = IF page.noindex THEN q.robots \cup {"meta"} ELSE q.robots
<1> USE DEF Basis
<1> DEFINE r == WithPage(q, page)
<1>1. Continues(r, q)
  BY DEF Continues, WithPage
<1>2. r.indexability = q.indexability /\ r.indexStatus = q.indexStatus
  BY DEF WithPage
<1>3. r.robots = IF page.noindex THEN q.robots \cup {"meta"} ELSE q.robots
  BY DEF WithPage
<1> QED BY <1>1, <1>2, <1>3

LEMMA DirectedFields ==
  ASSUME NEW q, Basis \subseteq DOMAIN q,
         q.indexability = IF Success(q.status) THEN "Indexable" ELSE "Non-indexable",
         q.indexStatus = IF Success(q.status) THEN "Indexable" ELSE "HTTP"
  PROVE  LET r == Directed(q)
         IN /\ Continues(r, q)
            /\ r.canonical = q.canonical
            /\ r.indexability \in {"Indexable", "Non-indexable"}
            /\ r.indexStatus # "Response body incomplete"
            /\ r.indexability = "Indexable" <=>
                 (/\ Success(q.status) /\ "header" \notin q.robots /\ "meta" \notin q.robots
                  /\ q.canonical \in {None, q.final})
<1> USE DEF Basis
<1> HIDE DEF Success
<1> DEFINE Closed(status) ==
             [q EXCEPT !.indexability = "Non-indexable", !.indexStatus = status]
<1>1. CASE ~Success(q.status)
  <2>1. Directed(q) = q
    BY <1>1 DEF Directed
  <2> QED BY <1>1, <2>1 DEF Continues
<1>2. CASE Success(q.status) /\ "header" \in q.robots
  <2>1. Directed(q) = Closed("X-Robots-Tag noindex")
    BY <1>2 DEF Directed
  <2> QED BY <1>2, <2>1 DEF Continues
<1>3. CASE Success(q.status) /\ "header" \notin q.robots /\ "meta" \in q.robots
  <2>1. Directed(q) = Closed("Meta robots noindex")
    BY <1>3 DEF Directed
  <2> QED BY <1>3, <2>1 DEF Continues
<1>4. CASE /\ Success(q.status) /\ "header" \notin q.robots /\ "meta" \notin q.robots
           /\ q.canonical # None /\ q.canonical # q.final
  <2>1. Directed(q) = Closed("Canonicalized")
    BY <1>4 DEF Directed
  <2> QED BY <1>4, <2>1 DEF Continues
<1>5. CASE /\ Success(q.status) /\ "header" \notin q.robots /\ "meta" \notin q.robots
           /\ q.canonical \in {None, q.final}
  <2>1. Directed(q) = q
    BY <1>5 DEF Directed
  <2> QED BY <1>5, <2>1 DEF Continues
<1> QED BY <1>1, <1>2, <1>3, <1>4, <1>5

(* Both kinds of answer tell what was answered.                            *)
WellFormed(given) ==
  /\ given.kind = "answer"
  /\ given.cut \in BOOLEAN /\ given.header.noindex \in BOOLEAN /\ given.page.noindex \in BOOLEAN

LEMMA HeadersOfStatus ==
  ASSUME NEW u, NEW given, NEW c, NEW error, WellFormed(given)
  PROVE  LET q == WithHeaders(StatusRecord(u, given.status, c, error), given)
         IN /\ OfStatus(q, item, u, c, given.status)
            /\ "header" \in q.robots <=> given.header.noindex
            /\ "meta" \notin q.robots
<1> DEFINE s == StatusRecord(u, given.status, c, error)
           q == WithHeaders(s, given)
<1>1. OfStatus(s, item, u, c, given.status)
  BY StatusFields
<1>2. Basis \subseteq DOMAIN s /\ given.header.noindex \in BOOLEAN
  BY <1>1 DEF OfStatus, WellFormed
<1> HIDE DEF s
<1>3. /\ Continues(q, s)
      /\ q.indexability = s.indexability /\ q.indexStatus = s.indexStatus
      /\ "header" \in q.robots <=> given.header.noindex
      /\ "meta" \notin q.robots
  BY <1>2, HeaderFields
<1> HIDE DEF q
<1>4. OfStatus(q, item, u, c, given.status)
  <2> HIDE DEF Success
  <2> QED BY <1>1, <1>3 DEF OfStatus, Continues, Basics
<1> QED BY <1>3, <1>4 DEF q, s

LEMMA CutTells ==
  ASSUME NEW u, NEW given, NEW c, WellFormed(given), given.cut
  PROVE  /\ Basics(CutRecord(u, given, c), item, u, c)
         /\ Tells(CutRecord(u, given, c), given)
<1> DEFINE q == WithHeaders(StatusRecord(u, given.status, c, "cut"), given)
           d == Directed(q)
           r == CutRecord(u, given, c)
<1>1. OfStatus(q, item, u, c, given.status)
  BY HeadersOfStatus
<1> HIDE DEF q
<1>2. /\ Basis \subseteq DOMAIN q
      /\ q.indexability = IF Success(q.status) THEN "Indexable" ELSE "Non-indexable"
      /\ q.indexStatus = IF Success(q.status) THEN "Indexable" ELSE "HTTP"
  <2> HIDE DEF Success
  <2> QED BY <1>1 DEF OfStatus
<1>3. Continues(d, q) /\ d.indexability \in {"Indexable", "Non-indexable"}
  BY <1>2, DirectedFields
<1>4. Basics(d, item, u, c) /\ d.status = given.status
  BY <1>1, <1>3 DEF OfStatus, Continues, Basics
<1> HIDE DEF d
<1>5. r = [d EXCEPT !.indexability = IF d.indexability = "Indexable" THEN "Unknown"
                                     ELSE d.indexability,
                    !.indexStatus = "Response body incomplete"]
  BY DEF CutRecord, d, q
<1>6. Basics(r, item, u, c) /\ r.status = given.status
  BY <1>3, <1>4, <1>5 DEF Basics, Continues, Basis
<1>7. r.indexability # "Indexable" /\ r.indexStatus = "Response body incomplete"
  BY <1>3, <1>5 DEF Continues, Basis
<1> HIDE DEF r
<1>8. given.kind = "answer" /\ given.cut
  BY DEF WellFormed
<1> HIDE DEF Success
<1> QED BY <1>6, <1>7, <1>8 DEF Tells, r

LEMMA AnswerTells ==
  ASSUME NEW u, NEW given, NEW c, WellFormed(given), ~given.cut
  PROVE  /\ Basics(AnswerRecord(u, given, c), item, u, c)
         /\ Tells(AnswerRecord(u, given, c), given)
<1> DEFINE h == WithHeaders(StatusRecord(u, given.status, c, None), given)
           plain == [h EXCEPT !.hash = given.page.hash]
           scripted == IF given.script = "failed"
                       THEN [plain EXCEPT !.error = "JavaScript rendering failed"] ELSE plain
           q == IF given.type = "html" THEN WithPage(scripted, given.page) ELSE plain
           r == AnswerRecord(u, given, c)
           Closed(p) == /\ "header" \in p.robots <=> given.header.noindex
                        /\ "meta" \notin p.robots
<1> HIDE DEF Success
<1>1. OfStatus(h, item, u, c, given.status) /\ Closed(h)
  BY HeadersOfStatus
<1> HIDE DEF h
<1>2. OfStatus(plain, item, u, c, given.status) /\ Closed(plain)
  BY <1>1 DEF OfStatus, Basics, Basis
<1> HIDE DEF plain
<1>3. OfStatus(scripted, item, u, c, given.status) /\ Closed(scripted)
  BY <1>2 DEF OfStatus, Basics, Basis
<1> HIDE DEF scripted
<1>4. /\ OfStatus(q, item, u, c, given.status)
      /\ "header" \in q.robots <=> given.header.noindex
      /\ "meta" \in q.robots <=> given.type = "html" /\ given.page.noindex
  <2>1. CASE given.type = "html"
    <3> DEFINE w == WithPage(scripted, given.page)
    <3>1. Basis \subseteq DOMAIN scripted /\ given.page.noindex \in BOOLEAN
      BY <1>3 DEF OfStatus, WellFormed
    <3>2. /\ Continues(w, scripted)
          /\ w.indexability = scripted.indexability /\ w.indexStatus = scripted.indexStatus
          /\ w.robots = IF given.page.noindex THEN scripted.robots \cup {"meta"}
                        ELSE scripted.robots
      BY <3>1, PageFields
    <3>3. q = w
      BY <2>1
    <3> HIDE DEF w, q
    <3>4. OfStatus(w, item, u, c, given.status)
      BY <1>3, <3>2 DEF OfStatus, Continues, Basics
    <3>5. /\ "header" \in w.robots <=> given.header.noindex
          /\ "meta" \in w.robots <=> given.page.noindex
      BY <1>3, <3>1, <3>2
    <3> QED BY <2>1, <3>3, <3>4, <3>5
  <2>2. CASE given.type # "html"
    <3>1. q = plain
      BY <2>2
    <3> HIDE DEF q
    <3> QED BY <1>2, <2>2, <3>1
  <2> QED BY <2>1, <2>2
<1> HIDE DEF q
<1>5. /\ Basis \subseteq DOMAIN q
      /\ q.indexability = IF Success(q.status) THEN "Indexable" ELSE "Non-indexable"
      /\ q.indexStatus = IF Success(q.status) THEN "Indexable" ELSE "HTTP"
  BY <1>4 DEF OfStatus
<1>6. r = Directed(q)
  BY DEF AnswerRecord, q, scripted, plain, h
<1>7. /\ Continues(r, q)
      /\ r.canonical = q.canonical
      /\ r.indexStatus # "Response body incomplete"
      /\ r.indexability = "Indexable" <=>
           (/\ Success(q.status) /\ "header" \notin q.robots /\ "meta" \notin q.robots
            /\ q.canonical \in {None, q.final})
  BY <1>5, <1>6, DirectedFields
<1> HIDE DEF r
<1>8. Basics(r, item, u, c) /\ r.status = given.status /\ q.final = r.final
      /\ q.status = given.status
  BY <1>4, <1>7 DEF OfStatus, Continues, Basics
<1>9. r.indexability = "Indexable" <=>
        (/\ Success(given.status) /\ ~given.cut /\ ~given.header.noindex
         /\ given.type = "html" => ~given.page.noindex
         /\ r.canonical \in {None, r.final})
  BY <1>4, <1>7, <1>8
<1>10. given.kind = "answer"
  BY DEF WellFormed
<1> QED BY <1>7, <1>8, <1>9, <1>10 DEF Tells, r

-----------------------------------------------------------------------------
(* The invariant                                                           *)

LEMMA FetchInit == Init => Fetching
<1> SUFFICES ASSUME Init PROVE Fetching
  OBVIOUS
<1>1. records \in Seq({}) /\ Range(records) = {} /\ DOMAIN records = {}
  BY EmptyRange DEF Init
<1> QED BY <1>1 DEF Init, Fetching, Waiting, RecordsTellTheSite

(* A fetch that is not idle is on its way, and what it asked is an answer. *)
LEMMA AnswerInHand ==
  ASSUME Fetching, step # "idle"
  PROVE  /\ site \in Sites /\ OnTheWay(site, item, url, chain)
         /\ url \in Urls /\ AnswerAssumption(site[url])
<1>1. site \in Sites /\ OnTheWay(site, item, url, chain)
  BY DEF Fetching, Waiting
<1>2. url \in Urls
  <2> DEFINE n == Len(chain)
             trail == Trail(site, item)
  <2>1. n \in 0..MaxRedirects
    <3>1. n \in Nat /\ n <= MaxRedirects
      BY <1>1 DEF OnTheWay
    <3> QED BY <3>1, LimitIsNat
  <2>2. (\A k \in 0..n : trail[k] \in Urls) /\ url = trail[n]
    BY <1>1 DEF OnTheWay
  <2> HIDE DEF n, trail
  <2>3. n \in 0..n
    BY <2>1
  <2> QED BY <2>2, <2>3
<1>3. AnswerAssumption(site[url])
  BY <1>1, <1>2, FetchAssumption
<1> QED BY <1>1, <1>2, <1>3

(* A record that tells the site may be returned.                           *)
LEMMA ReturnKeeps ==
  ASSUME Fetching, NEW r, TellsTheSite(site, r), Return(r)
  PROVE  Fetching'
<1> DEFINE n == Len(records)
           S == Range(records)
<1>1. records' = Append(records, r) /\ site' = site /\ step' = "idle"
  BY DEF Return
<1>2. records \in Seq(S) /\ n \in Nat /\ DOMAIN records = 1..n
  BY DEF Fetching
<1>3. <<r>> \in Seq({r}) /\ records \in Seq(S \cup {r}) /\ r \in S \cup {r}
  BY <1>2, SeqMonotonic
<1>4. /\ records' \in Seq(S \cup {r}) /\ DOMAIN records' = 1..n + 1
      /\ records'[n + 1] = r /\ \A i \in 1..n : records'[i] = records[i]
  <2> HIDE DEF S
  <2> QED BY <1>1, <1>2, <1>3
<1>5. \A i \in DOMAIN records' : i = n + 1 \/ i \in 1..n
  BY <1>2, <1>4
<1>6. records' \in Seq(Range(records'))
  <2>1. \A i \in 1..n + 1 : records'[i] \in Range(records')
    BY <1>4 DEF Range
  <2>2. Len(records') = n + 1 /\ records' = [i \in 1..n + 1 |-> records'[i]]
    BY <1>2, <1>4
  <2>3. records' \in [1..n + 1 -> Range(records')] /\ n + 1 \in Nat
    <3> HIDE DEF n
    <3> QED BY <1>2, <2>1, <2>2
  <2> QED BY <2>3, FunIsSeq
<1>7. \A i \in DOMAIN records' : TellsTheSite(site, records'[i])
  <2>1. \A i \in 1..n : TellsTheSite(site, records[i])
    BY <1>2 DEF Fetching, RecordsTellTheSite
  <2> HIDE DEF n
  <2> QED BY <1>4, <1>5, <2>1
<1>8. Waiting(step', site', item', url', chain')
  BY <1>1 DEF Waiting
<1>9. RecordsTellTheSite'
  BY <1>1, <1>7 DEF RecordsTellTheSite
<1>10. site' \in Sites
  BY <1>1 DEF Fetching
<1> QED BY <1>6, <1>8, <1>9, <1>10 DEF Fetching

(* A step that returns nothing has only to stay on the way.                *)
LEMMA NoRecord ==
  ASSUME Fetching, UNCHANGED <<site, records>>, Waiting(step', site, item', url', chain')
  PROVE  Fetching'
<1>1. site' = site /\ records' = records
  OBVIOUS
<1>2. RecordsTellTheSite'
  BY <1>1 DEF Fetching, RecordsTellTheSite
<1>3. site' \in Sites /\ records' \in Seq(Range(records'))
  BY <1>1 DEF Fetching
<1>4. Waiting(step', site', item', url', chain')
  BY <1>1
<1> QED BY <1>2, <1>3, <1>4 DEF Fetching

(* A response that is no redirect to a further URL ends the fetch there.   *)
LEMMA ReturnHere ==
  ASSUME Fetching, step # "idle", NEW r, Basics(r, item, url, chain), Tells(r, site[url]),
         Return(r)
  PROVE  Fetching'
<1>1. TellsTheSite(site, r)
  BY AnswerInHand, EndsThere DEF Basics
<1> QED BY <1>1, ReturnKeeps

-----------------------------------------------------------------------------
(* The steps                                                               *)

LEMMA BeginKeeps ==
  ASSUME Fetching, NEW i \in Urls, Begin(i)
  PROVE  Fetching'
<1>1. site \in Sites
  BY DEF Fetching
<1>2. Trail(site, i)[0] = i
  BY <1>1, TrailFacts
<1>3. <<>> \in Seq(HopsOf) /\ Len(<<>>) = 0
  BY EmptyRange
<1>4. OnTheWay(site, i, i, <<>>)
  <2>1. 0 <= MaxRedirects /\ 0..0 = {0} /\ 1..0 = {}
    BY LimitIsNat
  <2> QED BY <1>2, <1>3, <2>1 DEF OnTheWay
<1>5. Waiting(step', site, item', url', chain')
  BY <1>4 DEF Begin, Waiting
<1> QED BY <1>5, NoRecord DEF Begin

LEMMA PermissionKeeps ==
  ASSUME Fetching, Permission
  PROVE  Fetching'
<1>1. step # "idle" /\ step = "permission"
  BY DEF Permission
<1>2. CASE site[url].kind = "blocked"
  <2> DEFINE r == BlockedRecord(url, chain, site[url].why)
  <2>1. Return(r)
    BY <1>2 DEF Permission
  <2>2. Basics(r, item, url, chain) /\ r.reason = "Blocked by robots.txt" /\ r.status = None
    BY BlockedFields
  <2> HIDE DEF r
  <2>3. Tells(r, site[url])
    BY <1>2, <2>2 DEF Tells
  <2> QED BY <1>1, <2>1, <2>2, <2>3, ReturnHere
<1>3. CASE site[url].kind # "blocked"
  <2>1. /\ step' = "request" /\ UNCHANGED <<site, records>>
        /\ item' = item /\ url' = url /\ chain' = chain
    BY <1>3 DEF Permission
  <2>2. OnTheWay(site, item, url, chain)
    BY <1>1, AnswerInHand
  <2>3. Waiting(step', site, item', url', chain')
    BY <1>3, <2>1, <2>2 DEF Waiting
  <2> QED BY <2>1, <2>3, NoRecord
<1> QED BY <1>2, <1>3

LEMMA RedirectedKeeps ==
  ASSUME Fetching, step = "request", site[url].kind = "redirect", Redirected(site[url].to)
  PROVE  Fetching'
<1> DEFINE to == site[url].to
<1>1. /\ site \in Sites /\ OnTheWay(site, item, url, chain)
      /\ to \in Targets \cup {None}
  BY AnswerInHand DEF AnswerAssumption
<1>2. Junk \notin Urls /\ None \notin Urls /\ None # Junk
  BY FetchAssumption DEF Targets
<1>3. Loops(to) <=> Met(site, url, chain)
  BY DEF Loops, Met
<1>4. Hop(to) = Longer(site, url, chain)
  BY DEF Hop, Longer
<1>5. CASE to = None
  <2> DEFINE error == "Redirect response missing Location header"
             r == StatusRecord(url, 301, chain, error)
  <2>1. Return(r)
    BY <1>2, <1>5 DEF Redirected
  <2>2. Basics(r, item, url, chain) /\ r.status = 301 /\ r.error = error
    <3> HIDE DEF error
    <3>1. OfStatus(r, item, url, chain, 301) /\ r.error = error
      BY StatusFields
    <3> QED BY <3>1 DEF OfStatus
  <2> HIDE DEF r
  <2>3. r.error # None
    BY <2>2, FetchAssumption
  <2>4. Tells(r, site[url])
    BY <1>2, <1>5, <2>2, <2>3 DEF Tells
  <2> QED BY <2>1, <2>2, <2>4, ReturnHere
<1>6. CASE to = Junk
  <2> DEFINE error == "Invalid redirect target"
             r == ErrorRecord(url, error, chain)
  <2>1. Return(r)
    BY <1>2, <1>6 DEF Redirected
  <2>2. Basics(r, item, url, chain) /\ r.status = None /\ r.error = error
    <3> HIDE DEF error
    <3> QED BY ErrorFields
  <2> HIDE DEF r
  <2>3. r.error # None
    BY <2>2, FetchAssumption
  <2>4. Tells(r, site[url])
    BY <1>2, <1>6, <2>2, <2>3 DEF Tells
  <2> QED BY <2>1, <2>2, <2>4, ReturnHere
<1>7. CASE to \in Urls /\ Loops(to)
  <2> DEFINE r == ErrorRecord(url, "Redirect loop detected", Longer(site, url, chain))
  <2>1. Return(r)
    BY <1>2, <1>4, <1>7 DEF Redirected
  <2>2. Basics(r, item, url, Longer(site, url, chain)) /\ r.error = "Redirect loop detected"
    BY ErrorFields
  <2> HIDE DEF r
  <2>3. Redirects(site, url) /\ Met(site, url, chain)
    BY <1>3, <1>7 DEF Redirects
  <2>4. TellsTheSite(site, r)
    BY <1>1, <2>2, <2>3, EndsInLoop DEF Basics
  <2> QED BY <2>1, <2>4, ReturnKeeps
<1>8. CASE to \in Urls /\ ~Loops(to) /\ Spent
  <2> DEFINE r == ErrorRecord(to, "Redirect limit exceeded", Longer(site, url, chain))
  <2>1. Return(r)
    BY <1>2, <1>4, <1>8 DEF Redirected
  <2>2. Basics(r, item, to, Longer(site, url, chain)) /\ r.error = "Redirect limit exceeded"
    BY ErrorFields, ZenonT(40)
  <2> HIDE DEF r
  <2>3. Redirects(site, url) /\ ~Met(site, url, chain) /\ Len(chain) = MaxRedirects
    BY <1>3, <1>8 DEF Redirects, Spent
  <2>4. TellsTheSite(site, r)
    BY <1>1, <2>2, <2>3, EndsAtLimit DEF Basics
  <2> QED BY <2>1, <2>4, ReturnKeeps
<1>9. CASE to \in Urls /\ ~Loops(to) /\ ~Spent
  <2>1. /\ url' = to /\ chain' = Longer(site, url, chain) /\ step' = "permission"
        /\ item' = item /\ UNCHANGED <<site, records>>
    BY <1>2, <1>4, <1>9 DEF Redirected
  <2>2. Redirects(site, url) /\ ~Met(site, url, chain) /\ Len(chain) # MaxRedirects
    BY <1>3, <1>9 DEF Redirects, Spent
  <2>3. OnTheWay(site, item, to, Longer(site, url, chain))
    BY <1>1, <2>2, GoesOn
  <2>4. Waiting(step', site, item', url', chain')
    BY <2>1, <2>3 DEF Waiting
  <2> QED BY <2>1, <2>4, NoRecord
<1> QED BY <1>1, <1>5, <1>6, <1>7, <1>8, <1>9 DEF Targets

LEMMA RequestKeeps ==
  ASSUME Fetching, Request
  PROVE  Fetching'
<1>1. step # "idle" /\ step = "request"
  BY DEF Request
<1>2. AnswerAssumption(site[url]) /\ OnTheWay(site, item, url, chain)
  BY <1>1, AnswerInHand
<1>3. CASE site[url].kind = "refused"
  <2> DEFINE r == ErrorRecord(url, "refused", chain)
  <2>1. Return(r)
    BY <1>3 DEF Request
  <2>2. Basics(r, item, url, chain) /\ r.status = None /\ r.error = "refused"
    BY ErrorFields
  <2> HIDE DEF r
  <2>3. Tells(r, site[url])
    BY <1>3, <2>2 DEF Tells
  <2> QED BY <1>1, <2>1, <2>2, <2>3, ReturnHere
<1>4. CASE site[url].kind = "redirect"
  <2>1. Redirected(site[url].to)
    BY <1>4 DEF Request
  <2> QED BY <1>1, <1>4, <2>1, RedirectedKeeps
<1>5. CASE site[url].kind = "answer"
  <2>1. /\ step' = "body" /\ UNCHANGED <<site, records>>
        /\ item' = item /\ url' = url /\ chain' = chain
    BY <1>5 DEF Request
  <2>2. Waiting(step', site, item', url', chain')
    BY <1>2, <1>5, <2>1 DEF Waiting
  <2> QED BY <2>1, <2>2, NoRecord
<1>6. site[url].kind # "blocked"
  BY <1>1 DEF Fetching, Waiting
<1> QED BY <1>2, <1>3, <1>4, <1>5, <1>6 DEF AnswerAssumption

LEMMA AnswerKeeps ==
  ASSUME Fetching, step = "body",
         \/ site[url].cut /\ Return(CutRecord(url, site[url], chain))
         \/ ~site[url].cut /\ Return(AnswerRecord(url, site[url], chain))
  PROVE  Fetching'
<1>1. step # "idle" /\ WellFormed(site[url])
  <2>1. AnswerAssumption(site[url]) /\ site[url].kind = "answer"
    BY AnswerInHand DEF Fetching, Waiting
  <2> QED BY <2>1 DEF AnswerAssumption, WellFormed
<1>2. CASE site[url].cut /\ Return(CutRecord(url, site[url], chain))
  <2> DEFINE r == CutRecord(url, site[url], chain)
  <2>1. Basics(r, item, url, chain) /\ Tells(r, site[url])
    BY <1>1, <1>2, CutTells
  <2> QED BY <1>1, <1>2, <2>1, ReturnHere
<1>3. CASE ~site[url].cut /\ Return(AnswerRecord(url, site[url], chain))
  <2> DEFINE r == AnswerRecord(url, site[url], chain)
  <2>1. Basics(r, item, url, chain) /\ Tells(r, site[url])
    BY <1>1, <1>3, AnswerTells
  <2> QED BY <1>1, <1>3, <2>1, ReturnHere
<1> QED BY <1>2, <1>3

LEMMA FetchStep == Fetching /\ [Next]_vars => Fetching'
<1> SUFFICES ASSUME Fetching, [Next]_vars PROVE Fetching'
  OBVIOUS
<1>1. ASSUME NEW i \in Urls, Begin(i) PROVE Fetching'
  BY <1>1, BeginKeeps
<1>2. CASE Permission
  BY <1>2, PermissionKeeps
<1>3. CASE Request
  BY <1>3, RequestKeeps
<1>4. CASE Body
  <2>1. /\ step = "body"
        /\ \/ site[url].cut /\ Return(CutRecord(url, site[url], chain))
           \/ ~site[url].cut /\ Return(AnswerRecord(url, site[url], chain))
    BY <1>4 DEF Body
  <2> QED BY <2>1, AnswerKeeps
<1>5. CASE LateBody
  BY <1>5, AnswerKeeps DEF LateBody
<1>6. CASE Cancelled
  <2>1. Waiting(step', site, item', url', chain') /\ UNCHANGED <<site, records>>
    BY <1>6 DEF Cancelled, Waiting
  <2> QED BY <2>1, NoRecord
<1>7. CASE Stop \/ UNCHANGED vars
  <2>1. UNCHANGED <<site, fetch, records>>
    BY <1>7 DEF Stop, vars, fetch
  <2>2. /\ step' = step /\ item' = item /\ url' = url /\ chain' = chain
        /\ UNCHANGED <<site, records>>
    BY <2>1 DEF fetch
  <2>3. Waiting(step', site, item', url', chain')
    BY <2>2 DEF Fetching
  <2> QED BY <2>2, <2>3, NoRecord
<1> QED BY <1>1, <1>2, <1>3, <1>4, <1>5, <1>6, <1>7 DEF Next

(* For every site that gives well-formed answers and every limit, a record *)
(* is what the site answers at the end of its own redirects, cut off by a  *)
(* loop or the limit and by nothing else, whenever Stop comes (fetch_one). *)
THEOREM RecordsAreTheSites == Spec => []RecordsTellTheSite
<1>1. Fetching => RecordsTellTheSite
  BY DEF Fetching
<1> QED BY <1>1, FetchInit, FetchStep, PTL DEF Spec

-----------------------------------------------------------------------------
(* SQL has three truth values. A condition of the database store is        *)
(* compared with one of the memory store by when it holds.                 *)

(* SQL has three truth values.                                             *)
Truths == {TRUE, FALSE, None}

LEMMA NullIsNoTruth == None # TRUE /\ None # FALSE
BY ViewAssumption

LEMMA AllOfTruths ==
  ASSUME NEW S, S \subseteq Truths
  PROVE  AllOf(S) \in Truths /\ (Holds(AllOf(S)) <=> \A c \in S : Holds(c))
BY NullIsNoTruth, Zenon DEF AllOf, Truths, Holds

LEMMA AnyOfTruths ==
  ASSUME NEW S, S \subseteq Truths
  PROVE  AnyOf(S) \in Truths /\ (Holds(AnyOf(S)) <=> \E c \in S : Holds(c))
BY NullIsNoTruth, Zenon DEF AnyOf, Truths, Holds

LEMMA AllOfTwo ==
  ASSUME NEW x \in Truths, NEW y \in Truths
  PROVE  AllOf({x, y}) \in Truths /\ (Holds(AllOf({x, y})) <=> Holds(x) /\ Holds(y))
<1>1. {x, y} \subseteq Truths
  BY Zenon
<1>2. (\A c \in {x, y} : Holds(c)) <=> (Holds(x) /\ Holds(y))
  OBVIOUS
<1>3. AllOf({x, y}) \in Truths /\ (Holds(AllOf({x, y})) <=> \A c \in {x, y} : Holds(c))
  <2> DEFINE S == {x, y}
  <2> HIDE DEF S
  <2>1. S \subseteq Truths
    BY <1>1 DEF S
  <2>2. AllOf(S) \in Truths /\ (Holds(AllOf(S)) <=> \A c \in S : Holds(c))
    BY <2>1, AllOfTruths, Zenon
  <2> QED BY <2>2 DEF S
<1> QED BY <1>2, <1>3

LEMMA AllOfThree ==
  ASSUME NEW x \in Truths, NEW y \in Truths, NEW z \in Truths
  PROVE  AllOf({x, y, z}) \in Truths /\ (Holds(AllOf({x, y, z})) <=> Holds(x) /\ Holds(y) /\ Holds(z))
<1>1. {x, y, z} \subseteq Truths
  BY Zenon
<1>2. (\A c \in {x, y, z} : Holds(c)) <=> (Holds(x) /\ Holds(y) /\ Holds(z))
  OBVIOUS
<1>3. AllOf({x, y, z}) \in Truths /\ (Holds(AllOf({x, y, z})) <=> \A c \in {x, y, z} : Holds(c))
  <2> DEFINE S == {x, y, z}
  <2> HIDE DEF S
  <2>1. S \subseteq Truths
    BY <1>1 DEF S
  <2>2. AllOf(S) \in Truths /\ (Holds(AllOf(S)) <=> \A c \in S : Holds(c))
    BY <2>1, AllOfTruths, Zenon
  <2> QED BY <2>2 DEF S
<1> QED BY <1>2, <1>3

LEMMA AllOfFour ==
  ASSUME NEW x \in Truths, NEW y \in Truths, NEW z \in Truths, NEW w \in Truths
  PROVE  AllOf({x, y, z, w}) \in Truths /\ (Holds(AllOf({x, y, z, w})) <=> Holds(x) /\ Holds(y) /\ Holds(z) /\ Holds(w))
<1>1. {x, y, z, w} \subseteq Truths
  BY Zenon
<1>2. (\A c \in {x, y, z, w} : Holds(c)) <=> (Holds(x) /\ Holds(y) /\ Holds(z) /\ Holds(w))
  OBVIOUS
<1>3. AllOf({x, y, z, w}) \in Truths /\ (Holds(AllOf({x, y, z, w})) <=> \A c \in {x, y, z, w} : Holds(c))
  <2> DEFINE S == {x, y, z, w}
  <2> HIDE DEF S
  <2>1. S \subseteq Truths
    BY <1>1 DEF S
  <2>2. AllOf(S) \in Truths /\ (Holds(AllOf(S)) <=> \A c \in S : Holds(c))
    BY <2>1, AllOfTruths, Zenon
  <2> QED BY <2>2 DEF S
<1> QED BY <1>2, <1>3

LEMMA AnyOfTwo ==
  ASSUME NEW x \in Truths, NEW y \in Truths
  PROVE  AnyOf({x, y}) \in Truths /\ (Holds(AnyOf({x, y})) <=> Holds(x) \/ Holds(y))
<1>1. {x, y} \subseteq Truths
  BY Zenon
<1>2. (\E c \in {x, y} : Holds(c)) <=> (Holds(x) \/ Holds(y))
  OBVIOUS
<1>3. AnyOf({x, y}) \in Truths /\ (Holds(AnyOf({x, y})) <=> \E c \in {x, y} : Holds(c))
  <2> DEFINE S == {x, y}
  <2> HIDE DEF S
  <2>1. S \subseteq Truths
    BY <1>1 DEF S
  <2>2. AnyOf(S) \in Truths /\ (Holds(AnyOf(S)) <=> \E c \in S : Holds(c))
    BY <2>1, AnyOfTruths, Zenon
  <2> QED BY <2>2 DEF S
<1> QED BY <1>2, <1>3

LEMMA AnyOfThree ==
  ASSUME NEW x \in Truths, NEW y \in Truths, NEW z \in Truths
  PROVE  AnyOf({x, y, z}) \in Truths /\ (Holds(AnyOf({x, y, z})) <=> Holds(x) \/ Holds(y) \/ Holds(z))
<1>1. {x, y, z} \subseteq Truths
  BY Zenon
<1>2. (\E c \in {x, y, z} : Holds(c)) <=> (Holds(x) \/ Holds(y) \/ Holds(z))
  OBVIOUS
<1>3. AnyOf({x, y, z}) \in Truths /\ (Holds(AnyOf({x, y, z})) <=> \E c \in {x, y, z} : Holds(c))
  <2> DEFINE S == {x, y, z}
  <2> HIDE DEF S
  <2>1. S \subseteq Truths
    BY <1>1 DEF S
  <2>2. AnyOf(S) \in Truths /\ (Holds(AnyOf(S)) <=> \E c \in S : Holds(c))
    BY <2>1, AnyOfTruths, Zenon
  <2> QED BY <2>2 DEF S
<1> QED BY <1>2, <1>3

(* A plain condition is never NULL.                                        *)
LEMMA PlainHolds ==
  ASSUME NEW c \in BOOLEAN
  PROVE  c \in Truths /\ (Holds(c) <=> c)
BY Zenon DEF Truths, Holds

LEMMA Nullable ==
  ASSUME NEW x, NEW c \in BOOLEAN
  PROVE  LET t == IF x = None THEN None ELSE c
         IN t \in Truths /\ (Holds(t) <=> x # None /\ c)
<1>1. CASE x = None
  BY <1>1, NullIsNoTruth, Zenon DEF Truths, Holds
<1>2. CASE x # None
  BY <1>2, Zenon DEF Truths, Holds
<1> QED BY <1>1, <1>2

LEMMA SameHolds ==
  ASSUME NEW x, NEW k
  PROVE  Same(x, k) \in Truths /\ (Holds(Same(x, k)) <=> x # None /\ x = k)
<1>1. (x = k) \in BOOLEAN
  OBVIOUS
<1>2. Same(x, k) = IF x = None THEN None ELSE x = k
  BY Zenon DEF Same, Test
<1> QED BY <1>1, <1>2, Nullable, Zenon

LEMMA DiffersHolds ==
  ASSUME NEW x, NEW k
  PROVE  Differs(x, k) \in Truths /\ (Holds(Differs(x, k)) <=> x # None /\ x # k)
<1>1. (x # k) \in BOOLEAN
  OBVIOUS
<1>2. Differs(x, k) = IF x = None THEN None ELSE x # k
  BY Zenon DEF Differs, Test
<1> QED BY <1>1, <1>2, Nullable, Zenon

LEMMA WithinHolds ==
  ASSUME NEW x, NEW S
  PROVE  Within(x, S) \in Truths /\ (Holds(Within(x, S)) <=> x # None /\ x \in S)
<1>1. (x \in S) \in BOOLEAN
  OBVIOUS
<1>2. Within(x, S) = IF x = None THEN None ELSE x \in S
  BY Zenon DEF Within, Test
<1> QED BY <1>1, <1>2, Nullable, Zenon

LEMMA LessHolds ==
  ASSUME NEW x, NEW k
  PROVE  Less(x, k) \in Truths /\ (Holds(Less(x, k)) <=> x # None /\ x < k)
<1>1. (x < k) \in BOOLEAN
  OBVIOUS
<1>2. Less(x, k) = IF x = None THEN None ELSE x < k
  BY Zenon DEF Less, Test
<1> QED BY <1>1, <1>2, Nullable, Zenon

LEMMA MoreHolds ==
  ASSUME NEW x, NEW k
  PROVE  More(x, k) \in Truths /\ (Holds(More(x, k)) <=> x # None /\ x > k)
<1>1. (x > k) \in BOOLEAN
  OBVIOUS
<1>2. More(x, k) = IF x = None THEN None ELSE x > k
  BY Zenon DEF More, Test
<1> QED BY <1>1, <1>2, Nullable, Zenon

-----------------------------------------------------------------------------
(* What the conditions on a response mean, for a record whose fields are of *)
(* their types.                                                            *)

\* A record whose fields are of their types.
Typed(r) ==
  /\ r.status \in Nat \cup {None}
  /\ r.internal \in BOOLEAN /\ r.secure \in BOOLEAN
  /\ r.reason # None /\ r.indexability # None /\ r.indexStatus # None
  /\ \A e \in Elements : /\ r.text[e].value \in Texts
                         /\ r.text[e].count \in Nat \cup {None} /\ r.text[e].size \in Nat
                         /\ Key(r.text[e].value) = "" => r.text[e].size = 0
  /\ r.canonicals \in Nat /\ r.evidence \in Nat /\ r.words \in Nat
  /\ r.doctype \in BOOLEAN \cup {None}

LEMMA StatusIsNumber ==
  ASSUME NEW r, Typed(r), r.status # None
  PROVE  r.status \in Nat
BY DEF Typed

LEMMA NumbersAreNone ==
  /\ MinSize \in Nat /\ MaxSize \in Nat /\ ThinWords \in Nat
  /\ None \notin Nat /\ None # "html" /\ None # "Response body incomplete"
  /\ None # "Blocked by robots.txt"
BY ViewAssumption, ZenonT(60) DEF Phrases

(* The conditions on the response mean in SQL what they mean in Rust.      *)
LEMMA SuccessMeans ==
  ASSUME NEW r
  PROVE  SqlSuccess(r) \in Truths /\ (Holds(SqlSuccess(r)) <=> IsSuccess(r))
BY WithinHolds DEF SqlSuccess, IsSuccess

LEMMA HtmlMeans ==
  ASSUME NEW r
  PROVE  SqlHtml(r) \in Truths /\ (Holds(SqlHtml(r)) <=> r.type = "html")
<1>1. SqlHtml(r) \in Truths /\ (Holds(SqlHtml(r)) <=> r.type # None /\ r.type = "html")
  BY SameHolds DEF SqlHtml
<1> QED BY <1>1, NumbersAreNone

LEMMA RedirectMeans ==
  ASSUME NEW r
  PROVE  SqlRedirect(r) \in Truths /\ (Holds(SqlRedirect(r)) <=> IsRedirect(r))
BY WithinHolds DEF SqlRedirect, IsRedirect

LEMMA PageMeans ==
  ASSUME NEW r, Typed(r)
  PROVE  SqlPage(r) \in Truths /\ (Holds(SqlPage(r)) <=> IsPage(r))
<1> DEFINE d == Differs(r.indexStatus, "Response body incomplete")
<1>1. d \in Truths /\ (Holds(d) <=> r.indexStatus # "Response body incomplete")
  <2>1. r.indexStatus # None
    BY DEF Typed
  <2> QED BY <2>1, DiffersHolds
<1> HIDE DEF d
<1>2. SqlPage(r) = AllOf({SqlSuccess(r), SqlHtml(r), d})
  BY Zenon DEF SqlPage, d
<1>3. /\ SqlPage(r) \in Truths
      /\ Holds(SqlPage(r)) <=> Holds(SqlSuccess(r)) /\ Holds(SqlHtml(r)) /\ Holds(d)
  <2>1. SqlSuccess(r) \in Truths /\ SqlHtml(r) \in Truths
    BY SuccessMeans, HtmlMeans
  <2>2. /\ AllOf({SqlSuccess(r), SqlHtml(r), d}) \in Truths
        /\ Holds(AllOf({SqlSuccess(r), SqlHtml(r), d}))
             <=> Holds(SqlSuccess(r)) /\ Holds(SqlHtml(r)) /\ Holds(d)
    BY <1>1, <2>1, AllOfThree
  <2> QED BY <1>2, <2>2
<1> QED BY <1>1, <1>3, SuccessMeans, HtmlMeans DEF IsPage

LEMMA NoResponseMeans ==
  ASSUME NEW r, Typed(r)
  PROVE  SqlNoResponse(r) \in Truths /\ (Holds(SqlNoResponse(r)) <=> IsNoResponse(r))
<1> DEFINE a == r.status = None
           b == r.error # None
           c == Differs(r.reason, "Blocked by robots.txt")
           d == Differs(r.error, "Blocked by robots.txt")
<1>1. a \in Truths /\ (Holds(a) <=> r.status = None)
  BY PlainHolds, Zenon
<1>2. b \in Truths /\ (Holds(b) <=> r.error # None)
  BY PlainHolds, Zenon
<1>3. c \in Truths /\ (Holds(c) <=> r.reason # "Blocked by robots.txt")
  <2>1. r.reason # None
    BY DEF Typed
  <2> QED BY <2>1, DiffersHolds
<1>4. d \in Truths /\ (Holds(d) <=> r.error # None /\ r.error # "Blocked by robots.txt")
  BY DiffersHolds
<1>5. SqlNoResponse(r) = AllOf({a, b, c, d})
  BY Zenon DEF SqlNoResponse
<1> HIDE DEF a, b, c, d
<1>6. /\ SqlNoResponse(r) \in Truths
      /\ Holds(SqlNoResponse(r)) <=> Holds(a) /\ Holds(b) /\ Holds(c) /\ Holds(d)
  <2>1. a \in Truths /\ b \in Truths /\ c \in Truths /\ d \in Truths
    BY <1>1, <1>2, <1>3, <1>4
  <2>2. /\ AllOf({a, b, c, d}) \in Truths
        /\ Holds(AllOf({a, b, c, d})) <=> Holds(a) /\ Holds(b) /\ Holds(c) /\ Holds(d)
    BY <2>1, AllOfFour, Zenon
  <2> QED BY <1>5, <2>2
<1> QED BY <1>1, <1>2, <1>3, <1>4, <1>6 DEF IsNoResponse, IsBlocked

LEMMA BlockedMeans ==
  ASSUME NEW r
  PROVE  SqlBlocked(r) \in Truths /\ (Holds(SqlBlocked(r)) <=> IsBlocked(r))
<1> DEFINE a == r.status = None
           b == Same(r.reason, "Blocked by robots.txt")
           c == Same(r.error, "Blocked by robots.txt")
           e == AnyOf({b, c})
<1>1. a \in Truths /\ (Holds(a) <=> r.status = None)
  BY PlainHolds, Zenon
<1>2. b \in Truths /\ (Holds(b) <=> r.reason # None /\ r.reason = "Blocked by robots.txt")
  BY SameHolds
<1>3. c \in Truths /\ (Holds(c) <=> r.error # None /\ r.error = "Blocked by robots.txt")
  BY SameHolds
<1>4. SqlBlocked(r) = AllOf({a, e})
  BY Zenon DEF SqlBlocked
<1> HIDE DEF a, b, c
<1>5. e \in Truths /\ (Holds(e) <=> Holds(b) \/ Holds(c))
  BY <1>2, <1>3, AnyOfTwo, Zenon
<1> HIDE DEF e
<1>6. SqlBlocked(r) \in Truths /\ (Holds(SqlBlocked(r)) <=> Holds(a) /\ Holds(e))
  BY <1>1, <1>4, <1>5, AllOfTwo, Zenon
<1> QED BY <1>1, <1>2, <1>3, <1>5, <1>6, NumbersAreNone DEF IsBlocked

LEMMA BrokenMeans ==
  ASSUME NEW r, Typed(r)
  PROVE  SqlBroken(r) \in Truths /\ (Holds(SqlBroken(r)) <=> IsBroken(r))
<1> DEFINE a == More(r.status, 399)
           b == r.error # None
           c == AllOf({SqlRedirect(r), b})
<1>1. a \in Truths /\ (Holds(a) <=> r.status # None /\ r.status >= 400)
  <2>1. a \in Truths /\ (Holds(a) <=> r.status # None /\ r.status > 399)
    BY MoreHolds
  <2>2. r.status # None => r.status \in Nat
    BY DEF Typed
  <2> HIDE DEF a
  <2> QED BY <2>1, <2>2
<1>2. b \in Truths /\ (Holds(b) <=> r.error # None)
  BY PlainHolds, Zenon
<1>3. SqlBroken(r) = AnyOf({a, c, SqlNoResponse(r)})
  BY Zenon DEF SqlBroken
<1> HIDE DEF a, b
<1>4. c \in Truths /\ (Holds(c) <=> Holds(SqlRedirect(r)) /\ Holds(b))
  BY <1>2, RedirectMeans, AllOfTwo, Zenon
<1> HIDE DEF c
<1>5. /\ SqlBroken(r) \in Truths
      /\ Holds(SqlBroken(r)) <=> Holds(a) \/ Holds(c) \/ Holds(SqlNoResponse(r))
  BY <1>1, <1>3, <1>4, NoResponseMeans, AnyOfThree
<1> QED BY <1>1, <1>2, <1>4, <1>5, RedirectMeans, NoResponseMeans DEF IsBroken

-----------------------------------------------------------------------------
(* Groups: the rows that share a text, a cluster or a hash are counted     *)
(* alike.                                                                  *)

\* Rows as the fetches leave them: their fields are of their types, and no URL
\* has two.
TypedRows(stock) ==
  /\ \A i \in DOMAIN stock : Typed(stock[i])
  /\ \A i, k \in DOMAIN stock : stock[i].url = stock[k].url => i = k
  /\ IsFiniteSet(DOMAIN stock)

LEMMA KeysAreTexts ==
  ASSUME NEW text
  PROVE  Key(text) \in {"", "shoes"} /\ Key(text) # None /\ Key(None) = ""
<1>1. None # "" /\ None # "shoes"
  BY ViewAssumption DEF Phrases
<1>2. Key(text) \in {"", "shoes"} /\ Key(None) = ""
  BY DEF Key
<1> QED BY <1>1, <1>2

(* What is among the complete pages for one store is for the other.        *)
LEMMA AmongPages ==
  ASSUME NEW stock, TypedRows(stock)
  PROVE  SqlAmong(stock, SqlPage) = {i \in DOMAIN stock : IsPage(stock[i])}
<1>1. \A i \in DOMAIN stock : Holds(SqlPage(stock[i])) <=> IsPage(stock[i])
  BY PageMeans DEF TypedRows
<1>2. SqlAmong(stock, SqlPage) = {i \in DOMAIN stock : Holds(SqlPage(stock[i]))}
  BY Zenon DEF SqlAmong
<1> QED BY <1>1, <1>2

\* The complete pages with one value in a column.
Sharing(stock, column, v) == {i \in DOMAIN stock : IsPage(stock[i]) /\ column[i] = v}

LEMMA GroupsAre ==
  ASSUME NEW stock, TypedRows(stock), NEW column, NEW v, v # None
  PROVE  v \in Groups(stock, column) <=>
           (/\ \E i \in DOMAIN stock : IsPage(stock[i]) /\ column[i] = v
            /\ Cardinality(Sharing(stock, column, v)) > 1)
<1> DEFINE pages == {i \in DOMAIN stock : IsPage(stock[i])}
           Alike(w) == {i \in pages : Holds(Same(column[i], w))}
<1>1. Groups(stock, column) = {w \in {column[i] : i \in pages} : Cardinality(Alike(w)) > 1}
  <2>1. SqlAmong(stock, SqlPage) = pages
    BY AmongPages
  <2> HIDE DEF pages
  <2> QED BY <2>1, Zenon DEF Groups
<1>2. Alike(v) = Sharing(stock, column, v)
  <2>1. \A x : Holds(Same(x, v)) <=> x # None /\ x = v
    BY SameHolds
  <2>2. \A x : Holds(Same(x, v)) <=> x = v
    BY <2>1
  <2> QED BY <2>2 DEF Sharing
<1> HIDE DEF Alike
<1> QED BY <1>1, <1>2

LEMMA DuplicatesMean ==
  ASSUME NEW stock, TypedRows(stock), NEW m \in DOMAIN stock, NEW e, IsPage(stock[m])
  PROVE  Key(stock[m].text[e].value)
             \in Groups(stock, [i \in DOMAIN stock |-> Key(stock[i].text[e].value)]) \ {""}
           <=> Duplicated(stock, stock[m], e)
<1> DEFINE column == [i \in DOMAIN stock |-> Key(stock[i].text[e].value)]
           v == Key(stock[m].text[e].value)
<1>1. v # None
  BY KeysAreTexts
<1>2. \E i \in DOMAIN stock : IsPage(stock[i]) /\ column[i] = v
  OBVIOUS
<1>3. Sharing(stock, column, v) = SameKey(stock, e, v)
  BY DEF Sharing, SameKey, Among
<1> HIDE DEF column
<1>4. v \in Groups(stock, column) <=> Cardinality(SameKey(stock, e, v)) > 1
  <2> HIDE DEF v
  <2> QED BY <1>1, <1>2, <1>3, GroupsAre
<1>5. Duplicated(stock, stock[m], e) <=> v # "" /\ Cardinality(SameKey(stock, e, v)) > 1
  BY Zenon DEF Duplicated
<1> HIDE DEF v
<1>6. v \in Groups(stock, column) \ {""} <=> Duplicated(stock, stock[m], e)
  BY <1>4, <1>5
<1> QED BY <1>6 DEF v, column

LEMMA ClustersMean ==
  ASSUME NEW stock, TypedRows(stock), NEW m \in DOMAIN stock, IsPage(stock[m])
  PROVE  (stock[m].cluster # None /\
           stock[m].cluster \in Groups(stock, [i \in DOMAIN stock |-> stock[i].cluster]) \ {None})
           <=> InCluster(stock, stock[m])
<1> DEFINE column == [i \in DOMAIN stock |-> stock[i].cluster]
           v == stock[m].cluster
<1>2. \E i \in DOMAIN stock : IsPage(stock[i]) /\ column[i] = v
  OBVIOUS
<1>3. Sharing(stock, column, v) = SameCluster(stock, v)
  BY DEF Sharing, SameCluster, Among
<1> HIDE DEF column
<1>4. v # None => (v \in Groups(stock, column) <=> Cardinality(SameCluster(stock, v)) > 1)
  <2> HIDE DEF v
  <2> QED BY <1>2, <1>3, GroupsAre
<1>5. InCluster(stock, stock[m]) <=> v # None /\ Cardinality(SameCluster(stock, v)) > 1
  BY Zenon DEF InCluster
<1> HIDE DEF v
<1>6. (v # None /\ v \in Groups(stock, column) \ {None}) <=> InCluster(stock, stock[m])
  BY <1>4, <1>5
<1> QED BY <1>6 DEF v, column

(* Two pages of one content at two URLs make both of them duplicates.      *)
LEMMA HashesMean ==
  ASSUME NEW stock, TypedRows(stock), NEW m \in DOMAIN stock, IsPage(stock[m])
  PROVE  (\E i \in SqlExact(stock) : stock[i].url = stock[m].url)
           <=> stock[m].hash \in ExactHashes(stock)
<1> DEFINE pages == {i \in DOMAIN stock : IsPage(stock[i])}
           Alike(v) == {i \in DOMAIN stock : Holds(AllOf({SqlPage(stock[i]), Same(stock[i].hash, v)}))}
           Finals(v) == {stock[k].final : k \in Alike(v)}
           h == stock[m].hash
<1>1. SqlExact(stock) = {i \in pages : Cardinality(Finals(stock[i].hash)) > 1}
  <2>1. SqlAmong(stock, SqlPage) = pages
    BY AmongPages
  <2> HIDE DEF pages
  <2> QED BY <2>1 DEF SqlExact, SqlAmong
<1>2. Alike(h) = {i \in pages : stock[i].hash # None /\ stock[i].hash = h}
  <2>1. ASSUME NEW i \in DOMAIN stock
        PROVE  Holds(AllOf({SqlPage(stock[i]), Same(stock[i].hash, h)}))
                 <=> IsPage(stock[i]) /\ stock[i].hash # None /\ stock[i].hash = h
    <3>1. SqlPage(stock[i]) \in Truths /\ (Holds(SqlPage(stock[i])) <=> IsPage(stock[i]))
      BY PageMeans DEF TypedRows
    <3>2. /\ Same(stock[i].hash, h) \in Truths
          /\ Holds(Same(stock[i].hash, h)) <=> stock[i].hash # None /\ stock[i].hash = h
      BY SameHolds
    <3>3. Holds(AllOf({SqlPage(stock[i]), Same(stock[i].hash, h)}))
            <=> Holds(SqlPage(stock[i])) /\ Holds(Same(stock[i].hash, h))
      <4> HIDE DEF h
      <4> QED BY <3>1, <3>2, AllOfTwo, Zenon
    <3> QED BY <3>1, <3>2, <3>3
  <2> QED BY <2>1
<1>3. (\E i \in SqlExact(stock) : stock[i].url = stock[m].url) <=> Cardinality(Finals(h)) > 1
  <2>1. (\E i \in SqlExact(stock) : stock[i].url = stock[m].url) <=> m \in SqlExact(stock)
    <3>1. SqlExact(stock) \subseteq DOMAIN stock
      <4> HIDE DEF Finals
      <4> QED BY <1>1
    <3> QED BY <3>1 DEF TypedRows
  <2> HIDE DEF Finals
  <2>2. m \in pages
    OBVIOUS
  <2> QED BY <1>1, <2>1, <2>2
<1>4. IsFiniteSet(Finals(h))
  <2>1. IsFiniteSet(Alike(h))
    <3>1. Alike(h) \in SUBSET (DOMAIN stock)
      OBVIOUS
    <3> HIDE DEF Alike
    <3> QED BY <3>1, FS_Subset DEF TypedRows
  <2>2. \E f : f \in Surjection(Alike(h), Finals(h))
    <3> DEFINE f == [k \in Alike(h) |-> stock[k].final]
    <3> HIDE DEF Alike
    <3>1. f \in [Alike(h) -> Finals(h)] /\ \A t \in Finals(h) : \E k \in Alike(h) : f[k] = t
      OBVIOUS
    <3>2. f \in Surjection(Alike(h), Finals(h))
      <4> HIDE DEF f, Finals
      <4> QED BY <3>1 DEF Surjection
    <3> QED BY <3>2
  <2> HIDE DEF Alike, Finals
  <2> QED BY <2>1, <2>2, FS_Surjection
<1>5. Cardinality(Finals(h)) > 1 <=> \E x, y \in Finals(h) : x # y
  <2> HIDE DEF Finals
  <2> QED BY <1>4, TwoOrMore
<1>6. (\E x, y \in Finals(h) : x # y) <=>
        \E i, k \in Alike(h) : stock[i].final # stock[k].final
  <2> HIDE DEF Alike
  <2> QED OBVIOUS
<1> HIDE DEF Alike, Finals
<1>7. h \in ExactHashes(stock) <=>
        \E i \in pages : /\ stock[i].hash # None /\ stock[i].hash = h
                         /\ \E k \in pages : stock[k].hash = h /\ stock[k].final # stock[i].final
  <2>1. ExactHashes(stock) =
          {stock[i].hash : i \in {i \in DOMAIN stock :
             /\ IsPage(stock[i]) /\ stock[i].hash # None
             /\ \E k \in DOMAIN stock : /\ IsPage(stock[k]) /\ stock[k].hash = stock[i].hash
                                       /\ stock[k].final # stock[i].final}}
    BY DEF ExactHashes
  <2> QED BY <2>1
<1> QED BY <1>2, <1>3, <1>5, <1>6, <1>7

-----------------------------------------------------------------------------
(* The views, one by one: what a clause of the database store selects is   *)
(* what the memory store shows.                                            *)

LEMMA OnPage ==
  ASSUME NEW r, Typed(r), NEW c \in Truths
  PROVE  Holds(AllOf({SqlPage(r), c})) <=> IsPage(r) /\ Holds(c)
<1>1. SqlPage(r) \in Truths /\ (Holds(SqlPage(r)) <=> IsPage(r))
  BY PageMeans
<1>2. Holds(AllOf({SqlPage(r), c})) <=> Holds(SqlPage(r)) /\ Holds(c)
  BY <1>1, AllOfTwo, Zenon
<1> QED BY <1>1, <1>2

LEMMA OnRecord ==
  ASSUME NEW c \in Truths
  PROVE  Holds(AllOf({TRUE, c})) <=> Holds(c)
<1>1. TRUE \in Truths /\ Holds(TRUE)
  BY Zenon DEF Truths, Holds
<1> QED BY <1>1, AllOfTwo, Zenon

LEMMA TextViewsAgree ==
  ASSUME NEW stock, TypedRows(stock), NEW m \in DOMAIN stock, NEW shelf, shelf \in ElementViews
  PROVE  InDatabase(shelf, stock, stock[m]) <=> InMemory(shelf, stock, stock[m])
<1> DEFINE r == stock[m]
<1>0. shelf.of \in Elements
  BY DEF ElementViews, Elements
<1>1. CASE shelf.kind = "missing"
  <2> DEFINE a == r.text[shelf.of].value = None
             b == Key(r.text[shelf.of].value) = ""
  <2>0. Typed(r)
    BY DEF TypedRows
  <2>1. InMemory(shelf, stock, r) <=> IsPage(r) /\ (Key(r.text[shelf.of].value) = "")
    BY <1>1 DEF InMemory, OfPages, RecordViews
  <2>2. InDatabase(shelf, stock, r) = Holds(AllOf({SqlPage(r), AnyOf({a, b})}))
    BY <1>1 DEF InDatabase, OfPages, RecordViews
  <2>3. a \in Truths /\ (Holds(a) <=> r.text[shelf.of].value = None)
    BY PlainHolds, Zenon
  <2>4. b \in Truths /\ (Holds(b) <=> Key(r.text[shelf.of].value) = "")
    BY PlainHolds, Zenon
  <2>5. a => b
    BY KeysAreTexts
  <2> HIDE DEF a, b
  <2>6. /\ AnyOf({a, b}) \in Truths
        /\ Holds(AnyOf({a, b})) <=> Holds(a) \/ Holds(b)
    BY <2>3, <2>4, AnyOfTwo
  <2>7. InDatabase(shelf, stock, r) <=> IsPage(r) /\ Holds(AnyOf({a, b}))
    BY <2>0, <2>2, <2>6, OnPage
  <2> QED BY <2>1, <2>3, <2>4, <2>5, <2>6, <2>7 DEF a, b
<1>2. CASE shelf.kind = "duplicate"
  <2> DEFINE a == Key(r.text[shelf.of].value) \in Groups(stock, [i \in DOMAIN stock |-> Key(stock[i].text[shelf.of].value)]) \ {""}
  <2>0. Typed(r)
    BY DEF TypedRows
  <2>1. InMemory(shelf, stock, r) <=> IsPage(r) /\ (Duplicated(stock, r, shelf.of))
    BY <1>2 DEF InMemory, OfPages, RecordViews
  <2>2. InDatabase(shelf, stock, r) = Holds(AllOf({SqlPage(r), a}))
    BY <1>2 DEF InDatabase, OfPages, RecordViews
  <2>3. a \in Truths /\ (Holds(a) <=> Key(r.text[shelf.of].value) \in Groups(stock, [i \in DOMAIN stock |-> Key(stock[i].text[shelf.of].value)]) \ {""})
    <3>1. a \in BOOLEAN
      OBVIOUS
    <3> HIDE DEF a
    <3>2. a \in Truths /\ (Holds(a) <=> a)
      BY <3>1, PlainHolds
    <3> QED BY <3>2 DEF a
  <2>4. IsPage(r) => (a <=> Duplicated(stock, r, shelf.of))
    BY DuplicatesMean
  <2> HIDE DEF a
  <2>5. InDatabase(shelf, stock, r) <=> IsPage(r) /\ Holds(a)
    BY <2>0, <2>2, <2>3, OnPage
  <2> QED BY <2>1, <2>3, <2>4, <2>5 DEF a
<1>3. CASE shelf.kind = "multiple"
  <2> DEFINE a == More(r.text[shelf.of].count, 1)
  <2>0. Typed(r)
    BY DEF TypedRows
  <2>1. InMemory(shelf, stock, r) <=> IsPage(r) /\ (r.text[shelf.of].count # None /\ r.text[shelf.of].count > 1)
    BY <1>3 DEF InMemory, OfPages, RecordViews
  <2>2. InDatabase(shelf, stock, r) = Holds(AllOf({SqlPage(r), a}))
    BY <1>3 DEF InDatabase, OfPages, RecordViews
  <2>3. a \in Truths /\ (Holds(a) <=> r.text[shelf.of].count # None /\ r.text[shelf.of].count > 1)
    BY MoreHolds
  <2> HIDE DEF a
  <2>4. InDatabase(shelf, stock, r) <=> IsPage(r) /\ Holds(a)
    BY <2>0, <2>2, <2>3, OnPage
  <2> QED BY <2>1, <2>3, <2>4 DEF a
<1>4. CASE shelf.kind = "short"
  <2> DEFINE a == r.text[shelf.of].value # None
             b == Key(r.text[shelf.of].value) # ""
             d == Less(r.text[shelf.of].size, MinSize)
  <2>0. Typed(r)
    BY DEF TypedRows
  <2>1. InMemory(shelf, stock, r) <=> IsPage(r) /\ (Key(r.text[shelf.of].value) # "" /\ r.text[shelf.of].size < MinSize)
    BY <1>4 DEF InMemory, OfPages, RecordViews
  <2>2. InDatabase(shelf, stock, r) = Holds(AllOf({SqlPage(r), AllOf({a, b, d})}))
    BY <1>4 DEF InDatabase, OfPages, RecordViews
  <2>3. a \in Truths /\ (Holds(a) <=> r.text[shelf.of].value # None)
    BY PlainHolds, Zenon
  <2>4. b \in Truths /\ (Holds(b) <=> Key(r.text[shelf.of].value) # "")
    BY PlainHolds, Zenon
  <2>5. d \in Truths /\ (Holds(d) <=> r.text[shelf.of].size < MinSize)
    <3>1. r.text[shelf.of].size \in Nat /\ r.text[shelf.of].size # None
      BY <1>0, <2>0, NumbersAreNone DEF Typed
    <3> QED BY <3>1, NumbersAreNone, LessHolds
  <2>6. b => a
    BY KeysAreTexts
  <2> HIDE DEF a, b, d
  <2>7. /\ AllOf({a, b, d}) \in Truths
        /\ Holds(AllOf({a, b, d})) <=> Holds(a) /\ Holds(b) /\ Holds(d)
    BY <2>3, <2>4, <2>5, AllOfThree
  <2>8. InDatabase(shelf, stock, r) <=> IsPage(r) /\ Holds(AllOf({a, b, d}))
    BY <2>0, <2>2, <2>7, OnPage
  <2> QED BY <2>1, <2>3, <2>4, <2>5, <2>6, <2>7, <2>8 DEF a, b, d
<1>5. CASE shelf.kind = "long"
  <2> DEFINE a == More(r.text[shelf.of].size, MaxSize)
  <2>0. Typed(r)
    BY DEF TypedRows
  <2>1. InMemory(shelf, stock, r) <=> IsPage(r) /\ (r.text[shelf.of].size > MaxSize)
    BY <1>5 DEF InMemory, OfPages, RecordViews
  <2>2. InDatabase(shelf, stock, r) = Holds(AllOf({SqlPage(r), a}))
    BY <1>5 DEF InDatabase, OfPages, RecordViews
  <2>3. a \in Truths /\ (Holds(a) <=> r.text[shelf.of].size > MaxSize)
    <3>1. r.text[shelf.of].size \in Nat /\ r.text[shelf.of].size # None
      BY <1>0, <2>0, NumbersAreNone DEF Typed
    <3> QED BY <3>1, NumbersAreNone, MoreHolds
  <2> HIDE DEF a
  <2>4. InDatabase(shelf, stock, r) <=> IsPage(r) /\ Holds(a)
    BY <2>0, <2>2, <2>3, OnPage
  <2> QED BY <2>1, <2>3, <2>4 DEF a
<1> QED BY <1>1, <1>2, <1>3, <1>4, <1>5 DEF ElementViews

LEMMA PageViewsAgree ==
  ASSUME NEW stock, TypedRows(stock), NEW m \in DOMAIN stock, NEW shelf, shelf.kind \in PageViews
  PROVE  InDatabase(shelf, stock, stock[m]) <=> InMemory(shelf, stock, stock[m])
<1> DEFINE r == stock[m]
<1>0. Typed(r)
  BY DEF TypedRows
<1>1. CASE shelf.kind = "title is h1"
  <2> DEFINE a == r.text["title"].value # None
             b == r.text["h1"].value # None
             d == Key(r.text["title"].value) # ""
             e == Key(r.text["title"].value) = Key(r.text["h1"].value)
  <2>1. InMemory(shelf, stock, r) <=> IsPage(r) /\ (Key(r.text["title"].value) # "" /\ Key(r.text["title"].value) = Key(r.text["h1"].value))
    BY <1>1 DEF InMemory, OfPages, RecordViews
  <2>2. InDatabase(shelf, stock, r) = Holds(AllOf({SqlPage(r), AllOf({a, b, d, e})}))
    BY <1>1 DEF InDatabase, OfPages, RecordViews
  <2>3. a \in Truths /\ (Holds(a) <=> r.text["title"].value # None)
    BY PlainHolds, Zenon
  <2>4. b \in Truths /\ (Holds(b) <=> r.text["h1"].value # None)
    BY PlainHolds, Zenon
  <2>5. d \in Truths /\ (Holds(d) <=> Key(r.text["title"].value) # "")
    BY PlainHolds, Zenon
  <2>6. e \in Truths /\ (Holds(e) <=> Key(r.text["title"].value) = Key(r.text["h1"].value))
    BY PlainHolds, Zenon
  <2>7. d /\ e => a /\ b
    BY KeysAreTexts
  <2> HIDE DEF a, b, d, e
  <2>8. /\ AllOf({a, b, d, e}) \in Truths
        /\ Holds(AllOf({a, b, d, e})) <=> Holds(a) /\ Holds(b) /\ Holds(d) /\ Holds(e)
    BY <2>3, <2>4, <2>5, <2>6, AllOfFour
  <2>9. InDatabase(shelf, stock, r) <=> IsPage(r) /\ Holds(AllOf({a, b, d, e}))
    BY <1>0, <2>2, <2>8, OnPage
  <2> QED BY <2>1, <2>3, <2>4, <2>5, <2>6, <2>7, <2>8, <2>9 DEF a, b, d, e
<1>2. CASE shelf.kind = "no canonical"
  <2> DEFINE a == r.canonical = None
  <2>1. InMemory(shelf, stock, r) <=> IsPage(r) /\ (r.canonical = None)
    BY <1>2 DEF InMemory, OfPages, RecordViews
  <2>2. InDatabase(shelf, stock, r) = Holds(AllOf({SqlPage(r), a}))
    BY <1>2 DEF InDatabase, OfPages, RecordViews
  <2>3. a \in Truths /\ (Holds(a) <=> r.canonical = None)
    BY PlainHolds, Zenon
  <2> HIDE DEF a
  <2>4. InDatabase(shelf, stock, r) <=> IsPage(r) /\ Holds(a)
    BY <1>0, <2>2, <2>3, OnPage
  <2> QED BY <2>1, <2>3, <2>4 DEF a
<1>3. CASE shelf.kind = "canonicals"
  <2> DEFINE a == More(r.canonicals, 1)
  <2>1. InMemory(shelf, stock, r) <=> IsPage(r) /\ (r.canonicals > 1)
    BY <1>3 DEF InMemory, OfPages, RecordViews
  <2>2. InDatabase(shelf, stock, r) = Holds(AllOf({SqlPage(r), a}))
    BY <1>3 DEF InDatabase, OfPages, RecordViews
  <2>3. a \in Truths /\ (Holds(a) <=> r.canonicals > 1)
    <3>1. r.canonicals \in Nat /\ r.canonicals # None
      BY <1>0, NumbersAreNone DEF Typed
    <3> QED BY <3>1, NumbersAreNone, MoreHolds
  <2> HIDE DEF a
  <2>4. InDatabase(shelf, stock, r) <=> IsPage(r) /\ Holds(a)
    BY <1>0, <2>2, <2>3, OnPage
  <2> QED BY <2>1, <2>3, <2>4 DEF a
<1>4. CASE shelf.kind = "paginations"
  <2> DEFINE a == Cardinality(r.next) > 1
             b == Cardinality(r.prev) > 1
  <2>1. InMemory(shelf, stock, r) <=> IsPage(r) /\ (Cardinality(r.next) > 1 \/ Cardinality(r.prev) > 1)
    BY <1>4 DEF InMemory, OfPages, RecordViews
  <2>2. InDatabase(shelf, stock, r) = Holds(AllOf({SqlPage(r), AnyOf({a, b})}))
    BY <1>4 DEF InDatabase, OfPages, RecordViews
  <2>3. a \in Truths /\ (Holds(a) <=> Cardinality(r.next) > 1)
    <3>1. a \in BOOLEAN
      OBVIOUS
    <3> HIDE DEF a
    <3>2. a \in Truths /\ (Holds(a) <=> a)
      BY <3>1, PlainHolds
    <3> QED BY <3>2 DEF a
  <2>4. b \in Truths /\ (Holds(b) <=> Cardinality(r.prev) > 1)
    <3>1. b \in BOOLEAN
      OBVIOUS
    <3> HIDE DEF b
    <3>2. b \in Truths /\ (Holds(b) <=> b)
      BY <3>1, PlainHolds
    <3> QED BY <3>2 DEF b
  <2> HIDE DEF a, b
  <2>5. /\ AnyOf({a, b}) \in Truths
        /\ Holds(AnyOf({a, b})) <=> Holds(a) \/ Holds(b)
    BY <2>3, <2>4, AnyOfTwo
  <2>6. InDatabase(shelf, stock, r) <=> IsPage(r) /\ Holds(AnyOf({a, b}))
    BY <1>0, <2>2, <2>5, OnPage
  <2> QED BY <2>1, <2>3, <2>4, <2>5, <2>6 DEF a, b
<1>5. CASE shelf.kind = "amps"
  <2> DEFINE a == Cardinality(r.amp) > 1
  <2>1. InMemory(shelf, stock, r) <=> IsPage(r) /\ (Cardinality(r.amp) > 1)
    BY <1>5 DEF InMemory, OfPages, RecordViews
  <2>2. InDatabase(shelf, stock, r) = Holds(AllOf({SqlPage(r), a}))
    BY <1>5 DEF InDatabase, OfPages, RecordViews
  <2>3. a \in Truths /\ (Holds(a) <=> Cardinality(r.amp) > 1)
    <3>1. a \in BOOLEAN
      OBVIOUS
    <3> HIDE DEF a
    <3>2. a \in Truths /\ (Holds(a) <=> a)
      BY <3>1, PlainHolds
    <3> QED BY <3>2 DEF a
  <2> HIDE DEF a
  <2>4. InDatabase(shelf, stock, r) <=> IsPage(r) /\ Holds(a)
    BY <1>0, <2>2, <2>3, OnPage
  <2> QED BY <2>1, <2>3, <2>4 DEF a
<1>6. CASE shelf.kind = "evidence"
  <2> DEFINE a == More(r.evidence, 0)
  <2>1. InMemory(shelf, stock, r) <=> IsPage(r) /\ (r.evidence > 0)
    BY <1>6 DEF InMemory, OfPages, RecordViews
  <2>2. InDatabase(shelf, stock, r) = Holds(AllOf({SqlPage(r), a}))
    BY <1>6 DEF InDatabase, OfPages, RecordViews
  <2>3. a \in Truths /\ (Holds(a) <=> r.evidence > 0)
    <3>1. r.evidence \in Nat /\ r.evidence # None
      BY <1>0, NumbersAreNone DEF Typed
    <3> QED BY <3>1, NumbersAreNone, MoreHolds
  <2> HIDE DEF a
  <2>4. InDatabase(shelf, stock, r) <=> IsPage(r) /\ Holds(a)
    BY <1>0, <2>2, <2>3, OnPage
  <2> QED BY <2>1, <2>3, <2>4 DEF a
<1>7. CASE shelf.kind = "unsafe page"
  <2> DEFINE a == SqlSuccess(r)
             b == SqlHtml(r)
             d == ~r.secure
  <2>1. InMemory(shelf, stock, r) <=> IsPage(r) /\ (~r.secure)
    BY <1>7 DEF InMemory, OfPages, RecordViews
  <2>2. InDatabase(shelf, stock, r) = Holds(AllOf({SqlPage(r), AllOf({a, b, d})}))
    BY <1>7 DEF InDatabase, OfPages, RecordViews
  <2>3. a \in Truths /\ (Holds(a) <=> IsSuccess(r))
    BY SuccessMeans
  <2>4. b \in Truths /\ (Holds(b) <=> r.type = "html")
    BY HtmlMeans
  <2>5. d \in Truths /\ (Holds(d) <=> ~r.secure)
    BY PlainHolds, Zenon
  <2>6. IsPage(r) => IsSuccess(r) /\ r.type = "html"
    BY DEF IsPage
  <2> HIDE DEF a, b, d
  <2>7. /\ AllOf({a, b, d}) \in Truths
        /\ Holds(AllOf({a, b, d})) <=> Holds(a) /\ Holds(b) /\ Holds(d)
    BY <2>3, <2>4, <2>5, AllOfThree
  <2>8. InDatabase(shelf, stock, r) <=> IsPage(r) /\ Holds(AllOf({a, b, d}))
    BY <1>0, <2>2, <2>7, OnPage
  <2> QED BY <2>1, <2>3, <2>4, <2>5, <2>6, <2>7, <2>8 DEF a, b, d
<1>8. CASE shelf.kind = "no doctype"
  <2> DEFINE a == Same(r.doctype, FALSE)
  <2>1. InMemory(shelf, stock, r) <=> IsPage(r) /\ (r.doctype = FALSE)
    BY <1>8 DEF InMemory, OfPages, RecordViews
  <2>2. InDatabase(shelf, stock, r) = Holds(AllOf({SqlPage(r), a}))
    BY <1>8 DEF InDatabase, OfPages, RecordViews
  <2>3. a \in Truths /\ (Holds(a) <=> r.doctype = FALSE)
    BY SameHolds, NullIsNoTruth
  <2> HIDE DEF a
  <2>4. InDatabase(shelf, stock, r) <=> IsPage(r) /\ Holds(a)
    BY <1>0, <2>2, <2>3, OnPage
  <2> QED BY <2>1, <2>3, <2>4 DEF a
<1>9. CASE shelf.kind = "near duplicate"
  <2> DEFINE a == r.cluster # None
             b == r.cluster \in Groups(stock, [i \in DOMAIN stock |-> stock[i].cluster]) \ {None}
  <2>1. InMemory(shelf, stock, r) <=> IsPage(r) /\ (InCluster(stock, r))
    BY <1>9 DEF InMemory, OfPages, RecordViews
  <2>2. InDatabase(shelf, stock, r) = Holds(AllOf({SqlPage(r), AllOf({a, b})}))
    BY <1>9 DEF InDatabase, OfPages, RecordViews
  <2>3. a \in Truths /\ (Holds(a) <=> r.cluster # None)
    BY PlainHolds, Zenon
  <2>4. b \in Truths /\ (Holds(b) <=> r.cluster \in Groups(stock, [i \in DOMAIN stock |-> stock[i].cluster]) \ {None})
    <3>1. b \in BOOLEAN
      OBVIOUS
    <3> HIDE DEF b
    <3>2. b \in Truths /\ (Holds(b) <=> b)
      BY <3>1, PlainHolds
    <3> QED BY <3>2 DEF b
  <2>5. IsPage(r) => (a /\ b <=> InCluster(stock, r))
    BY ClustersMean
  <2> HIDE DEF a, b
  <2>6. /\ AllOf({a, b}) \in Truths
        /\ Holds(AllOf({a, b})) <=> Holds(a) /\ Holds(b)
    BY <2>3, <2>4, AllOfTwo
  <2>7. InDatabase(shelf, stock, r) <=> IsPage(r) /\ Holds(AllOf({a, b}))
    BY <1>0, <2>2, <2>6, OnPage
  <2> QED BY <2>1, <2>3, <2>4, <2>5, <2>6, <2>7 DEF a, b
<1>10. CASE shelf.kind = "exact duplicate"
  <2> DEFINE a == \E i \in SqlExact(stock) : stock[i].url = r.url
  <2>1. InMemory(shelf, stock, r) <=> IsPage(r) /\ (r.hash \in ExactHashes(stock))
    BY <1>10 DEF InMemory, OfPages, RecordViews
  <2>2. InDatabase(shelf, stock, r) = Holds(AllOf({SqlPage(r), a}))
    BY <1>10 DEF InDatabase, OfPages, RecordViews
  <2>3. a \in Truths /\ (Holds(a) <=> \E i \in SqlExact(stock) : stock[i].url = r.url)
    BY PlainHolds, Zenon
  <2>4. IsPage(r) => (a <=> r.hash \in ExactHashes(stock))
    BY HashesMean
  <2> HIDE DEF a
  <2>5. InDatabase(shelf, stock, r) <=> IsPage(r) /\ Holds(a)
    BY <1>0, <2>2, <2>3, OnPage
  <2> QED BY <2>1, <2>3, <2>4, <2>5 DEF a
<1>11. CASE shelf.kind = "thin"
  <2> DEFINE a == Less(r.words, ThinWords)
  <2>1. InMemory(shelf, stock, r) <=> IsPage(r) /\ (r.words < ThinWords)
    BY <1>11 DEF InMemory, OfPages, RecordViews
  <2>2. InDatabase(shelf, stock, r) = Holds(AllOf({SqlPage(r), a}))
    BY <1>11 DEF InDatabase, OfPages, RecordViews
  <2>3. a \in Truths /\ (Holds(a) <=> r.words < ThinWords)
    <3>1. r.words \in Nat /\ r.words # None
      BY <1>0, NumbersAreNone DEF Typed
    <3> QED BY <3>1, NumbersAreNone, LessHolds
  <2> HIDE DEF a
  <2>4. InDatabase(shelf, stock, r) <=> IsPage(r) /\ Holds(a)
    BY <1>0, <2>2, <2>3, OnPage
  <2> QED BY <2>1, <2>3, <2>4 DEF a
<1> QED BY <1>1, <1>2, <1>3, <1>4, <1>5, <1>6, <1>7, <1>8, <1>9, <1>10, <1>11 DEF PageViews

LEMMA RecordViewsAgree ==
  ASSUME NEW stock, TypedRows(stock), NEW m \in DOMAIN stock, NEW shelf, shelf.kind \in RecordViews
  PROVE  InDatabase(shelf, stock, stock[m]) <=> InMemory(shelf, stock, stock[m])
<1> DEFINE r == stock[m]
<1>0. Typed(r)
  BY DEF TypedRows
<1>1. CASE shelf.kind = "internal"
  <2> DEFINE a == r.internal
  <2>1. InMemory(shelf, stock, r) <=> (r.internal)
    BY <1>1 DEF InMemory, OfPages, RecordViews
  <2>2. InDatabase(shelf, stock, r) = Holds(AllOf({TRUE, a}))
    BY <1>1 DEF InDatabase, OfPages, RecordViews
  <2>3. a \in Truths /\ (Holds(a) <=> r.internal)
    BY <1>0, PlainHolds, Zenon DEF Typed
  <2> HIDE DEF a
  <2>4. InDatabase(shelf, stock, r) <=> Holds(a)
    BY <1>0, <2>2, <2>3, OnRecord
  <2> QED BY <2>1, <2>3, <2>4 DEF a
<1>2. CASE shelf.kind = "2xx"
  <2> DEFINE a == More(r.status, 199)
             b == Less(r.status, 300)
  <2>1. InMemory(shelf, stock, r) <=> (IsSuccess(r))
    BY <1>2 DEF InMemory, OfPages, RecordViews
  <2>2. InDatabase(shelf, stock, r) = Holds(AllOf({TRUE, AllOf({a, b})}))
    BY <1>2 DEF InDatabase, OfPages, RecordViews
  <2>3. a \in Truths /\ (Holds(a) <=> r.status # None /\ r.status > 199)
    BY MoreHolds
  <2>4. b \in Truths /\ (Holds(b) <=> r.status # None /\ r.status < 300)
    BY LessHolds
  <2>5. IsSuccess(r) <=> r.status # None /\ r.status > 199 /\ r.status < 300
    BY <1>0, StatusIsNumber DEF IsSuccess
  <2> HIDE DEF a, b
  <2>6. /\ AllOf({a, b}) \in Truths
        /\ Holds(AllOf({a, b})) <=> Holds(a) /\ Holds(b)
    BY <2>3, <2>4, AllOfTwo
  <2>7. InDatabase(shelf, stock, r) <=> Holds(AllOf({a, b}))
    BY <1>0, <2>2, <2>6, OnRecord
  <2> QED BY <2>1, <2>3, <2>4, <2>5, <2>6, <2>7 DEF a, b
<1>3. CASE shelf.kind = "3xx"
  <2> DEFINE a == SqlRedirect(r)
             b == r.chain # <<>>
  <2>1. InMemory(shelf, stock, r) <=> (r.chain # <<>> \/ IsRedirect(r))
    BY <1>3 DEF InMemory, OfPages, RecordViews
  <2>2. InDatabase(shelf, stock, r) = Holds(AllOf({TRUE, AnyOf({a, b})}))
    BY <1>3 DEF InDatabase, OfPages, RecordViews
  <2>3. a \in Truths /\ (Holds(a) <=> IsRedirect(r))
    BY RedirectMeans
  <2>4. b \in Truths /\ (Holds(b) <=> r.chain # <<>>)
    BY PlainHolds, Zenon
  <2> HIDE DEF a, b
  <2>5. /\ AnyOf({a, b}) \in Truths
        /\ Holds(AnyOf({a, b})) <=> Holds(a) \/ Holds(b)
    BY <2>3, <2>4, AnyOfTwo
  <2>6. InDatabase(shelf, stock, r) <=> Holds(AnyOf({a, b}))
    BY <1>0, <2>2, <2>5, OnRecord
  <2> QED BY <2>1, <2>3, <2>4, <2>5, <2>6 DEF a, b
<1>4. CASE shelf.kind = "4xx"
  <2> DEFINE a == More(r.status, 399)
             b == Less(r.status, 500)
  <2>1. InMemory(shelf, stock, r) <=> (r.status # None /\ r.status \in 400..499)
    BY <1>4 DEF InMemory, OfPages, RecordViews
  <2>2. InDatabase(shelf, stock, r) = Holds(AllOf({TRUE, AllOf({a, b})}))
    BY <1>4 DEF InDatabase, OfPages, RecordViews
  <2>3. a \in Truths /\ (Holds(a) <=> r.status # None /\ r.status > 399)
    BY MoreHolds
  <2>4. b \in Truths /\ (Holds(b) <=> r.status # None /\ r.status < 500)
    BY LessHolds
  <2>5. r.status # None => (r.status \in 400..499 <=> r.status > 399 /\ r.status < 500)
    BY <1>0, StatusIsNumber
  <2> HIDE DEF a, b
  <2>6. /\ AllOf({a, b}) \in Truths
        /\ Holds(AllOf({a, b})) <=> Holds(a) /\ Holds(b)
    BY <2>3, <2>4, AllOfTwo
  <2>7. InDatabase(shelf, stock, r) <=> Holds(AllOf({a, b}))
    BY <1>0, <2>2, <2>6, OnRecord
  <2> QED BY <2>1, <2>3, <2>4, <2>5, <2>6, <2>7 DEF a, b
<1>5. CASE shelf.kind = "5xx"
  <2> DEFINE a == More(r.status, 499)
  <2>1. InMemory(shelf, stock, r) <=> (r.status # None /\ r.status >= 500)
    BY <1>5 DEF InMemory, OfPages, RecordViews
  <2>2. InDatabase(shelf, stock, r) = Holds(AllOf({TRUE, a}))
    BY <1>5 DEF InDatabase, OfPages, RecordViews
  <2>3. a \in Truths /\ (Holds(a) <=> r.status # None /\ r.status > 499)
    BY MoreHolds
  <2>4. r.status # None => (r.status >= 500 <=> r.status > 499)
    BY <1>0, StatusIsNumber
  <2> HIDE DEF a
  <2>5. InDatabase(shelf, stock, r) <=> Holds(a)
    BY <1>0, <2>2, <2>3, OnRecord
  <2> QED BY <2>1, <2>3, <2>4, <2>5 DEF a
<1>6. CASE shelf.kind = "no response"
  <2> DEFINE a == SqlNoResponse(r)
  <2>1. InMemory(shelf, stock, r) <=> (IsNoResponse(r))
    BY <1>6 DEF InMemory, OfPages, RecordViews
  <2>2. InDatabase(shelf, stock, r) = Holds(AllOf({TRUE, a}))
    BY <1>6 DEF InDatabase, OfPages, RecordViews
  <2>3. a \in Truths /\ (Holds(a) <=> IsNoResponse(r))
    BY <1>0, NoResponseMeans
  <2> HIDE DEF a
  <2>4. InDatabase(shelf, stock, r) <=> Holds(a)
    BY <1>0, <2>2, <2>3, OnRecord
  <2> QED BY <2>1, <2>3, <2>4 DEF a
<1>7. CASE shelf.kind = "broken"
  <2> DEFINE a == SqlBroken(r)
  <2>1. InMemory(shelf, stock, r) <=> (IsBroken(r))
    BY <1>7 DEF InMemory, OfPages, RecordViews
  <2>2. InDatabase(shelf, stock, r) = Holds(AllOf({TRUE, a}))
    BY <1>7 DEF InDatabase, OfPages, RecordViews
  <2>3. a \in Truths /\ (Holds(a) <=> IsBroken(r))
    BY <1>0, BrokenMeans
  <2> HIDE DEF a
  <2>4. InDatabase(shelf, stock, r) <=> Holds(a)
    BY <1>0, <2>2, <2>3, OnRecord
  <2> QED BY <2>1, <2>3, <2>4 DEF a
<1>8. CASE shelf.kind = "noindex"
  <2> DEFINE a == Within(r.indexStatus, {"X-Robots-Tag noindex", "Meta robots noindex"})
  <2>1. InMemory(shelf, stock, r) <=> (r.indexStatus \in {"X-Robots-Tag noindex", "Meta robots noindex"})
    BY <1>8 DEF InMemory, OfPages, RecordViews
  <2>2. InDatabase(shelf, stock, r) = Holds(AllOf({TRUE, a}))
    BY <1>8 DEF InDatabase, OfPages, RecordViews
  <2>3. a \in Truths /\ (Holds(a) <=> r.indexStatus \in {"X-Robots-Tag noindex", "Meta robots noindex"})
    <3>1. r.indexStatus # None
      BY <1>0 DEF Typed
    <3> QED BY <3>1, WithinHolds
  <2> HIDE DEF a
  <2>4. InDatabase(shelf, stock, r) <=> Holds(a)
    BY <1>0, <2>2, <2>3, OnRecord
  <2> QED BY <2>1, <2>3, <2>4 DEF a
<1>9. CASE shelf.kind = "unsafe answer"
  <2> DEFINE a == SqlSuccess(r)
             b == ~r.secure
  <2>1. InMemory(shelf, stock, r) <=> (IsSuccess(r) /\ ~r.secure)
    BY <1>9 DEF InMemory, OfPages, RecordViews
  <2>2. InDatabase(shelf, stock, r) = Holds(AllOf({TRUE, AllOf({a, b})}))
    BY <1>9 DEF InDatabase, OfPages, RecordViews
  <2>3. a \in Truths /\ (Holds(a) <=> IsSuccess(r))
    BY SuccessMeans
  <2>4. b \in Truths /\ (Holds(b) <=> ~r.secure)
    BY PlainHolds, Zenon
  <2> HIDE DEF a, b
  <2>5. /\ AllOf({a, b}) \in Truths
        /\ Holds(AllOf({a, b})) <=> Holds(a) /\ Holds(b)
    BY <2>3, <2>4, AllOfTwo
  <2>6. InDatabase(shelf, stock, r) <=> Holds(AllOf({a, b}))
    BY <1>0, <2>2, <2>5, OnRecord
  <2> QED BY <2>1, <2>3, <2>4, <2>5, <2>6 DEF a, b
<1> QED BY <1>1, <1>2, <1>3, <1>4, <1>5, <1>6, <1>7, <1>8, <1>9 DEF RecordViews

-----------------------------------------------------------------------------
(* Both stores show the same, and the counters of the summary count it.    *)

LEMMA ViewsAreRecords ==
  ASSUME NEW shelf \in Views
  PROVE  /\ shelf = View(shelf.kind, shelf.of)
         /\ shelf \in ElementViews \/ shelf.kind \in PageViews \/ shelf.kind \in RecordViews
         /\ shelf \notin ElementViews => shelf.of = "-"
         /\ shelf \in ElementViews <=> shelf.of # "-"
<1>1. CASE shelf \in ElementViews
  BY <1>1 DEF ElementViews, Elements, View
<1>2. CASE shelf \in [kind : PageViews \cup RecordViews, of : {"-"}]
  <2>1. shelf.of = "-" /\ shelf.kind \in PageViews \cup RecordViews /\ shelf = View(shelf.kind, shelf.of)
    BY <1>2 DEF View
  <2>2. shelf \notin ElementViews
    BY <2>1 DEF ElementViews, Elements
  <2> QED BY <2>1, <2>2
<1> QED BY <1>1, <1>2 DEF Views

(* Both stores put a record into the same views.                           *)
LEMMA StoresAgreeOnViews ==
  ASSUME NEW stock, TypedRows(stock), NEW m \in DOMAIN stock, NEW shelf \in Views
  PROVE  InDatabase(shelf, stock, stock[m]) <=> InMemory(shelf, stock, stock[m])
BY ViewsAreRecords, TextViewsAgree, PageViewsAgree, RecordViewsAgree

LEMMA CountersAgree ==
  ASSUME NEW stock, NEW r, NEW shelf \in Counters
  PROVE  Counted(shelf, stock, r) <=> InMemory(shelf, stock, r)
<1>1. CASE shelf.kind = "missing"
  BY <1>1 DEF Counted, InMemory
<1>2. CASE shelf.kind = "duplicate"
  BY <1>2 DEF Counted, InMemory, Duplicated
<1>3. CASE shelf.kind = "2xx"
  BY <1>3 DEF Counted, InMemory, IsSuccess
<1>4. CASE shelf.kind = "unsafe page"
  BY <1>4 DEF Counted, InMemory
<1>5. CASE shelf.kind \notin {"missing", "duplicate", "2xx", "unsafe page"}
  <2>1. Counted(shelf, stock, r) <=> (OfPages(shelf) => IsPage(r)) /\ InMemory(shelf, stock, r)
    BY <1>5 DEF Counted
  <2>2. InMemory(shelf, stock, r) => (OfPages(shelf) => IsPage(r))
    BY DEF InMemory
  <2> QED BY <2>1, <2>2
<1> QED BY <1>1, <1>2, <1>3, <1>4, <1>5

(* What a report says of a record.                                         *)
LEMMA IssueIs ==
  ASSUME NEW shelf \in Views, NEW kind, NEW c \in BOOLEAN
  PROVE  shelf \in Issue(kind, c) <=> c /\ shelf.kind = kind /\ shelf.of = "-"
<1>1. shelf = View(shelf.kind, shelf.of)
  BY ViewsAreRecords
<1>2. shelf = View(kind, "-") <=> shelf.kind = kind /\ shelf.of = "-"
  BY <1>1 DEF View
<1> QED BY <1>2 DEF Issue

LEMMA TextIssueIs ==
  ASSUME NEW shelf \in Views, NEW kind, NEW e, NEW c \in BOOLEAN
  PROVE  shelf \in TextIssue(kind, e, c) <=> c /\ shelf.kind = kind /\ shelf.of = e
<1>1. shelf = View(shelf.kind, shelf.of)
  BY ViewsAreRecords
<1>2. shelf = View(kind, e) <=> shelf.kind = kind /\ shelf.of = e
  BY <1>1 DEF View
<1> QED BY <1>2 DEF TextIssue

LEMMA MissingIs ==
  ASSUME NEW shelf \in Views, NEW e
  PROVE  shelf \in {View("missing", e)} <=> shelf.kind = "missing" /\ shelf.of = e
BY ViewsAreRecords DEF View

LEMMA TextIssuesAre ==
  ASSUME NEW stock, NEW r, NEW e, NEW shelf \in Views
  PROVE  shelf \in TextIssues(stock, r, e) <=>
           /\ shelf.of = e
           /\ \/ /\ shelf.kind = "multiple" /\ e \in {"title", "meta"}
                 /\ r.text[e].count # None /\ r.text[e].count > 1
              \/ shelf.kind = "missing" /\ Key(r.text[e].value) = ""
              \/ shelf.kind = "duplicate" /\ Duplicated(stock, r, e)
              \/ /\ shelf.kind = "short" /\ e \in {"title", "meta"}
                 /\ Key(r.text[e].value) # "" /\ r.text[e].size < MinSize
              \/ shelf.kind = "long" /\ Key(r.text[e].value) # "" /\ r.text[e].size > MaxSize
<1> DEFINE blank == Key(r.text[e].value) = ""
           A == TextIssue("multiple", e, e \in {"title", "meta"} /\ r.text[e].count # None /\ r.text[e].count > 1)
           B == TextIssue("duplicate", e, Cardinality(SameKey(stock, e, Key(r.text[e].value))) > 1)
           C == TextIssue("short", e, e \in {"title", "meta"} /\ r.text[e].size < MinSize)
           D == TextIssue("long", e, r.text[e].size > MaxSize)
<1>1. TextIssues(stock, r, e) = A \cup (IF blank THEN {View("missing", e)} ELSE B \cup C \cup D)
  BY DEF TextIssues
<1>2. shelf \in A <=> /\ e \in {"title", "meta"} /\ r.text[e].count # None /\ r.text[e].count > 1
                     /\ shelf.kind = "multiple" /\ shelf.of = e
  BY TextIssueIs
<1>3. shelf \in B <=> /\ Cardinality(SameKey(stock, e, Key(r.text[e].value))) > 1
                     /\ shelf.kind = "duplicate" /\ shelf.of = e
  <2> DEFINE c == Cardinality(SameKey(stock, e, Key(r.text[e].value))) > 1
  <2>1. c \in BOOLEAN
    OBVIOUS
  <2> HIDE DEF c
  <2>2. shelf \in TextIssue("duplicate", e, c) <=> c /\ shelf.kind = "duplicate" /\ shelf.of = e
    BY <2>1, TextIssueIs
  <2> QED BY <2>2 DEF c
<1>4. shelf \in C <=> /\ e \in {"title", "meta"} /\ r.text[e].size < MinSize
                     /\ shelf.kind = "short" /\ shelf.of = e
  BY TextIssueIs
<1>5. shelf \in D <=> r.text[e].size > MaxSize /\ shelf.kind = "long" /\ shelf.of = e
  <2> DEFINE c == r.text[e].size > MaxSize
  <2>1. c \in BOOLEAN
    OBVIOUS
  <2> HIDE DEF c
  <2>2. shelf \in TextIssue("long", e, c) <=> c /\ shelf.kind = "long" /\ shelf.of = e
    BY <2>1, TextIssueIs
  <2> QED BY <2>2 DEF c
<1>6. shelf \in {View("missing", e)} <=> shelf.kind = "missing" /\ shelf.of = e
  BY MissingIs
<1>7. Duplicated(stock, r, e) <=>
        ~blank /\ Cardinality(SameKey(stock, e, Key(r.text[e].value))) > 1
  BY DEF Duplicated
<1> HIDE DEF A, B, C, D
<1> QED BY <1>1, <1>2, <1>3, <1>4, <1>5, <1>6, <1>7

-----------------------------------------------------------------------------
(* What a report says of a record is what the view of that issue shows.    *)

LEMMA ResponseIssuesAre ==
  ASSUME NEW r, NEW shelf \in Views
  PROVE  shelf \in ResponseIssues(r) <=>
           /\ shelf.of = "-"
           /\ \/ shelf.kind = "no response" /\ r.status = None /\ IsNoResponse(r)
              \/ /\ shelf.kind = "broken" /\ r.status # None
                 /\ r.status >= 400 \/ (r.status \in 300..399 /\ r.error # None)
<1> DEFINE c == r.status >= 400 \/ (r.status \in 300..399 /\ r.error # None)
<1>1. c \in BOOLEAN /\ IsNoResponse(r) \in BOOLEAN
  BY DEF IsNoResponse
<1>2. ResponseIssues(r) = IF r.status = None THEN Issue("no response", IsNoResponse(r)) ELSE Issue("broken", c)
  BY DEF ResponseIssues
<1> HIDE DEF c
<1>3. shelf \in Issue("no response", IsNoResponse(r)) <=> IsNoResponse(r) /\ shelf.kind = "no response" /\ shelf.of = "-"
  BY <1>1, IssueIs
<1>4. shelf \in Issue("broken", c) <=> c /\ shelf.kind = "broken" /\ shelf.of = "-"
  BY <1>1, IssueIs
<1>5. shelf \in ResponseIssues(r) <=>
           /\ shelf.of = "-"
           /\ \/ shelf.kind = "no response" /\ r.status = None /\ IsNoResponse(r)
              \/ shelf.kind = "broken" /\ r.status # None /\ c
  BY <1>2, <1>3, <1>4
<1> QED BY <1>5 DEF c

LEMMA DirectiveIssuesAre ==
  ASSUME NEW r, NEW shelf \in Views
  PROVE  shelf \in DirectiveIssues(r) <=>
           /\ shelf.of = "-" /\ shelf.kind = "noindex"
           /\ r.indexStatus \in {"X-Robots-Tag noindex", "Meta robots noindex"}
<1> DEFINE c == r.indexStatus \in {"X-Robots-Tag noindex", "Meta robots noindex"}
<1>1. c \in BOOLEAN
  OBVIOUS
<1>2. DirectiveIssues(r) = Issue("noindex", c)
  BY DEF DirectiveIssues
<1> HIDE DEF c
<1>3. shelf \in Issue("noindex", c) <=> c /\ shelf.kind = "noindex" /\ shelf.of = "-"
  BY <1>1, IssueIs
<1> QED BY <1>2, <1>3 DEF c

LEMMA SecurityIssuesAre ==
  ASSUME NEW r, NEW shelf \in Views
  PROVE  shelf \in SecurityIssues(r) <=>
           /\ shelf.of = "-"
           /\ \/ shelf.kind = "unsafe answer" /\ IsSuccess(r) /\ ~r.secure
              \/ shelf.kind = "unsafe page" /\ IsPage(r) /\ ~r.secure
              \/ shelf.kind = "evidence" /\ IsPage(r) /\ r.evidence > 0
<1> DEFINE A == IsSuccess(r) /\ ~r.secure
           B == IsPage(r) /\ ~r.secure
           C == IsPage(r) /\ r.evidence > 0
<1>1. A \in BOOLEAN /\ B \in BOOLEAN /\ C \in BOOLEAN
  OBVIOUS
<1>2. SecurityIssues(r) = Issue("unsafe answer", A) \cup Issue("unsafe page", B) \cup Issue("evidence", C)
  BY DEF SecurityIssues
<1> HIDE DEF A, B, C
<1>3. shelf \in Issue("unsafe answer", A) <=> A /\ shelf.kind = "unsafe answer" /\ shelf.of = "-"
  BY <1>1, IssueIs
<1>4. shelf \in Issue("unsafe page", B) <=> B /\ shelf.kind = "unsafe page" /\ shelf.of = "-"
  BY <1>1, IssueIs
<1>5. shelf \in Issue("evidence", C) <=> C /\ shelf.kind = "evidence" /\ shelf.of = "-"
  BY <1>1, IssueIs
<1>6. shelf \in SecurityIssues(r) <=>
           /\ shelf.of = "-"
           /\ \/ shelf.kind = "unsafe answer" /\ A
              \/ shelf.kind = "unsafe page" /\ B
              \/ shelf.kind = "evidence" /\ C
  BY <1>2, <1>3, <1>4, <1>5
<1> QED BY <1>6 DEF A, B, C

LEMMA InPageIssues ==
  ASSUME NEW stock, NEW r, NEW shelf
  PROVE  shelf \in PageIssues(stock, r) <=>
           \/ \E e \in Elements : shelf \in TextIssues(stock, r, e)
           \/ shelf \in Issue("title is h1", Key(r.text["title"].value) # "" /\ Key(r.text["title"].value) = Key(r.text["h1"].value))
           \/ shelf \in Issue("no canonical", r.canonical = None)
           \/ shelf \in Issue("canonicals", r.canonicals > 1)
           \/ shelf \in Issue("thin", r.words < ThinWords)
           \/ shelf \in Issue("evidence", r.evidence > 0)
           \/ shelf \in Issue("no doctype", r.doctype = FALSE)
           \/ shelf \in Issue("paginations", Cardinality(r.next) > 1 \/ Cardinality(r.prev) > 1)
           \/ shelf \in Issue("amps", Cardinality(r.amp) > 1)
           \/ shelf \in Issue("near duplicate", r.cluster # None /\ Cardinality(SameCluster(stock, r.cluster)) > 1)
           \/ shelf \in Issue("exact duplicate", r.hash \in ExactHashes(stock))
<1> DEFINE A == Issue("title is h1", Key(r.text["title"].value) # "" /\ Key(r.text["title"].value) = Key(r.text["h1"].value))
           P == Issue("paginations", Cardinality(r.next) > 1 \/ Cardinality(r.prev) > 1)
           M == Issue("amps", Cardinality(r.amp) > 1)
           X == Issue("exact duplicate", r.hash \in ExactHashes(stock))
<1>1. PageIssues(stock, r) = ElementIssues(stock, r) \cup A \cup CanonicalIssues(r) \cup ContentIssues(r) \cup MarkupIssues(r)
                            \cup P \cup M \cup NearDuplicateIssues(stock, r) \cup X
  BY Zenon DEF PageIssues
<1>2. shelf \in ElementIssues(stock, r) <=> \E e \in Elements : shelf \in TextIssues(stock, r, e)
  BY Zenon DEF ElementIssues
<1> HIDE DEF A, P, M, X
<1>3. shelf \in PageIssues(stock, r) <=>
        \/ shelf \in ElementIssues(stock, r) \/ shelf \in A \/ shelf \in CanonicalIssues(r) \/ shelf \in ContentIssues(r)
        \/ shelf \in MarkupIssues(r) \/ shelf \in P \/ shelf \in M
        \/ shelf \in NearDuplicateIssues(stock, r) \/ shelf \in X
  BY <1>1, Zenon
<1>4. shelf \in CanonicalIssues(r) <=>
        shelf \in Issue("no canonical", r.canonical = None) \/ shelf \in Issue("canonicals", r.canonicals > 1)
  BY Zenon DEF CanonicalIssues
<1>5. shelf \in ContentIssues(r) <=> shelf \in Issue("thin", r.words < ThinWords)
  BY Zenon DEF ContentIssues
<1>6. shelf \in MarkupIssues(r) <=>
        shelf \in Issue("evidence", r.evidence > 0) \/ shelf \in Issue("no doctype", r.doctype = FALSE)
  BY Zenon DEF MarkupIssues
<1>7. shelf \in NearDuplicateIssues(stock, r) <=>
        shelf \in Issue("near duplicate", r.cluster # None /\ Cardinality(SameCluster(stock, r.cluster)) > 1)
  BY Zenon DEF NearDuplicateIssues
<1> QED BY <1>2, <1>3, <1>4, <1>5, <1>6, <1>7, Zenon DEF A, P, M, X

LEMMA PageIssuesAre ==
  ASSUME NEW stock, NEW r, NEW shelf \in Views
  PROVE  shelf \in PageIssues(stock, r) <=>
           \/ \E e \in Elements : shelf \in TextIssues(stock, r, e)
           \/ /\ shelf.of = "-"
              /\ \/ /\ shelf.kind = "title is h1" /\ Key(r.text["title"].value) # ""
                    /\ Key(r.text["title"].value) = Key(r.text["h1"].value)
                 \/ shelf.kind = "no canonical" /\ r.canonical = None
                 \/ shelf.kind = "canonicals" /\ r.canonicals > 1
                 \/ shelf.kind = "thin" /\ r.words < ThinWords
                 \/ shelf.kind = "evidence" /\ r.evidence > 0
                 \/ shelf.kind = "no doctype" /\ r.doctype = FALSE
                 \/ shelf.kind = "paginations" /\ (Cardinality(r.next) > 1 \/ Cardinality(r.prev) > 1)
                 \/ shelf.kind = "amps" /\ Cardinality(r.amp) > 1
                 \/ shelf.kind = "near duplicate" /\ InCluster(stock, r)
                 \/ shelf.kind = "exact duplicate" /\ r.hash \in ExactHashes(stock)
<1>1. shelf \in Issue("title is h1", Key(r.text["title"].value) # "" /\ Key(r.text["title"].value) = Key(r.text["h1"].value)) <=>
        /\ Key(r.text["title"].value) # "" /\ Key(r.text["title"].value) = Key(r.text["h1"].value)
        /\ shelf.kind = "title is h1" /\ shelf.of = "-"
  <2> DEFINE c == Key(r.text["title"].value) # "" /\ Key(r.text["title"].value) = Key(r.text["h1"].value)
  <2>1. c \in BOOLEAN
    OBVIOUS
  <2> HIDE DEF c
  <2>2. shelf \in Issue("title is h1", c) <=> c /\ shelf.kind = "title is h1" /\ shelf.of = "-"
    BY <2>1, IssueIs
  <2> QED BY <2>2, Zenon DEF c
<1>2. shelf \in Issue("no canonical", r.canonical = None) <=>
        /\ r.canonical = None
        /\ shelf.kind = "no canonical" /\ shelf.of = "-"
  <2> DEFINE c == r.canonical = None
  <2>1. c \in BOOLEAN
    OBVIOUS
  <2> HIDE DEF c
  <2>2. shelf \in Issue("no canonical", c) <=> c /\ shelf.kind = "no canonical" /\ shelf.of = "-"
    BY <2>1, IssueIs
  <2> QED BY <2>2, Zenon DEF c
<1>3. shelf \in Issue("canonicals", r.canonicals > 1) <=>
        /\ r.canonicals > 1
        /\ shelf.kind = "canonicals" /\ shelf.of = "-"
  <2> DEFINE c == r.canonicals > 1
  <2>1. c \in BOOLEAN
    OBVIOUS
  <2> HIDE DEF c
  <2>2. shelf \in Issue("canonicals", c) <=> c /\ shelf.kind = "canonicals" /\ shelf.of = "-"
    BY <2>1, IssueIs
  <2> QED BY <2>2, Zenon DEF c
<1>4. shelf \in Issue("thin", r.words < ThinWords) <=>
        /\ r.words < ThinWords
        /\ shelf.kind = "thin" /\ shelf.of = "-"
  <2> DEFINE c == r.words < ThinWords
  <2>1. c \in BOOLEAN
    OBVIOUS
  <2> HIDE DEF c
  <2>2. shelf \in Issue("thin", c) <=> c /\ shelf.kind = "thin" /\ shelf.of = "-"
    BY <2>1, IssueIs
  <2> QED BY <2>2, Zenon DEF c
<1>5. shelf \in Issue("evidence", r.evidence > 0) <=>
        /\ r.evidence > 0
        /\ shelf.kind = "evidence" /\ shelf.of = "-"
  <2> DEFINE c == r.evidence > 0
  <2>1. c \in BOOLEAN
    OBVIOUS
  <2> HIDE DEF c
  <2>2. shelf \in Issue("evidence", c) <=> c /\ shelf.kind = "evidence" /\ shelf.of = "-"
    BY <2>1, IssueIs
  <2> QED BY <2>2, Zenon DEF c
<1>6. shelf \in Issue("no doctype", r.doctype = FALSE) <=>
        /\ r.doctype = FALSE
        /\ shelf.kind = "no doctype" /\ shelf.of = "-"
  <2> DEFINE c == r.doctype = FALSE
  <2>1. c \in BOOLEAN
    OBVIOUS
  <2> HIDE DEF c
  <2>2. shelf \in Issue("no doctype", c) <=> c /\ shelf.kind = "no doctype" /\ shelf.of = "-"
    BY <2>1, IssueIs
  <2> QED BY <2>2, Zenon DEF c
<1>7. shelf \in Issue("paginations", Cardinality(r.next) > 1 \/ Cardinality(r.prev) > 1) <=>
        /\ (Cardinality(r.next) > 1 \/ Cardinality(r.prev) > 1)
        /\ shelf.kind = "paginations" /\ shelf.of = "-"
  <2> DEFINE c == Cardinality(r.next) > 1 \/ Cardinality(r.prev) > 1
  <2>1. c \in BOOLEAN
    OBVIOUS
  <2> HIDE DEF c
  <2>2. shelf \in Issue("paginations", c) <=> c /\ shelf.kind = "paginations" /\ shelf.of = "-"
    BY <2>1, IssueIs
  <2> QED BY <2>2, Zenon DEF c
<1>8. shelf \in Issue("amps", Cardinality(r.amp) > 1) <=>
        /\ Cardinality(r.amp) > 1
        /\ shelf.kind = "amps" /\ shelf.of = "-"
  <2> DEFINE c == Cardinality(r.amp) > 1
  <2>1. c \in BOOLEAN
    OBVIOUS
  <2> HIDE DEF c
  <2>2. shelf \in Issue("amps", c) <=> c /\ shelf.kind = "amps" /\ shelf.of = "-"
    BY <2>1, IssueIs
  <2> QED BY <2>2, Zenon DEF c
<1>9. shelf \in Issue("near duplicate", r.cluster # None /\ Cardinality(SameCluster(stock, r.cluster)) > 1) <=>
        /\ r.cluster # None /\ Cardinality(SameCluster(stock, r.cluster)) > 1
        /\ shelf.kind = "near duplicate" /\ shelf.of = "-"
  <2> DEFINE c == r.cluster # None /\ Cardinality(SameCluster(stock, r.cluster)) > 1
  <2>1. c \in BOOLEAN
    OBVIOUS
  <2> HIDE DEF c
  <2>2. shelf \in Issue("near duplicate", c) <=> c /\ shelf.kind = "near duplicate" /\ shelf.of = "-"
    BY <2>1, IssueIs
  <2> QED BY <2>2, Zenon DEF c
<1>10. shelf \in Issue("exact duplicate", r.hash \in ExactHashes(stock)) <=>
        /\ r.hash \in ExactHashes(stock)
        /\ shelf.kind = "exact duplicate" /\ shelf.of = "-"
  <2> DEFINE c == r.hash \in ExactHashes(stock)
  <2>1. c \in BOOLEAN
    OBVIOUS
  <2> HIDE DEF c
  <2>2. shelf \in Issue("exact duplicate", c) <=> c /\ shelf.kind = "exact duplicate" /\ shelf.of = "-"
    BY <2>1, IssueIs
  <2> QED BY <2>2, Zenon DEF c
<1>11. r.cluster # None /\ Cardinality(SameCluster(stock, r.cluster)) > 1 <=> InCluster(stock, r)
  BY DEF InCluster
<1> QED BY InPageIssues, <1>1, <1>2, <1>3, <1>4, <1>5, <1>6, <1>7, <1>8, <1>9, <1>10, <1>11, ZenonT(60)

LEMMA NotIssuesAre ==
  ASSUME NEW shelf \in Views \ NotIssues
  PROVE  shelf.kind \notin {"internal", "2xx", "3xx", "4xx", "5xx"}
<1>1. SUFFICES ASSUME shelf.kind \in {"internal", "2xx", "3xx", "4xx", "5xx"} PROVE FALSE
  OBVIOUS
<1>2. shelf.of = "-"
  BY <1>1, ViewsAreRecords DEF ElementViews
<1>3. shelf = View(shelf.kind, "-")
  BY <1>2, ViewsAreRecords
<1> QED BY <1>1, <1>3 DEF NotIssues

LEMMA ReportedIs ==
  ASSUME NEW stock, NEW r, NEW shelf \in Views
  PROVE  shelf \in Reported(stock, r) <=>
           \/ shelf \in ResponseIssues(r) \/ shelf \in DirectiveIssues(r) \/ shelf \in SecurityIssues(r)
           \/ IsPage(r) /\ shelf \in PageIssues(stock, r)
BY DEF Reported
LEMMA NothingIsTooLong ==
  ASSUME NEW n, n = 0
  PROVE  ~(n > MaxSize)
<1>1. MaxSize \in Nat
  BY NumbersAreNone
<1> QED BY <1>1

LEMMA ReportShows ==
  ASSUME NEW stock, NEW m \in DOMAIN stock, TypedRows(stock), NEW shelf \in Views \ NotIssues
  PROVE  InReport(shelf, Reported(stock, stock[m])) <=> InMemory(shelf, stock, stock[m])
<1> DEFINE r == stock[m]
<1>1. Typed(r)
  BY DEF TypedRows
<1>2. shelf.kind \notin {"internal", "2xx", "3xx", "4xx", "5xx"}
  BY NotIssuesAre
<1>3. InReport(shelf, Reported(stock, r)) <=>
        \/ shelf \in Reported(stock, r)
        \/ shelf.kind = "broken" /\ IsNoResponse(r)
  <2>1. View("no response", "-") \in Views
    BY DEF Views, View, RecordViews
  <2>2. View("no response", "-") \in Reported(stock, r) <=> r.status = None /\ IsNoResponse(r)
    <3> DEFINE w == View("no response", "-")
    <3>1. w \in Views /\ w.kind = "no response" /\ w.of = "-"
      BY <2>1 DEF View
    <3> HIDE DEF w
    <3>2. w \notin PageIssues(stock, r)
      <4>1. \A e \in Elements : w \notin TextIssues(stock, r, e)
        BY <3>1, TextIssuesAre DEF Elements
      <4> QED BY <3>1, <4>1, PageIssuesAre
    <3>3. w \notin DirectiveIssues(r) /\ w \notin SecurityIssues(r)
      BY <3>1, DirectiveIssuesAre, SecurityIssuesAre
    <3>4. w \in ResponseIssues(r) <=> r.status = None /\ IsNoResponse(r)
      BY <3>1, ResponseIssuesAre
    <3>5. w \in Reported(stock, r) <=> r.status = None /\ IsNoResponse(r)
      BY <3>1, <3>2, <3>3, <3>4, ReportedIs
    <3> QED BY <3>5 DEF w
  <2>3. IsNoResponse(r) => r.status = None
    BY DEF IsNoResponse
  <2> QED BY <2>2, <2>3 DEF InReport
<1>4. \A e \in Elements : shelf \in TextIssues(stock, r, e) <=>
           /\ shelf.of = e
           /\ \/ /\ shelf.kind = "multiple" /\ e \in {"title", "meta"}
                 /\ r.text[e].count # None /\ r.text[e].count > 1
              \/ shelf.kind = "missing" /\ Key(r.text[e].value) = ""
              \/ shelf.kind = "duplicate" /\ Duplicated(stock, r, e)
              \/ /\ shelf.kind = "short" /\ e \in {"title", "meta"}
                 /\ Key(r.text[e].value) # "" /\ r.text[e].size < MinSize
              \/ shelf.kind = "long" /\ Key(r.text[e].value) # "" /\ r.text[e].size > MaxSize
  BY TextIssuesAre
<1>5. CASE shelf \in ElementViews
  <2> DEFINE t == r.text[shelf.of]
  <2>1. shelf.of \in Elements /\ shelf.of # "-"
    BY <1>5 DEF ElementViews, Elements
  <2>2. shelf.kind \in {"missing", "duplicate", "long", "multiple", "short"}
    BY <1>5 DEF ElementViews
  <2>3. shelf.kind \in {"multiple", "short"} => shelf.of \in {"title", "meta"}
    BY <1>5 DEF ElementViews
  <2>4. shelf \notin ResponseIssues(r) /\ shelf \notin DirectiveIssues(r) /\ shelf \notin SecurityIssues(r)
    BY <2>1, ResponseIssuesAre, DirectiveIssuesAre, SecurityIssuesAre, ZenonT(40)
  <2>5. shelf \in PageIssues(stock, r) <=> shelf \in TextIssues(stock, r, shelf.of)
    <3>1. shelf \in PageIssues(stock, r) <=> \E e \in Elements : shelf \in TextIssues(stock, r, e)
      BY <2>1, PageIssuesAre
    <3>2. \A e \in Elements : shelf \in TextIssues(stock, r, e) => shelf.of = e
      BY <1>4
    <3> QED BY <2>1, <3>1, <3>2
  <2>6. InReport(shelf, Reported(stock, r)) <=> IsPage(r) /\ shelf \in TextIssues(stock, r, shelf.of)
    <3>1. shelf.kind # "broken"
      BY <2>2
    <3>2. shelf \in Reported(stock, r) <=> IsPage(r) /\ shelf \in PageIssues(stock, r)
      BY <2>4, ReportedIs
    <3> QED BY <1>3, <2>5, <3>1, <3>2
  <2>7. OfPages(shelf)
    BY <2>2 DEF OfPages, RecordViews
  <2>8. Key(t.value) = "" => ~(t.size > MaxSize)
    <3>1. Key(t.value) = "" => t.size = 0
      BY <1>1, <2>1 DEF Typed
    <3> QED BY <3>1, NothingIsTooLong
  <2>9. shelf \in TextIssues(stock, r, shelf.of) <=>
           \/ shelf.kind = "multiple" /\ t.count # None /\ t.count > 1
           \/ shelf.kind = "missing" /\ Key(t.value) = ""
           \/ shelf.kind = "duplicate" /\ Duplicated(stock, r, shelf.of)
           \/ shelf.kind = "short" /\ Key(t.value) # "" /\ t.size < MinSize
           \/ shelf.kind = "long" /\ t.size > MaxSize
    <3> HIDE DEF t
    <3>1. shelf \in TextIssues(stock, r, shelf.of) <=>
             \/ /\ shelf.kind = "multiple" /\ shelf.of \in {"title", "meta"}
                /\ t.count # None /\ t.count > 1
             \/ shelf.kind = "missing" /\ Key(t.value) = ""
             \/ shelf.kind = "duplicate" /\ Duplicated(stock, r, shelf.of)
             \/ /\ shelf.kind = "short" /\ shelf.of \in {"title", "meta"}
                /\ Key(t.value) # "" /\ t.size < MinSize
             \/ shelf.kind = "long" /\ Key(t.value) # "" /\ t.size > MaxSize
      BY <1>4, <2>1, Zenon DEF t
    <3> QED BY <2>3, <2>8, <3>1
  <2>10. InMemory(shelf, stock, r) <=> IsPage(r) /\
           \/ shelf.kind = "multiple" /\ t.count # None /\ t.count > 1
           \/ shelf.kind = "missing" /\ Key(t.value) = ""
           \/ shelf.kind = "duplicate" /\ Duplicated(stock, r, shelf.of)
           \/ shelf.kind = "short" /\ Key(t.value) # "" /\ t.size < MinSize
           \/ shelf.kind = "long" /\ t.size > MaxSize
    <3>1. CASE shelf.kind = "multiple"
      BY <2>7, <3>1 DEF InMemory
    <3>2. CASE shelf.kind = "missing"
      BY <2>7, <3>2 DEF InMemory
    <3>3. CASE shelf.kind = "duplicate"
      BY <2>7, <3>3 DEF InMemory
    <3>4. CASE shelf.kind = "short"
      BY <2>7, <3>4 DEF InMemory
    <3>5. CASE shelf.kind = "long"
      BY <2>7, <3>5 DEF InMemory
    <3> QED BY <2>2, <3>1, <3>2, <3>3, <3>4, <3>5
  <2> QED BY <2>6, <2>9, <2>10
<1>6. CASE shelf \notin ElementViews
  <2>1. shelf.of = "-" /\ shelf.kind \in PageViews \cup RecordViews
    BY <1>6, ViewsAreRecords
  <2>2. \A e \in Elements : shelf \notin TextIssues(stock, r, e)
    BY <1>4, <2>1 DEF Elements
  <2>3. CASE shelf.kind \in PageViews
    <3>1. OfPages(shelf)
      BY <2>3 DEF OfPages, PageViews, RecordViews
    <3>2. shelf.kind # "broken" /\ shelf \notin ResponseIssues(r) /\ shelf \notin DirectiveIssues(r)
      <4>1. shelf.kind # "broken" /\ shelf.kind # "no response" /\ shelf.kind # "noindex"
        BY <2>3 DEF PageViews
      <4> QED BY <4>1, ResponseIssuesAre, DirectiveIssuesAre, ZenonT(60)
    <3>3. InReport(shelf, Reported(stock, r)) <=>
             shelf \in SecurityIssues(r) \/ (IsPage(r) /\ shelf \in PageIssues(stock, r))
      BY <1>3, <3>2, ReportedIs
    <3>4. shelf \in PageIssues(stock, r) <=>
              \/ /\ shelf.kind = "title is h1" /\ Key(r.text["title"].value) # ""
                 /\ Key(r.text["title"].value) = Key(r.text["h1"].value)
              \/ shelf.kind = "no canonical" /\ r.canonical = None
              \/ shelf.kind = "canonicals" /\ r.canonicals > 1
              \/ shelf.kind = "thin" /\ r.words < ThinWords
              \/ shelf.kind = "evidence" /\ r.evidence > 0
              \/ shelf.kind = "no doctype" /\ r.doctype = FALSE
              \/ shelf.kind = "paginations" /\ (Cardinality(r.next) > 1 \/ Cardinality(r.prev) > 1)
              \/ shelf.kind = "amps" /\ Cardinality(r.amp) > 1
              \/ shelf.kind = "near duplicate" /\ InCluster(stock, r)
              \/ shelf.kind = "exact duplicate" /\ r.hash \in ExactHashes(stock)
      BY <2>1, <2>2, PageIssuesAre
    <3>5. shelf \in SecurityIssues(r) <=>
              \/ shelf.kind = "unsafe page" /\ IsPage(r) /\ ~r.secure
              \/ shelf.kind = "evidence" /\ IsPage(r) /\ r.evidence > 0
      BY <2>1, <2>3, SecurityIssuesAre DEF PageViews
    <3>6. CASE shelf.kind = "title is h1"
      BY <3>1, <3>3, <3>4, <3>5, <3>6 DEF InMemory
    <3>7. CASE shelf.kind = "no canonical"
      BY <3>1, <3>3, <3>4, <3>5, <3>7 DEF InMemory
    <3>8. CASE shelf.kind = "canonicals"
      BY <3>1, <3>3, <3>4, <3>5, <3>8 DEF InMemory
    <3>9. CASE shelf.kind = "thin"
      BY <3>1, <3>3, <3>4, <3>5, <3>9 DEF InMemory
    <3>10. CASE shelf.kind = "evidence"
      BY <3>1, <3>3, <3>4, <3>5, <3>10 DEF InMemory
    <3>11. CASE shelf.kind = "no doctype"
      BY <3>1, <3>3, <3>4, <3>5, <3>11 DEF InMemory
    <3>12. CASE shelf.kind = "paginations"
      BY <3>1, <3>3, <3>4, <3>5, <3>12 DEF InMemory
    <3>13. CASE shelf.kind = "amps"
      BY <3>1, <3>3, <3>4, <3>5, <3>13 DEF InMemory
    <3>14. CASE shelf.kind = "near duplicate"
      BY <3>1, <3>3, <3>4, <3>5, <3>14 DEF InMemory
    <3>15. CASE shelf.kind = "exact duplicate"
      BY <3>1, <3>3, <3>4, <3>5, <3>15 DEF InMemory
    <3>16. CASE shelf.kind = "unsafe page"
      BY <3>1, <3>3, <3>4, <3>5, <3>16 DEF InMemory
    <3> QED BY <2>3, <3>6, <3>7, <3>8, <3>9, <3>10, <3>11, <3>12, <3>13, <3>14, <3>15, <3>16 DEF PageViews
  <2>4. CASE shelf.kind \in RecordViews
    <3>1. ~OfPages(shelf)
      BY <2>4 DEF OfPages
    <3>2. shelf.kind \in {"no response", "broken", "noindex", "unsafe answer"}
      BY <1>2, <2>4 DEF RecordViews
    <3>3. shelf \notin PageIssues(stock, r)
      BY <2>1, <2>2, <3>2, PageIssuesAre
    <3>4. InReport(shelf, Reported(stock, r)) <=>
             \/ shelf \in ResponseIssues(r) \/ shelf \in DirectiveIssues(r) \/ shelf \in SecurityIssues(r)
             \/ shelf.kind = "broken" /\ IsNoResponse(r)
      BY <1>3, <3>3, ReportedIs
    <3>5. /\ shelf \in ResponseIssues(r) <=>
              \/ shelf.kind = "no response" /\ r.status = None /\ IsNoResponse(r)
              \/ /\ shelf.kind = "broken" /\ r.status # None
                 /\ r.status >= 400 \/ (r.status \in 300..399 /\ r.error # None)
          /\ shelf \in DirectiveIssues(r) <=>
              /\ shelf.kind = "noindex"
              /\ r.indexStatus \in {"X-Robots-Tag noindex", "Meta robots noindex"}
          /\ shelf \in SecurityIssues(r) <=> shelf.kind = "unsafe answer" /\ IsSuccess(r) /\ ~r.secure
      BY <2>1, <3>2, ResponseIssuesAre, DirectiveIssuesAre, SecurityIssuesAre, ZenonT(40)
    <3>6. CASE shelf.kind = "no response"
      BY <3>1, <3>4, <3>5, <3>6 DEF InMemory, IsNoResponse
    <3>7. CASE shelf.kind = "broken"
      BY <3>1, <3>4, <3>5, <3>7 DEF InMemory, IsBroken, IsRedirect
    <3>8. CASE shelf.kind = "noindex"
      BY <3>1, <3>4, <3>5, <3>8 DEF InMemory
    <3>9. CASE shelf.kind = "unsafe answer"
      BY <3>1, <3>4, <3>5, <3>9 DEF InMemory
    <3> QED BY <3>2, <3>6, <3>7, <3>8, <3>9
  <2> QED BY <2>1, <2>3, <2>4
<1> QED BY <1>5, <1>6

-----------------------------------------------------------------------------
(* The validation of the sitemaps.                                         *)

LEMMA FindingsAreFinite == IsFiniteSet(Findings)
<1> DEFINE A == {"blocked", "no response", "redirecting", "4xx"}
           B == {"5xx", "not indexable", "canonical elsewhere", "redirect target"}
           C == {"external", "orphan", "fetch error", "blocked"}
<1>1. IsFiniteSet(A) /\ IsFiniteSet(B) /\ IsFiniteSet(C)
  BY FourAreFinite
<1>2. Findings = A \cup B \cup C
  BY Zenon DEF Findings
<1> HIDE DEF A, B, C
<1>3. IsFiniteSet(A \cup B)
  BY <1>1, FS_Union
<1> QED BY <1>1, <1>2, <1>3, FS_Union

(* Where there is an error, "refused by robots.txt" is never unknown.      *)
LEMMA BlockedIsKnown ==
  ASSUME NEW r, Typed(r), r.error # None
  PROVE  SqlBlocked(r) \in BOOLEAN
<1> DEFINE a == r.status = None
           b == Same(r.reason, "Blocked by robots.txt")
           c == Same(r.error, "Blocked by robots.txt")
           e == AnyOf({b, c})
<1>1. a \in BOOLEAN
  OBVIOUS
<1>2. b \in BOOLEAN
  BY DEF Typed, Same, Test
<1>3. c \in BOOLEAN
  BY DEF Same, Test
<1>4. SqlBlocked(r) = AllOf({a, e})
  BY Zenon DEF SqlBlocked
<1> HIDE DEF a, b, c
<1>5. None \notin {b, c}
  BY <1>2, <1>3, NullIsNoTruth
<1>6. e \in BOOLEAN
  BY <1>5, Zenon DEF AnyOf
<1> HIDE DEF e
<1>7. None \notin {a, e}
  BY <1>1, <1>6, NullIsNoTruth
<1>8. AllOf({a, e}) \in BOOLEAN
  BY <1>7, Zenon DEF AllOf
<1> QED BY <1>4, <1>8

LEMMA FetchErrorMeans ==
  ASSUME NEW r, Typed(r)
  PROVE  Holds(AllOf({Negated(SqlBlocked(r)), Test(r.error, LAMBDA e : TRUE)}))
            <=> ~IsBlocked(r) /\ r.error # None
<1> DEFINE a == Negated(SqlBlocked(r))
           b == Test(r.error, LAMBDA e : TRUE)
<1>1. b = IF r.error = None THEN None ELSE TRUE
  BY Zenon DEF Test
<1>2. b \in Truths /\ (Holds(b) <=> r.error # None)
  BY <1>1, NullIsNoTruth, Zenon DEF Truths, Holds
<1>3. a \in Truths
  <2>1. SqlBlocked(r) \in Truths
    BY BlockedMeans
  <2> QED BY <2>1, Zenon DEF Negated, Truths
<1>4. r.error # None => (Holds(a) <=> ~IsBlocked(r))
  <2>1. SUFFICES ASSUME r.error # None PROVE Holds(a) <=> ~IsBlocked(r)
    OBVIOUS
  <2>2. SqlBlocked(r) \in BOOLEAN /\ (Holds(SqlBlocked(r)) <=> IsBlocked(r))
    BY <2>1, BlockedIsKnown, BlockedMeans
  <2> QED BY <2>2, NullIsNoTruth, Zenon DEF Holds, Negated
<1> HIDE DEF a, b
<1>5. Holds(AllOf({a, b})) <=> Holds(a) /\ Holds(b)
  BY <1>2, <1>3, AllOfTwo, Zenon
<1>6. Holds(AllOf({a, b})) <=> ~IsBlocked(r) /\ r.error # None
  BY <1>2, <1>4, <1>5
<1> QED BY <1>6 DEF a, b

LEMMA FindingsAgree ==
  ASSUME NEW r, Typed(r), NEW inlinks
  PROVE  SitemapFindings(r, inlinks) = SqlFindings(r, inlinks)
<1> SUFFICES ASSUME NEW f \in Findings
             PROVE  f \in SitemapFindings(r, inlinks) <=> f \in SqlFindings(r, inlinks)
  <2>1. SitemapFindings(r, inlinks) \subseteq Findings
    BY DEF SitemapFindings
  <2>2. SqlFindings(r, inlinks) \subseteq Findings
    BY DEF SqlFindings
  <2> QED BY <2>1, <2>2, Zenon
<1>1. CASE f = "blocked"
  <2>1. f \in SitemapFindings(r, inlinks) <=> IsBlocked(r)
    BY <1>1 DEF SitemapFindings
  <2>2. f \in SqlFindings(r, inlinks) <=> Holds(SqlBlocked(r))
    BY <1>1 DEF SqlFindings
  <2> QED BY <2>1, <2>2, BlockedMeans
<1>2. CASE f = "no response"
  <2>1. f \in SitemapFindings(r, inlinks) <=> IsNoResponse(r)
    BY <1>2 DEF SitemapFindings
  <2>2. f \in SqlFindings(r, inlinks) <=> Holds(SqlNoResponse(r))
    BY <1>2, ZenonT(60) DEF SqlFindings
  <2> QED BY <2>1, <2>2, NoResponseMeans
<1>3. CASE f = "redirecting"
  <2>1. f \in SitemapFindings(r, inlinks) <=> IsRedirect(r)
    BY <1>3 DEF SitemapFindings
  <2>2. f \in SqlFindings(r, inlinks) <=> Holds(SqlRedirect(r))
    BY <1>3 DEF SqlFindings
  <2> QED BY <2>1, <2>2, RedirectMeans
<1>4. CASE f = "4xx"
  <2>1. f \in SitemapFindings(r, inlinks) <=> r.status # None /\ r.status \in 400..499
    BY <1>4 DEF SitemapFindings
  <2>2. f \in SqlFindings(r, inlinks) <=> Holds(Within(r.status, 400..499))
    BY <1>4 DEF SqlFindings
  <2> QED BY <2>1, <2>2, WithinHolds
<1>5. CASE f = "5xx"
  <2>1. f \in SitemapFindings(r, inlinks) <=> r.status # None /\ r.status \in 500..599
    BY <1>5 DEF SitemapFindings
  <2>2. f \in SqlFindings(r, inlinks) <=> Holds(Within(r.status, 500..599))
    BY <1>5 DEF SqlFindings
  <2> QED BY <2>1, <2>2, WithinHolds
<1>6. CASE f = "not indexable"
  <2> DEFINE a == Differs(r.indexability, "Indexable")
             b == Differs(r.indexStatus, "Indexable")
  <2>1. f \in SitemapFindings(r, inlinks) <=> r.indexability # "Indexable" \/ r.indexStatus # "Indexable"
    BY <1>6 DEF SitemapFindings
  <2>2. f \in SqlFindings(r, inlinks) <=> Holds(AnyOf({a, b}))
    BY <1>6, ZenonT(60) DEF SqlFindings
  <2>3. r.indexability # None /\ r.indexStatus # None
    BY DEF Typed
  <2>4. a \in Truths /\ (Holds(a) <=> r.indexability # "Indexable")
    BY <2>3, DiffersHolds
  <2>5. b \in Truths /\ (Holds(b) <=> r.indexStatus # "Indexable")
    BY <2>3, DiffersHolds
  <2> HIDE DEF a, b
  <2>6. Holds(AnyOf({a, b})) <=> Holds(a) \/ Holds(b)
    BY <2>4, <2>5, AnyOfTwo, Zenon
  <2> QED BY <2>1, <2>2, <2>4, <2>5, <2>6
<1>7. CASE f = "canonical elsewhere"
  <2>1. f \in SitemapFindings(r, inlinks) <=> r.canonical \notin {None, r.final}
    BY <1>7 DEF SitemapFindings
  <2>2. f \in SqlFindings(r, inlinks) <=> Holds(Differs(r.canonical, r.final))
    BY <1>7, ZenonT(60) DEF SqlFindings
  <2> QED BY <2>1, <2>2, DiffersHolds
<1>8. CASE f = "redirect target"
  <2> DEFINE b == Test(r.target, LAMBDA t : TRUE)
  <2>1. f \in SitemapFindings(r, inlinks) <=> r.target # None
    BY <1>8 DEF SitemapFindings
  <2>2. f \in SqlFindings(r, inlinks) <=> Holds(b)
    BY <1>8, ZenonT(60) DEF SqlFindings
  <2>3. b = IF r.target = None THEN None ELSE TRUE
    BY Zenon DEF Test
  <2> HIDE DEF b
  <2> QED BY <2>1, <2>2, <2>3, NullIsNoTruth, Zenon DEF Holds
<1>9. CASE f = "external"
  <2>1. f \in SitemapFindings(r, inlinks) <=> ~r.internal
    BY <1>9 DEF SitemapFindings
  <2>2. f \in SqlFindings(r, inlinks) <=> Holds(~r.internal)
    BY <1>9 DEF SqlFindings
  <2> QED BY <2>1, <2>2 DEF Holds
<1>10. CASE f = "orphan"
  <2>1. f \in SitemapFindings(r, inlinks) <=> (inlinks = 0 /\ r.internal)
    BY <1>10 DEF SitemapFindings
  <2>2. f \in SqlFindings(r, inlinks) <=> Holds(inlinks = 0 /\ r.internal)
    BY <1>10 DEF SqlFindings
  <2> QED BY <2>1, <2>2 DEF Holds
<1>11. CASE f = "fetch error"
  <2>1. f \in SitemapFindings(r, inlinks) <=> ~IsBlocked(r) /\ r.error # None
    BY <1>11 DEF SitemapFindings
  <2>2. f \in SqlFindings(r, inlinks) <=>
          Holds(AllOf({Negated(SqlBlocked(r)), Test(r.error, LAMBDA e : TRUE)}))
    BY <1>11, ZenonT(60) DEF SqlFindings
  <2> QED BY <2>1, <2>2, FetchErrorMeans
<1> QED BY <1>1, <1>2, <1>3, <1>4, <1>5, <1>6, <1>7, <1>8, <1>9, <1>10, <1>11 DEF Findings

LEMMA SitemapRowsAgree ==
  ASSUME NEW r, Typed(r), NEW inlinks
  PROVE  SitemapRow(r, inlinks) = SqlSitemapRow(r, inlinks)
<1> DEFINE found == SitemapFindings(r, inlinks)
           ranks == {0} \cup {Rank(f) : f \in found}
           gravest == IF \E f \in found : Rank(f) = 2 THEN 2 ELSE IF Cardinality(found) > 0 THEN 1 ELSE 0
<1>1. IsFiniteSet(found)
  <2>1. found \subseteq Findings
    BY DEF SitemapFindings
  <2> QED BY <2>1, FindingsAreFinite, FS_Subset
<1>2. Cardinality(found) \in Nat /\ (Cardinality(found) = 0 <=> found = {})
  BY <1>1, FS_CardinalityType, FS_EmptySet
<1>3. SqlFindings(r, inlinks) = found
  BY FindingsAgree
<1>4. SitemapRow(r, inlinks) = [findings |-> found, severity |-> Max(ranks),
                                count |-> IF found = {} THEN 1 ELSE Cardinality(found)]
  BY DEF SitemapRow
<1>5. SqlSitemapRow(r, inlinks) = [findings |-> found, severity |-> gravest,
                                   count |-> IF Cardinality(found) > 1 THEN Cardinality(found) ELSE 1]
  BY <1>3 DEF SqlSitemapRow
<1> HIDE DEF found
<1>6. Max(ranks) = gravest
  <2>1. \A f \in found : Rank(f) \in {1, 2}
    BY DEF Rank
  <2>2. gravest \in ranks
    BY <1>2, <2>1
  <2>3. \A n \in ranks : gravest >= n
    BY <1>2, <2>1
  <2>4. ranks \subseteq 0..2
    BY <2>1
  <2> HIDE DEF gravest, ranks
  <2>5. \A n \in ranks : (\A k \in ranks : n >= k) => n = gravest
    BY <2>2, <2>3, <2>4
  <2> QED BY <2>2, <2>3, <2>5, Zenon DEF Max
<1>7. (IF found = {} THEN 1 ELSE Cardinality(found)) = (IF Cardinality(found) > 1 THEN Cardinality(found) ELSE 1)
  BY <1>2
<1> QED BY <1>4, <1>5, <1>6, <1>7

-----------------------------------------------------------------------------
(* The fields of a record, as each step of its making leaves them.         *)

AllFields == {"url", "final", "chain", "target", "internal", "status", "reason", "error", "type",
              "indexability", "indexStatus", "hash", "secure", "text", "canonical", "canonicals",
              "next", "prev", "amp", "hreflang", "ampDocument", "doctype", "evidence", "words",
              "cluster", "robots"}
Wide(r) == AllFields \subseteq DOMAIN r
Keeps(r, q, S) == \A f \in AllFields \ S : r[f] = q[f]

(* What a record holds before anything of an answer is known.              *)
Unread(r, u) ==
  /\ Wide(r)
  /\ r.internal = (u \in Internal)
  /\ r.secure = FALSE /\ r.text = [e \in Elements |-> NoText]
  /\ r.canonical = None /\ r.canonicals = 0 /\ r.next = {} /\ r.prev = {} /\ r.amp = {}
  /\ r.hreflang = {} /\ r.doctype = None /\ r.evidence = 0 /\ r.words = 0 /\ r.type = None

LEMMA BareIsUnread ==
  ASSUME NEW u, NEW c
  PROVE  Unread(Bare(u, c), u) /\ Basics(Bare(u, c), item, u, c) /\ Bare(u, c).status = None
         /\ Bare(u, c).reason = "" /\ Bare(u, c).indexability = "Non-indexable"
<1>1. Wide(Bare(u, c))
  BY DEF Bare, Wide, AllFields
<1> QED BY <1>1 DEF Bare, Unread, Basics

LEMMA UnreadKept ==
  ASSUME NEW r, NEW q, NEW u, Unread(q, u), Wide(r),
         NEW S, S \subseteq {"status", "reason", "error", "indexability", "indexStatus", "hash"}, Keeps(r, q, S)
  PROVE  Unread(r, u)
<1>1. \A f \in {"internal", "secure", "text", "canonical", "canonicals", "next", "prev", "amp", "hreflang",
               "doctype", "evidence", "words", "type"} : r[f] = q[f]
  BY DEF Keeps, AllFields
<1> QED BY <1>1 DEF Unread

LEMMA BasicsKept ==
  ASSUME NEW r, NEW q, NEW i, NEW u, NEW c, Basics(q, i, u, c), NEW S, Keeps(r, q, S),
         "url" \notin S, "final" \notin S, "chain" \notin S
  PROVE  Basics(r, i, u, c)
<1>1. \A f \in {"url", "final", "chain"} : r[f] = q[f]
  BY DEF Keeps, AllFields
<1> QED BY <1>1 DEF Basics

OnlyError(r, error, words) ==
  /\ r.status = None /\ r.error = error /\ r.reason = words
  /\ r.indexStatus = words /\ r.indexability = "Non-indexable"

LEMMA ErrorUnread ==
  ASSUME NEW u, NEW error, NEW c
  PROVE  /\ Unread(ErrorRecord(u, error, c), u) /\ Basics(ErrorRecord(u, error, c), item, u, c)
         /\ OnlyError(ErrorRecord(u, error, c), error, "No response")
<1> DEFINE q == Bare(u, c)
           r == ErrorRecord(u, error, c)
<1>1. Unread(q, u) /\ Basics(q, item, u, c) /\ q.status = None /\ q.indexability = "Non-indexable"
  BY BareIsUnread
<1>2. r = [q EXCEPT !.reason = "No response", !.indexStatus = "No response", !.error = error]
  BY DEF ErrorRecord
<1> HIDE DEF q, r
<1>3. Wide(r) /\ Keeps(r, q, {"reason", "indexStatus", "error"})
  BY <1>1, <1>2 DEF Unread, Wide, Keeps, AllFields
<1>4. r.reason = "No response" /\ r.indexStatus = "No response" /\ r.error = error
  BY <1>1, <1>2 DEF Unread, Wide, AllFields
<1>5. r.status = q.status /\ r.indexability = q.indexability
  BY <1>3 DEF Keeps, AllFields
<1>6. Unread(r, u)
  BY <1>1, <1>3, UnreadKept
<1>7. Basics(r, item, u, c)
  BY <1>1, <1>3, BasicsKept
<1> QED BY <1>1, <1>4, <1>5, <1>6, <1>7 DEF r, OnlyError

LEMMA BlockedUnread ==
  ASSUME NEW u, NEW why, NEW c
  PROVE  /\ Unread(BlockedRecord(u, c, why), u) /\ Basics(BlockedRecord(u, c, why), item, u, c)
         /\ OnlyError(BlockedRecord(u, c, why), why, "Blocked by robots.txt")
<1> DEFINE q == Bare(u, c)
           r == BlockedRecord(u, c, why)
<1>1. Unread(q, u) /\ Basics(q, item, u, c) /\ q.status = None /\ q.indexability = "Non-indexable"
  BY BareIsUnread
<1>2. r = [q EXCEPT !.reason = "Blocked by robots.txt", !.indexStatus = "Blocked by robots.txt", !.error = why]
  BY DEF BlockedRecord
<1> HIDE DEF q, r
<1>3. Wide(r) /\ Keeps(r, q, {"reason", "indexStatus", "error"})
  BY <1>1, <1>2 DEF Unread, Wide, Keeps, AllFields
<1>4. r.reason = "Blocked by robots.txt" /\ r.indexStatus = "Blocked by robots.txt" /\ r.error = why
  BY <1>1, <1>2 DEF Unread, Wide, AllFields
<1>5. r.status = q.status /\ r.indexability = q.indexability
  BY <1>3 DEF Keeps, AllFields
<1>6. Unread(r, u)
  BY <1>1, <1>3, UnreadKept
<1>7. Basics(r, item, u, c)
  BY <1>1, <1>3, BasicsKept
<1> QED BY <1>1, <1>4, <1>5, <1>6, <1>7 DEF r, OnlyError

OnlyStatus(r, status, error) ==
  /\ r.status = status /\ r.error = error /\ r.reason = ""
  /\ r.indexability = IF Success(status) THEN "Indexable" ELSE "Non-indexable"
  /\ r.indexStatus = IF Success(status) THEN "Indexable" ELSE "HTTP"

LEMMA StatusUnread ==
  ASSUME NEW u, NEW status, NEW c, NEW error
  PROVE  /\ Unread(StatusRecord(u, status, c, error), u)
         /\ Basics(StatusRecord(u, status, c, error), item, u, c)
         /\ OnlyStatus(StatusRecord(u, status, c, error), status, error)
<1> HIDE DEF Success
<1> DEFINE q == Bare(u, c)
           r == StatusRecord(u, status, c, error)
           x == IF Success(status) THEN "Indexable" ELSE "Non-indexable"
           y == IF Success(status) THEN "Indexable" ELSE "HTTP"
<1>1. Unread(q, u) /\ Basics(q, item, u, c) /\ q.reason = ""
  BY BareIsUnread
<1>2. r = [q EXCEPT !.status = status, !.error = error, !.indexability = x, !.indexStatus = y]
  BY DEF StatusRecord
<1> HIDE DEF q, r, x, y
<1>3. Wide(r) /\ Keeps(r, q, {"status", "indexability", "indexStatus", "error"})
  BY <1>1, <1>2 DEF Unread, Wide, Keeps, AllFields
<1>4. r.status = status /\ r.indexStatus = y /\ r.error = error /\ r.indexability = x
  BY <1>1, <1>2 DEF Unread, Wide, AllFields
<1>5. r.reason = q.reason
  BY <1>3 DEF Keeps, AllFields
<1>6. Unread(r, u)
  BY <1>1, <1>3, UnreadKept
<1>7. Basics(r, item, u, c)
  BY <1>1, <1>3, BasicsKept
<1> QED BY <1>1, <1>4, <1>5, <1>6, <1>7 DEF r, x, y, OnlyStatus

LEMMA HeadersKeep ==
  ASSUME NEW q, NEW given, Wide(q)
  PROVE  LET r == WithHeaders(q, given)
         IN /\ Wide(r) /\ Keeps(r, q, {"type", "secure", "canonical", "canonicals", "robots"})
            /\ r.type = given.type /\ r.secure = given.secure /\ r.canonical = given.header.canonical
            /\ r.canonicals = IF given.header.canonical = None THEN 0 ELSE 1
<1> DEFINE r == WithHeaders(q, given)
           x == IF given.header.canonical = None THEN 0 ELSE 1
           y == IF given.header.noindex THEN {"header"} ELSE {}
<1>1. r = [q EXCEPT !.type = given.type, !.secure = given.secure, !.canonical = given.header.canonical,
                    !.canonicals = x, !.robots = y]
  BY DEF WithHeaders
<1> HIDE DEF r, x, y
<1>2. Wide(r) /\ Keeps(r, q, {"type", "secure", "canonical", "canonicals", "robots"})
  BY <1>1 DEF Wide, Keeps, AllFields
<1>3. r.type = given.type /\ r.secure = given.secure /\ r.canonical = given.header.canonical /\ r.canonicals = x
  BY <1>1 DEF Wide, AllFields
<1> QED BY <1>2, <1>3 DEF r, x

LEMMA PageKeeps ==
  ASSUME NEW q, NEW page, Wide(q)
  PROVE  LET r == WithPage(q, page)
         IN /\ Wide(r)
            /\ Keeps(r, q, {"text", "canonical", "canonicals", "next", "prev", "amp", "hreflang", "ampDocument",
                            "doctype", "evidence", "words", "cluster", "robots"})
            /\ r.text = page.text /\ r.next = page.next /\ r.prev = page.prev /\ r.amp = page.amp
            /\ r.hreflang = page.hreflang /\ r.doctype = page.doctype /\ r.evidence = page.evidence
            /\ r.words = page.words
            /\ r.canonical = IF page.canonical = None THEN q.canonical ELSE page.canonical
            /\ r.canonicals = q.canonicals + IF page.canonical = None THEN 0 ELSE 1
<1> DEFINE r == WithPage(q, page)
           x == IF page.canonical = None THEN q.canonical ELSE page.canonical
           y == q.canonicals + IF page.canonical = None THEN 0 ELSE 1
           z == IF page.noindex THEN q.robots \cup {"meta"} ELSE q.robots
           w == [q EXCEPT !.text = page.text, !.canonical = x, !.canonicals = y,
                          !.next = page.next, !.prev = page.prev, !.amp = page.amp, !.hreflang = page.hreflang,
                          !.ampDocument = page.ampDocument, !.doctype = page.doctype,
                          !.evidence = page.evidence, !.words = page.words, !.cluster = page.cluster,
                          !.robots = z]
<1>1. r = w
  BY DEF WithPage
<1> HIDE DEF r, x, y, z
<1>2. Wide(r)
  BY <1>1 DEF Wide
<1>3. Keeps(r, q, {"text", "canonical", "canonicals", "next", "prev", "amp", "hreflang", "ampDocument",
                            "doctype", "evidence", "words", "cluster", "robots"})
  BY <1>1 DEF Wide, Keeps, AllFields
<1>4. r.text = page.text /\ r.next = page.next /\ r.prev = page.prev /\ r.amp = page.amp
  BY <1>1 DEF Wide, AllFields
<1>5. r.hreflang = page.hreflang /\ r.doctype = page.doctype /\ r.evidence = page.evidence /\ r.words = page.words
  BY <1>1 DEF Wide, AllFields
<1>6. r.canonical = x /\ r.canonicals = y
  BY <1>1 DEF Wide, AllFields
<1> QED BY <1>2, <1>3, <1>4, <1>5, <1>6 DEF r, x, y

LEMMA DirectedKeeps ==
  ASSUME NEW q, Wide(q)
  PROVE  LET r == Directed(q)
         IN /\ Wide(r) /\ Keeps(r, q, {"indexability", "indexStatus"})
            /\ \/ r.indexability = q.indexability /\ r.indexStatus = q.indexStatus
               \/ /\ r.indexability = "Non-indexable"
                  /\ r.indexStatus \in {"X-Robots-Tag noindex", "Meta robots noindex", "Canonicalized"}
<1> DEFINE r == Directed(q)
           Closed(status) == [q EXCEPT !.indexability = "Non-indexable", !.indexStatus = status]
<1>1. r = q \/ \E status \in {"X-Robots-Tag noindex", "Meta robots noindex", "Canonicalized"} : r = Closed(status)
  <2> HIDE DEF Closed
  <2>1. r \in {q, Closed("X-Robots-Tag noindex"), Closed("Meta robots noindex"), Closed("Canonicalized")}
    BY DEF Directed, Closed
  <2> HIDE DEF r
  <2> QED BY <2>1
<1> HIDE DEF r
<1>2. CASE r = q
  BY <1>2 DEF Keeps, r
<1>3. ASSUME NEW status \in {"X-Robots-Tag noindex", "Meta robots noindex", "Canonicalized"}, r = Closed(status)
      PROVE  /\ Wide(r) /\ Keeps(r, q, {"indexability", "indexStatus"})
             /\ r.indexability = "Non-indexable" /\ r.indexStatus = status
  <2>1. Wide(r) /\ Keeps(r, q, {"indexability", "indexStatus"})
    BY <1>3 DEF Wide, Keeps, AllFields
  <2>2. r.indexability = "Non-indexable" /\ r.indexStatus = status
    BY <1>3 DEF Wide, AllFields
  <2> QED BY <2>1, <2>2
<1> QED BY <1>1, <1>2, <1>3 DEF r

(* What a record tells of the answer that it was made of.                  *)
Statuses == {"Indexable", "HTTP", "X-Robots-Tag noindex", "Meta robots noindex", "Canonicalized",
             "Response body incomplete"}
Given(r, u, given) ==
  /\ Wide(r) /\ r.status = given.status /\ r.reason = "" /\ r.internal = (u \in Internal)
  /\ r.type = given.type /\ r.secure = given.secure
  /\ r.indexability \in {"Indexable", "Non-indexable", "Unknown"} /\ r.indexStatus \in Statuses
NoSignals(r, given) ==
  /\ r.text = [e \in Elements |-> NoText] /\ r.next = {} /\ r.prev = {} /\ r.amp = {} /\ r.hreflang = {}
  /\ r.doctype = None /\ r.evidence = 0 /\ r.words = 0 /\ r.canonicals \in Nat
Signals(r, given) ==
  LET page == given.page
  IN /\ r.text = page.text /\ r.next = page.next /\ r.prev = page.prev /\ r.amp = page.amp
     /\ r.hreflang = page.hreflang /\ r.doctype = page.doctype /\ r.evidence = page.evidence
     /\ r.words = page.words /\ r.canonicals \in Nat
     /\ r.canonical = IF page.canonical = None THEN given.header.canonical ELSE page.canonical

LEMMA HeadersGiven ==
  ASSUME NEW u, NEW given, NEW c, NEW error
  PROVE  LET r == WithHeaders(StatusRecord(u, given.status, c, error), given)
         IN /\ Given(r, u, given) /\ NoSignals(r, given) /\ Basics(r, item, u, c) /\ r.error = error
            /\ r.canonical = given.header.canonical
            /\ r.indexability = IF Success(given.status) THEN "Indexable" ELSE "Non-indexable"
            /\ r.indexStatus = IF Success(given.status) THEN "Indexable" ELSE "HTTP"
<1> HIDE DEF Success
<1> DEFINE q == StatusRecord(u, given.status, c, error)
           r == WithHeaders(q, given)
           x == IF Success(given.status) THEN "Indexable" ELSE "Non-indexable"
           y == IF Success(given.status) THEN "Indexable" ELSE "HTTP"
<1>1. /\ Unread(q, u) /\ Basics(q, item, u, c)
      /\ q.status = given.status /\ q.error = error /\ q.reason = ""
      /\ q.indexability = x /\ q.indexStatus = y
  <2>1. Unread(q, u) /\ Basics(q, item, u, c) /\ OnlyStatus(q, given.status, error)
    BY StatusUnread
  <2> HIDE DEF q
  <2> QED BY <2>1 DEF OnlyStatus
<1>a. x \in {"Indexable", "Non-indexable"} /\ y \in {"Indexable", "HTTP"}
  OBVIOUS
<1> HIDE DEF q, x, y
<1>2. /\ Wide(r) /\ Keeps(r, q, {"type", "secure", "canonical", "canonicals", "robots"})
      /\ r.type = given.type /\ r.secure = given.secure /\ r.canonical = given.header.canonical
      /\ r.canonicals = IF given.header.canonical = None THEN 0 ELSE 1
  BY <1>1, HeadersKeep, ZenonT(40) DEF Unread
<1> HIDE DEF r
<1>3. \A f \in AllFields \ {"type", "secure", "canonical", "canonicals", "robots"} : r[f] = q[f]
  BY <1>2 DEF Keeps
<1>4. /\ r.status = q.status /\ r.error = q.error /\ r.reason = q.reason /\ r.internal = q.internal
      /\ r.indexability = q.indexability /\ r.indexStatus = q.indexStatus
  BY <1>3 DEF AllFields
<1>5. /\ r.text = q.text /\ r.next = q.next /\ r.prev = q.prev /\ r.amp = q.amp /\ r.hreflang = q.hreflang
      /\ r.doctype = q.doctype /\ r.evidence = q.evidence /\ r.words = q.words
  BY <1>3 DEF AllFields
<1>6. Basics(r, item, u, c)
  BY <1>1, <1>2, BasicsKept
<1>7. NoSignals(r, given)
  <2>1. r.canonicals \in Nat
    BY <1>2
  <2> QED BY <1>1, <2>1, <1>5 DEF Unread, NoSignals
<1>8. Given(r, u, given)
  BY <1>1, <1>a, <1>2, <1>4 DEF Unread, Given, Statuses
<1> QED BY <1>1, <1>2, <1>4, <1>6, <1>7, <1>8 DEF q, r, x, y

LEMMA DirectedGiven ==
  ASSUME NEW q, NEW u, NEW given, NEW i, NEW c, Given(q, u, given), Basics(q, i, u, c)
  PROVE  LET r == Directed(q)
         IN /\ Given(r, u, given) /\ Basics(r, i, u, c) /\ r.error = q.error
            /\ r.canonical = q.canonical
            /\ NoSignals(q, given) => NoSignals(r, given)
            /\ Signals(q, given) => Signals(r, given)
            /\ \/ r.indexStatus = q.indexStatus
               \/ r.indexStatus \in {"X-Robots-Tag noindex", "Meta robots noindex", "Canonicalized"}
<1> DEFINE r == Directed(q)
<1>1. /\ Wide(r) /\ Keeps(r, q, {"indexability", "indexStatus"})
      /\ \/ r.indexability = q.indexability /\ r.indexStatus = q.indexStatus
         \/ /\ r.indexability = "Non-indexable"
            /\ r.indexStatus \in {"X-Robots-Tag noindex", "Meta robots noindex", "Canonicalized"}
  BY DirectedKeeps DEF Given
<1> HIDE DEF r
<1>3. \A f \in AllFields \ {"indexability", "indexStatus"} : r[f] = q[f]
  BY <1>1 DEF Keeps
<1>4. /\ r.status = q.status /\ r.error = q.error /\ r.reason = q.reason /\ r.internal = q.internal
      /\ r.type = q.type /\ r.secure = q.secure
  BY <1>3 DEF AllFields
<1>5. /\ r.text = q.text /\ r.next = q.next /\ r.prev = q.prev /\ r.amp = q.amp /\ r.hreflang = q.hreflang
      /\ r.doctype = q.doctype /\ r.evidence = q.evidence /\ r.words = q.words
      /\ r.canonical = q.canonical /\ r.canonicals = q.canonicals
  BY <1>3 DEF AllFields
<1>6. Basics(r, i, u, c)
  BY <1>1, BasicsKept
<1>7. Given(r, u, given)
  BY <1>1, <1>4 DEF Given, Statuses
<1>8. (NoSignals(q, given) => NoSignals(r, given)) /\ (Signals(q, given) => Signals(r, given))
  BY <1>5 DEF NoSignals, Signals
<1> QED BY <1>1, <1>4, <1>5, <1>6, <1>7, <1>8 DEF r

LEMMA CutGiven ==
  ASSUME NEW u, NEW given, NEW c
  PROVE  LET r == CutRecord(u, given, c)
         IN /\ Given(r, u, given) /\ NoSignals(r, given) /\ Basics(r, item, u, c) /\ r.error = "cut"
            /\ r.indexStatus = "Response body incomplete"
<1> DEFINE h == WithHeaders(StatusRecord(u, given.status, c, "cut"), given)
           d == Directed(h)
           r == CutRecord(u, given, c)
           x == IF d.indexability = "Indexable" THEN "Unknown" ELSE d.indexability
<1>1. Given(h, u, given) /\ NoSignals(h, given) /\ Basics(h, item, u, c) /\ h.error = "cut"
  BY HeadersGiven
<1>0. r = [d EXCEPT !.indexability = x, !.indexStatus = "Response body incomplete"]
  BY DEF CutRecord
<1> HIDE DEF h
<1>2. Given(d, u, given) /\ NoSignals(d, given) /\ Basics(d, item, u, c) /\ d.error = "cut"
  BY <1>1, DirectedGiven
<1> HIDE DEF d
<1>a. x \in {"Indexable", "Non-indexable", "Unknown"}
  BY <1>2 DEF Given
<1> HIDE DEF r, x
<1>b. Wide(r) /\ Keeps(r, d, {"indexability", "indexStatus"})
  BY <1>0, <1>2 DEF Given, Wide, Keeps, AllFields
<1>c. r.indexability = x /\ r.indexStatus = "Response body incomplete"
  BY <1>0, <1>2 DEF Given, Wide, AllFields
<1>3. \A f \in AllFields \ {"indexability", "indexStatus"} : r[f] = d[f]
  BY <1>b DEF Keeps
<1>4. /\ r.status = d.status /\ r.error = d.error /\ r.reason = d.reason /\ r.internal = d.internal
      /\ r.type = d.type /\ r.secure = d.secure
  BY <1>3 DEF AllFields
<1>5. /\ r.text = d.text /\ r.next = d.next /\ r.prev = d.prev /\ r.amp = d.amp /\ r.hreflang = d.hreflang
      /\ r.doctype = d.doctype /\ r.evidence = d.evidence /\ r.words = d.words
      /\ r.canonical = d.canonical /\ r.canonicals = d.canonicals
  BY <1>3 DEF AllFields
<1>6. Basics(r, item, u, c)
  BY <1>2, <1>b, BasicsKept
<1>7. Given(r, u, given)
  BY <1>2, <1>4, <1>a, <1>b, <1>c DEF Given, Statuses
<1>8. NoSignals(r, given)
  BY <1>2, <1>5 DEF NoSignals
<1> QED BY <1>2, <1>4, <1>6, <1>7, <1>8, <1>c DEF r

LEMMA AnswerGiven ==
  ASSUME NEW u, NEW given, NEW c
  PROVE  LET r == AnswerRecord(u, given, c)
         IN /\ Given(r, u, given) /\ Basics(r, item, u, c)
            /\ r.error \in {None, "JavaScript rendering failed"}
            /\ r.indexStatus # "Response body incomplete"
            /\ given.type # "html" => NoSignals(r, given)
            /\ given.type = "html" => Signals(r, given)
<1> DEFINE h == WithHeaders(StatusRecord(u, given.status, c, None), given)
           plain == [h EXCEPT !.hash = given.page.hash]
           scripted == IF given.script = "failed"
                       THEN [plain EXCEPT !.error = "JavaScript rendering failed"] ELSE plain
           w == WithPage(scripted, given.page)
           q == IF given.type = "html" THEN w ELSE plain
           r == AnswerRecord(u, given, c)
           Meant(p) == /\ Given(p, u, given) /\ Basics(p, item, u, c)
                       /\ p.indexStatus # "Response body incomplete"
                       /\ p.error \in {None, "JavaScript rendering failed"}
<1>0. r = Directed(q)
  BY DEF AnswerRecord
<1>1. Meant(h) /\ NoSignals(h, given) /\ h.canonical = given.header.canonical
  <2>1. /\ Given(h, u, given) /\ NoSignals(h, given) /\ Basics(h, item, u, c) /\ h.error = None
        /\ h.canonical = given.header.canonical
        /\ h.indexStatus = IF Success(given.status) THEN "Indexable" ELSE "HTTP"
    BY HeadersGiven
  <2> HIDE DEF h, Success
  <2> QED BY <2>1
<1> HIDE DEF h, r, q
<1>2. Meant(plain) /\ NoSignals(plain, given) /\ plain.canonical = given.header.canonical
  <2>1. Wide(plain) /\ Keeps(plain, h, {"hash"})
    BY <1>1 DEF Given, Wide, Keeps, AllFields
  <2> HIDE DEF plain
  <2>2. \A f \in AllFields \ {"hash"} : plain[f] = h[f]
    BY <2>1 DEF Keeps
  <2>4. /\ plain.status = h.status /\ plain.error = h.error /\ plain.reason = h.reason /\ plain.internal = h.internal
        /\ plain.type = h.type /\ plain.secure = h.secure /\ plain.indexStatus = h.indexStatus
        /\ plain.indexability = h.indexability
    BY <2>2 DEF AllFields
  <2>5. /\ plain.text = h.text /\ plain.next = h.next /\ plain.prev = h.prev /\ plain.amp = h.amp /\ plain.hreflang = h.hreflang
        /\ plain.doctype = h.doctype /\ plain.evidence = h.evidence /\ plain.words = h.words
        /\ plain.canonical = h.canonical /\ plain.canonicals = h.canonicals
    BY <2>2 DEF AllFields
  <2>6. Basics(plain, item, u, c)
    BY <1>1, <2>1, BasicsKept
  <2>7. Given(plain, u, given)
    BY <1>1, <2>1, <2>4 DEF Given
  <2>8. NoSignals(plain, given)
    BY <1>1, <2>5 DEF NoSignals
  <2> QED BY <1>1, <2>4, <2>5, <2>6, <2>7, <2>8
<1> HIDE DEF plain
<1>3. Meant(scripted) /\ NoSignals(scripted, given) /\ scripted.canonical = given.header.canonical
  <2>1. CASE given.script = "failed"
    <3> DEFINE z == [plain EXCEPT !.error = "JavaScript rendering failed"]
    <3>0. scripted = z
      BY <2>1
    <3>1. Wide(z) /\ Keeps(z, plain, {"error"}) /\ z.error = "JavaScript rendering failed"
      BY <1>2 DEF Given, Wide, Keeps, AllFields
    <3> HIDE DEF z
    <3>2. \A f \in AllFields \ {"error"} : z[f] = plain[f]
      BY <3>1 DEF Keeps
    <3>4. /\ z.status = plain.status /\ z.reason = plain.reason /\ z.internal = plain.internal
          /\ z.type = plain.type /\ z.secure = plain.secure /\ z.indexStatus = plain.indexStatus
          /\ z.indexability = plain.indexability
      BY <3>2 DEF AllFields
    <3>5. /\ z.text = plain.text /\ z.next = plain.next /\ z.prev = plain.prev /\ z.amp = plain.amp /\ z.hreflang = plain.hreflang
          /\ z.doctype = plain.doctype /\ z.evidence = plain.evidence /\ z.words = plain.words
          /\ z.canonical = plain.canonical /\ z.canonicals = plain.canonicals
      BY <3>2 DEF AllFields
    <3>6. Basics(z, item, u, c)
      BY <1>2, <3>1, BasicsKept
    <3>7. Given(z, u, given)
      BY <1>2, <3>1, <3>4 DEF Given
    <3>8. NoSignals(z, given)
      BY <1>2, <3>5 DEF NoSignals
    <3>9. Meant(z) /\ z.canonical = given.header.canonical
      BY <1>2, <3>1, <3>4, <3>5, <3>6, <3>7
    <3> QED BY <3>0, <3>8, <3>9, Zenon
  <2>2. CASE given.script # "failed"
    <3>0. scripted = plain
      BY <2>2
    <3> QED BY <3>0, <1>2
  <2> QED BY <2>1, <2>2
<1> HIDE DEF scripted
<1>4. Meant(w) /\ Signals(w, given)
  <2>1. /\ Wide(w)
        /\ Keeps(w, scripted, {"text", "canonical", "canonicals", "next", "prev", "amp", "hreflang", "ampDocument",
                        "doctype", "evidence", "words", "cluster", "robots"})
        /\ w.text = given.page.text /\ w.next = given.page.next /\ w.prev = given.page.prev /\ w.amp = given.page.amp
        /\ w.hreflang = given.page.hreflang /\ w.doctype = given.page.doctype /\ w.evidence = given.page.evidence
        /\ w.words = given.page.words
        /\ w.canonical = IF given.page.canonical = None THEN scripted.canonical ELSE given.page.canonical
        /\ w.canonicals = scripted.canonicals + IF given.page.canonical = None THEN 0 ELSE 1
    <3>1. Wide(scripted)
      BY <1>3 DEF Given
    <3> QED BY <3>1, PageKeeps, Zenon
  <2> HIDE DEF w
  <2>2. \A f \in {"status", "error", "reason", "internal", "type", "secure", "indexStatus", "indexability"} :
           w[f] = scripted[f]
    BY <2>1 DEF Keeps, AllFields
  <2>4. /\ w.status = scripted.status /\ w.error = scripted.error /\ w.reason = scripted.reason
        /\ w.internal = scripted.internal /\ w.type = scripted.type /\ w.secure = scripted.secure
        /\ w.indexStatus = scripted.indexStatus /\ w.indexability = scripted.indexability
    BY <2>2
  <2>5. scripted.canonicals \in Nat
    BY <1>3 DEF NoSignals
  <2>a. w.canonicals \in Nat
    BY <2>1, <2>5
  <2>6. Basics(w, item, u, c)
    BY <1>3, <2>1, BasicsKept
  <2>7. Given(w, u, given)
    BY <1>3, <2>1, <2>4 DEF Given
  <2>8. Signals(w, given)
    BY <1>3, <2>1, <2>a DEF Signals
  <2> QED BY <1>3, <2>4, <2>6, <2>7, <2>8
<1> HIDE DEF w
<1>5. /\ Meant(q)
      /\ given.type # "html" => NoSignals(q, given)
      /\ given.type = "html" => Signals(q, given)
  BY <1>2, <1>4, Zenon DEF q
<1>6. /\ Given(r, u, given) /\ Basics(r, item, u, c) /\ r.error = q.error
      /\ NoSignals(q, given) => NoSignals(r, given)
      /\ Signals(q, given) => Signals(r, given)
      /\ \/ r.indexStatus = q.indexStatus
         \/ r.indexStatus \in {"X-Robots-Tag noindex", "Meta robots noindex", "Canonicalized"}
  BY <1>0, <1>5, DirectedGiven
<1> QED BY <1>5, <1>6 DEF r

-----------------------------------------------------------------------------
(* Every record is of its type.                                            *)

LEMMA PhrasesAreNot ==
  /\ None \notin Nat /\ None \notin BOOLEAN
  /\ None # "" /\ None # "No response" /\ None # "Blocked by robots.txt" /\ None # "HTTP"
  /\ None # "Indexable" /\ None # "Non-indexable" /\ None # "Unknown" /\ None # "Canonicalized"
  /\ None # "X-Robots-Tag noindex" /\ None # "Meta robots noindex" /\ None # "Response body incomplete"
BY ViewAssumption DEF Phrases

LEMMA NoTextIsTyped ==
  ASSUME NEW e \in Elements, NEW t, t = [x \in Elements |-> NoText]
  PROVE  /\ t[e].value \in Texts /\ t[e].count \in Nat \cup {None} /\ t[e].size \in Nat
         /\ Key(t[e].value) = "" => t[e].size = 0
BY DEF NoText, Texts

LEMMA UnreadIsTyped ==
  ASSUME NEW r, NEW u, Unread(r, u), r.status \in Nat \cup {None},
         r.reason # None, r.indexability # None, r.indexStatus # None
  PROVE  Typed(r)
<1>0. r.internal \in BOOLEAN
  BY MembershipIsTrueOrFalse DEF Unread
<1>1. r.secure \in BOOLEAN /\ r.doctype \in BOOLEAN \cup {None}
  <2>1. r.secure = FALSE /\ r.doctype = None
    BY DEF Unread
  <2> QED BY <2>1
<1>3. r.canonicals \in Nat /\ r.evidence \in Nat /\ r.words \in Nat
  <2>1. r.canonicals = 0 /\ r.evidence = 0 /\ r.words = 0
    BY DEF Unread
  <2> QED BY <2>1
<1>2. \A e \in Elements : /\ r.text[e].value \in Texts
                          /\ r.text[e].count \in Nat \cup {None} /\ r.text[e].size \in Nat
                          /\ Key(r.text[e].value) = "" => r.text[e].size = 0
  <2>1. r.text = [e \in Elements |-> NoText]
    BY DEF Unread
  <2> QED BY <2>1, NoTextIsTyped
<1> QED BY <1>0, <1>1, <1>2, <1>3 DEF Typed

LEMMA GivenIsTyped ==
  ASSUME NEW r, NEW u, NEW given, Given(r, u, given), NoSignals(r, given) \/ Signals(r, given),
         given.status \in Nat, given.secure \in BOOLEAN, PageAssumption(given.page)
  PROVE  Typed(r)
<1>0. r.internal \in BOOLEAN
  BY MembershipIsTrueOrFalse DEF Given
<1>1. r.status \in Nat /\ r.secure \in BOOLEAN /\ r.reason # None
  BY PhrasesAreNot DEF Given
<1>2. r.indexability # None /\ r.indexStatus # None
  BY PhrasesAreNot DEF Given, Statuses
<1>3. r.canonicals \in Nat /\ r.evidence \in Nat /\ r.words \in Nat /\ r.doctype \in BOOLEAN \cup {None}
  <2>1. CASE NoSignals(r, given)
    BY <2>1 DEF NoSignals
  <2>2. CASE Signals(r, given)
    <3>1. given.page.evidence \in Nat /\ given.page.words \in Nat /\ given.page.doctype \in BOOLEAN \cup {None}
      BY DEF PageAssumption
    <3> QED BY <2>2, <3>1 DEF Signals
  <2> QED BY <2>1, <2>2
<1>4. \A e \in Elements : /\ r.text[e].value \in Texts
                          /\ r.text[e].count \in Nat \cup {None} /\ r.text[e].size \in Nat
                          /\ Key(r.text[e].value) = "" => r.text[e].size = 0
  <2>1. CASE NoSignals(r, given)
    <3>1. r.text = [e \in Elements |-> NoText]
      BY <2>1 DEF NoSignals
    <3> QED BY <3>1, NoTextIsTyped
  <2>2. CASE Signals(r, given)
    <3>1. r.text = given.page.text
      BY <2>2 DEF Signals
    <3>2. /\ given.page.text \in [Elements -> [value : Texts, count : Nat \cup {None}, size : Nat]]
          /\ \A e \in Elements : Key(given.page.text[e].value) = "" => given.page.text[e].size = 0
      BY DEF PageAssumption
    <3> HIDE DEF Texts, Key
    <3> QED BY <3>1, <3>2
  <2> QED BY <2>1, <2>2
<1> QED BY <1>0, <1>1, <1>2, <1>3, <1>4 DEF Typed

-----------------------------------------------------------------------------
(* The invariant of the records: each is made in one of seven ways, no URL *)
(* has two, and the fetch on its way is of a URL that has none.            *)

(* How a record was made: a fetch of its URL had come to u over c, and ended *)
(* there, in one of seven ways.                                            *)
Arrived(r, u, c) == r.final = u /\ r.chain = c
Refusal(r) == Unread(r, r.final) /\ OnlyError(r, r.error, "Blocked by robots.txt")
Failure(r, error) == Unread(r, r.final) /\ OnlyError(r, error, "No response")
Stray(r) ==
  Unread(r, r.final) /\ OnlyStatus(r, 301, "Redirect response missing Location header")
Answered(s, r) ==
  LET given == s[r.final]
  IN /\ Given(r, r.final, given)
     /\ \/ /\ given.cut /\ NoSignals(r, given)
           /\ r.error = "cut" /\ r.indexStatus = "Response body incomplete"
        \/ /\ ~given.cut /\ r.error \in {None, "JavaScript rendering failed"}
           /\ r.indexStatus # "Response body incomplete"
           /\ given.type # "html" => NoSignals(r, given)
           /\ given.type = "html" => Signals(r, given)
EndedAt(s, r, u, c) ==
  \/ s[u].kind = "blocked" /\ Arrived(r, u, c) /\ Refusal(r)
  \/ s[u].kind = "refused" /\ Arrived(r, u, c) /\ Failure(r, "refused")
  \/ s[u].kind = "redirect" /\ s[u].to = Junk /\ Arrived(r, u, c) /\ Failure(r, "Invalid redirect target")
  \/ s[u].kind = "redirect" /\ s[u].to = None /\ Arrived(r, u, c) /\ Stray(r)
  \/ /\ Redirects(s, u) /\ Met(s, u, c)
     /\ Arrived(r, u, Longer(s, u, c)) /\ Failure(r, "Redirect loop detected")
  \/ /\ Redirects(s, u) /\ ~Met(s, u, c) /\ Len(c) = MaxRedirects
     /\ Arrived(r, s[u].to, Longer(s, u, c)) /\ Failure(r, "Redirect limit exceeded")
  \/ s[u].kind = "answer" /\ Arrived(r, u, c) /\ Answered(s, r)
Made(s, r) == \E u, c : OnTheWay(s, r.url, u, c) /\ EndedAt(s, r, u, c)

LEMMA OnTheWayToUrl ==
  ASSUME NEW s, NEW i, NEW u, NEW c, OnTheWay(s, i, u, c)
  PROVE  u \in Urls /\ Len(c) \in 0..MaxRedirects
<1>1. Len(c) \in Nat /\ Len(c) <= MaxRedirects
  BY DEF OnTheWay
<1>2. Len(c) \in 0..MaxRedirects /\ Len(c) \in 0..Len(c)
  BY <1>1, LimitIsNat
<1> QED BY <1>2 DEF OnTheWay

LEMMA MadeIsTyped ==
  ASSUME NEW s \in Sites, NEW r, Made(s, r)
  PROVE  Typed(r)
<1>1. PICK u, c : OnTheWay(s, r.url, u, c) /\ EndedAt(s, r, u, c)
  BY DEF Made
<1>2. CASE Refusal(r) \/ \E error : Failure(r, error)
  <2>1. Unread(r, r.final) /\ \E error, words : OnlyError(r, error, words) /\ words # None
    BY <1>2, PhrasesAreNot DEF Refusal, Failure
  <2>2. r.reason # None /\ r.indexability # None /\ r.indexStatus # None /\ r.status \in Nat \cup {None}
    BY <2>1, PhrasesAreNot DEF OnlyError
  <2> QED BY <2>1, <2>2, UnreadIsTyped
<1>3. CASE Stray(r)
  <2>1. r.reason # None /\ r.indexability # None /\ r.indexStatus # None /\ r.status \in Nat \cup {None}
    <3>1. OnlyStatus(r, 301, "Redirect response missing Location header")
      BY <1>3 DEF Stray
    <3> HIDE DEF Success
    <3>2. /\ r.status = 301 /\ r.reason = ""
          /\ r.indexability \in {"Indexable", "Non-indexable"} /\ r.indexStatus \in {"Indexable", "HTTP"}
      BY <3>1 DEF OnlyStatus
    <3>3. r.status \in Nat
      <4>1. r.status = 301
        BY <3>2
      <4>2. 301 \in Nat
        OBVIOUS
      <4> QED BY <4>1, <4>2, Zenon
    <3>4. r.reason # None /\ r.indexability # None /\ r.indexStatus # None
      BY <3>2, PhrasesAreNot, Zenon
    <3> QED BY <3>3, <3>4
  <2> QED BY <1>3, <2>1, UnreadIsTyped DEF Stray
<1>4. CASE s[u].kind = "answer" /\ Arrived(r, u, c) /\ Answered(s, r)
  <2> DEFINE given == s[r.final]
  <2>1. Given(r, r.final, given) /\ (NoSignals(r, given) \/ Signals(r, given))
    BY <1>4 DEF Answered
  <2>2. given.status \in Nat /\ given.secure \in BOOLEAN /\ PageAssumption(given.page)
    <3>1. r.final \in Urls /\ given.kind = "answer"
      BY <1>1, <1>4, OnTheWayToUrl DEF Arrived
    <3> QED BY <3>1, ViewAssumption
  <2> HIDE DEF given
  <2> QED BY <2>1, <2>2, GivenIsTyped
<1> QED BY <1>1, <1>2, <1>3, <1>4 DEF EndedAt

Stocked ==
  /\ step # "idle" => item \notin Done
  /\ \A i \in DOMAIN records : Made(site, records[i])
  /\ \A i, k \in DOMAIN records : records[i].url = records[k].url => i = k

LEMMA ErrorIsFailure ==
  ASSUME NEW u, NEW c, NEW error
  PROVE  LET r == ErrorRecord(u, error, c)
         IN Failure(r, error) /\ Arrived(r, u, c) /\ r.url = item
<1> DEFINE r == ErrorRecord(u, error, c)
<1>1. Unread(r, u) /\ Basics(r, item, u, c) /\ OnlyError(r, error, "No response")
  BY ErrorUnread
<1> HIDE DEF r
<1> QED BY <1>1 DEF Basics, Failure, Arrived, r

LEMMA BlockedIsRefusal ==
  ASSUME NEW u, NEW c, NEW why
  PROVE  LET r == BlockedRecord(u, c, why)
         IN Refusal(r) /\ Arrived(r, u, c) /\ r.url = item
<1> DEFINE r == BlockedRecord(u, c, why)
<1>1. Unread(r, u) /\ Basics(r, item, u, c) /\ OnlyError(r, why, "Blocked by robots.txt")
  BY BlockedUnread
<1> HIDE DEF r
<1>2. OnlyError(r, r.error, "Blocked by robots.txt")
  BY <1>1 DEF OnlyError
<1> QED BY <1>1, <1>2 DEF Basics, Refusal, Arrived, r

LEMMA StatusIsStray ==
  ASSUME NEW u, NEW c
  PROVE  LET r == StatusRecord(u, 301, c, "Redirect response missing Location header")
         IN Stray(r) /\ Arrived(r, u, c) /\ r.url = item
<1> DEFINE r == StatusRecord(u, 301, c, "Redirect response missing Location header")
<1>1. /\ Unread(r, u) /\ Basics(r, item, u, c)
      /\ OnlyStatus(r, 301, "Redirect response missing Location header")
  <2>1. \A status, error : /\ Unread(StatusRecord(u, status, c, error), u)
                           /\ Basics(StatusRecord(u, status, c, error), item, u, c)
                           /\ OnlyStatus(StatusRecord(u, status, c, error), status, error)
    BY StatusUnread
  <2> HIDE DEF Unread, Basics, OnlyStatus, StatusRecord
  <2> QED BY <2>1, ZenonT(60)
<1> HIDE DEF r
<1> QED BY <1>1 DEF Basics, Stray, Arrived, r

LEMMA AnswerIsMade ==
  ASSUME NEW u, NEW c
  PROVE  /\ LET r == CutRecord(u, site[u], c)
            IN site[u].cut => Answered(site, r) /\ Arrived(r, u, c) /\ r.url = item
         /\ LET r == AnswerRecord(u, site[u], c)
            IN ~site[u].cut => Answered(site, r) /\ Arrived(r, u, c) /\ r.url = item
<1> DEFINE given == site[u]
<1>1. ASSUME given.cut
      PROVE  LET r == CutRecord(u, given, c)
             IN Answered(site, r) /\ Arrived(r, u, c) /\ r.url = item
  <2> DEFINE r == CutRecord(u, given, c)
  <2>1. /\ Given(r, u, given) /\ NoSignals(r, given) /\ Basics(r, item, u, c) /\ r.error = "cut"
        /\ r.indexStatus = "Response body incomplete"
    BY CutGiven
  <2> HIDE DEF r
  <2>2. r.final = u /\ r.url = item /\ r.chain = c
    BY <2>1 DEF Basics
  <2>3. Answered(site, r)
    BY <1>1, <2>1, <2>2 DEF Answered
  <2> QED BY <2>2, <2>3 DEF r, Arrived
<1>2. ASSUME ~given.cut
      PROVE  LET r == AnswerRecord(u, given, c)
             IN Answered(site, r) /\ Arrived(r, u, c) /\ r.url = item
  <2> DEFINE r == AnswerRecord(u, given, c)
  <2>1. /\ Given(r, u, given) /\ Basics(r, item, u, c)
        /\ r.error \in {None, "JavaScript rendering failed"}
        /\ r.indexStatus # "Response body incomplete"
        /\ given.type # "html" => NoSignals(r, given)
        /\ given.type = "html" => Signals(r, given)
    BY AnswerGiven
  <2> HIDE DEF r
  <2>2. r.final = u /\ r.url = item /\ r.chain = c
    BY <2>1 DEF Basics
  <2>3. Answered(site, r)
    BY <1>2, <2>1, <2>2 DEF Answered
  <2> QED BY <2>2, <2>3 DEF r, Arrived
<1> QED BY <1>1, <1>2

LEMMA EndsMade ==
  ASSUME Fetching, step # "idle", NEW r, r.url = item, EndedAt(site, r, url, chain)
  PROVE  Made(site, r)
<1>1. OnTheWay(site, item, url, chain)
  BY AnswerInHand
<1> QED BY <1>1, Zenon DEF Made

LEMMA ReturnStocks ==
  ASSUME Fetching, Stocked, step # "idle", NEW r, Made(site, r), r.url = item, Return(r)
  PROVE  Stocked'
<1> DEFINE n == Len(records)
           S == Range(records)
<1>1. records' = Append(records, r) /\ site' = site /\ step' = "idle"
  BY DEF Return
<1>2. records \in Seq(S) /\ n \in Nat /\ DOMAIN records = 1..n
  BY DEF Fetching
<1>3. <<r>> \in Seq({r}) /\ records \in Seq(S \cup {r}) /\ r \in S \cup {r}
  BY <1>2, SeqMonotonic
<1> HIDE DEF S
<1>4. /\ DOMAIN records' = 1..n + 1
      /\ records'[n + 1] = r /\ \A i \in 1..n : records'[i] = records[i]
  BY <1>1, <1>2, <1>3
<1>5. \A i \in 1..n : records[i].url # item
  BY <1>2 DEF Stocked, Done
<1>6. \A i \in 1..n + 1 : i \in 1..n \/ i = n + 1
  BY <1>2
<1> HIDE DEF n
<1>7. \A i \in DOMAIN records' : Made(site', records'[i])
  BY <1>1, <1>2, <1>4, <1>6 DEF Stocked
<1>8. \A i, k \in DOMAIN records' : records'[i].url = records'[k].url => i = k
  BY <1>2, <1>4, <1>5, <1>6 DEF Stocked
<1> QED BY <1>1, <1>7, <1>8 DEF Stocked

LEMMA NoneStocks ==
  ASSUME Stocked, UNCHANGED <<site, records>>, step' # "idle" => item' \notin Done
  PROVE  Stocked'
<1>1. Done' = Done
  BY DEF Done
<1> QED BY <1>1 DEF Stocked

LEMMA RedirectedStocks ==
  ASSUME Fetching, Stocked, step = "request", site[url].kind = "redirect",
         NEW to, to = site[url].to, to \in Targets \cup {None}, Redirected(to)
  PROVE  Stocked'
<1>0. step # "idle"
  OBVIOUS
<1>1. Fetching /\ Loops(to) = Met(site, url, chain) /\ Hop(to) = Longer(site, url, chain)
  BY DEF Loops, Met, Hop, Longer
<1>2. Junk \notin Urls /\ None \notin Urls /\ None # Junk
  BY FetchAssumption DEF Targets
<1>3. CASE to = None
  <2> DEFINE r == StatusRecord(url, 301, chain, "Redirect response missing Location header")
  <2>1. Return(r)
    BY <1>2, <1>3, Zenon DEF Redirected
  <2>3. Stray(r) /\ Arrived(r, url, chain) /\ r.url = item
    BY StatusIsStray, ZenonT(60)
  <2> HIDE DEF r
  <2>2. Made(site, r) /\ r.url = item
    BY <1>0, <1>3, <2>3, EndsMade DEF EndedAt
  <2> QED BY <1>0, <2>1, <2>2, ReturnStocks
<1>4. CASE to = Junk
  <2> DEFINE r == ErrorRecord(url, "Invalid redirect target", chain)
  <2>1. Return(r)
    BY <1>2, <1>4, Zenon DEF Redirected
  <2>3. Failure(r, "Invalid redirect target") /\ Arrived(r, url, chain) /\ r.url = item
    BY ErrorIsFailure
  <2> HIDE DEF r
  <2>4. EndedAt(site, r, url, chain)
    BY <1>1, <1>4, <2>3 DEF EndedAt, Redirects, Spent
  <2>2. Made(site, r) /\ r.url = item
    BY <1>0, <2>3, <2>4, EndsMade
  <2> QED BY <1>0, <2>1, <2>2, ReturnStocks
<1>5. CASE to \in Urls /\ Loops(to)
  <2> DEFINE r == ErrorRecord(url, "Redirect loop detected", Hop(to))
  <2>1. Return(r)
    BY <1>2, <1>5, Zenon DEF Redirected
  <2>3. Failure(r, "Redirect loop detected") /\ Arrived(r, url, Hop(to)) /\ r.url = item
    BY ErrorIsFailure
  <2> HIDE DEF r
  <2>4. EndedAt(site, r, url, chain)
    BY <1>1, <1>5, <2>3 DEF EndedAt, Redirects, Spent
  <2>2. Made(site, r) /\ r.url = item
    BY <1>0, <2>3, <2>4, EndsMade
  <2> QED BY <1>0, <2>1, <2>2, ReturnStocks
<1>6. CASE to \in Urls /\ ~Loops(to) /\ Spent
  <2> DEFINE r == ErrorRecord(to, "Redirect limit exceeded", Hop(to))
  <2>1. Return(r)
    BY <1>2, <1>6, Zenon DEF Redirected
  <2>3. Failure(r, "Redirect limit exceeded") /\ Arrived(r, to, Hop(to)) /\ r.url = item
    BY ErrorIsFailure
  <2> HIDE DEF r
  <2>4. EndedAt(site, r, url, chain)
    BY <1>1, <1>6, <2>3 DEF EndedAt, Redirects, Spent
  <2>2. Made(site, r) /\ r.url = item
    BY <1>0, <2>3, <2>4, EndsMade
  <2> QED BY <1>0, <2>1, <2>2, ReturnStocks
<1>7. CASE to \in Urls /\ ~Loops(to) /\ ~Spent
  <2>1. UNCHANGED <<site, cancelled, item, records>>
    BY <1>2, <1>7, Zenon DEF Redirected
  <2> QED BY <1>0, <2>1, NoneStocks DEF Stocked
<1> QED BY <1>2, <1>3, <1>4, <1>5, <1>6, <1>7 DEF Targets

LEMMA StockedStep == Fetching /\ Stocked /\ [Next]_vars => Stocked'
<1> SUFFICES ASSUME Fetching, Stocked, [Next]_vars PROVE Stocked'
  OBVIOUS
<1>1. ASSUME NEW i \in Urls, Begin(i) PROVE Stocked'
  <2>1. UNCHANGED <<site, records>> /\ item' = i /\ i \notin Done
    BY <1>1 DEF Begin
  <2> QED BY <2>1, NoneStocks
<1>2. CASE Permission
  <2>1. step # "idle"
    BY <1>2 DEF Permission
  <2>2. CASE site[url].kind = "blocked"
    <3> DEFINE r == BlockedRecord(url, chain, site[url].why)
    <3>1. Return(r)
      BY <1>2, <2>2 DEF Permission
    <3>3. Refusal(r) /\ Arrived(r, url, chain) /\ r.url = item
      BY BlockedIsRefusal
    <3> HIDE DEF r
    <3>2. Made(site, r) /\ r.url = item
      BY <2>1, <2>2, <3>3, EndsMade DEF EndedAt
    <3> QED BY <2>1, <3>1, <3>2, ReturnStocks
  <2>3. CASE site[url].kind # "blocked"
    <3>1. UNCHANGED <<site, cancelled, item, records>>
      BY <1>2, <2>3 DEF Permission
    <3> QED BY <2>1, <3>1, NoneStocks DEF Stocked
  <2> QED BY <2>2, <2>3
<1>3. CASE Request
  <2>1. step # "idle" /\ step = "request"
    BY <1>3 DEF Request
  <2>2. CASE site[url].kind = "refused"
    <3> DEFINE r == ErrorRecord(url, "refused", chain)
    <3>1. Return(r)
      BY <1>3, <2>2 DEF Request
    <3>3. Failure(r, "refused") /\ Arrived(r, url, chain) /\ r.url = item
      BY ErrorIsFailure
    <3> HIDE DEF r
    <3>2. Made(site, r) /\ r.url = item
      BY <2>1, <2>2, <3>3, EndsMade DEF EndedAt
    <3> QED BY <2>1, <3>1, <3>2, ReturnStocks
  <2>3. CASE site[url].kind = "redirect"
    <3>1. Redirected(site[url].to)
      BY <1>3, <2>3 DEF Request
    <3>2. site[url].to \in Targets \cup {None}
      BY <2>1, <2>3, AnswerInHand DEF AnswerAssumption
    <3> QED BY <2>1, <2>3, <3>1, <3>2, RedirectedStocks
  <2>4. CASE site[url].kind \notin {"refused", "redirect"}
    <3>1. UNCHANGED <<site, cancelled, item, records>>
      BY <1>3, <2>4 DEF Request
    <3> QED BY <2>1, <3>1, NoneStocks DEF Stocked
  <2> QED BY <2>2, <2>3, <2>4
<1>4. CASE Body \/ LateBody
  <2>1. step # "idle" /\ step = "body"
    BY <1>4 DEF Body, LateBody
  <2>2. url \in Urls /\ site[url].kind = "answer"
    BY <2>1, AnswerInHand DEF Fetching, Waiting
  <2>3. CASE site[url].cut
    <3> DEFINE r == CutRecord(url, site[url], chain)
    <3>1. Return(r)
      BY <1>4, <2>3 DEF Body, LateBody
    <3>3. Answered(site, r) /\ Arrived(r, url, chain) /\ r.url = item
      BY <2>3, AnswerIsMade
    <3> HIDE DEF r
    <3>2. Made(site, r) /\ r.url = item
      BY <2>1, <2>2, <3>3, EndsMade DEF EndedAt
    <3> QED BY <2>1, <3>1, <3>2, ReturnStocks
  <2>4. CASE ~site[url].cut
    <3> DEFINE r == AnswerRecord(url, site[url], chain)
    <3>1. Return(r)
      BY <1>4, <2>4 DEF Body, LateBody
    <3>3. Answered(site, r) /\ Arrived(r, url, chain) /\ r.url = item
      BY <2>4, AnswerIsMade
    <3> HIDE DEF r
    <3>2. Made(site, r) /\ r.url = item
      BY <2>1, <2>2, <3>3, EndsMade DEF EndedAt
    <3> QED BY <2>1, <3>1, <3>2, ReturnStocks
  <2> QED BY <2>3, <2>4
<1>5. CASE Cancelled
  <2>1. UNCHANGED <<site, records>> /\ step' = "idle"
    BY <1>5 DEF Cancelled
  <2> QED BY <2>1, NoneStocks
<1>6. CASE Stop \/ UNCHANGED vars
  <2>1. UNCHANGED <<site, records, step, item>>
    BY <1>6 DEF Stop, fetch, vars
  <2> QED BY <2>1, NoneStocks DEF Stocked
<1> QED BY <1>1, <1>2, <1>3, <1>4, <1>5, <1>6 DEF Next

LEMMA RecordsAreMade == Spec => [](Fetching /\ Stocked)
<1>1. Init => Fetching /\ Stocked
  <2>1. Init => DOMAIN records = {} /\ step = "idle"
    BY EmptyRange DEF Init
  <2> QED BY <2>1, FetchInit DEF Stocked
<1> QED BY <1>1, FetchStep, StockedStep, PTL DEF Spec

LEMMA StockIsTyped == Fetching /\ Stocked => TypedRows(records)
<1> SUFFICES ASSUME Fetching, Stocked PROVE TypedRows(records)
  OBVIOUS
<1>1. site \in Sites
  BY DEF Fetching
<1>2. \A i \in DOMAIN records : Typed(records[i])
  BY <1>1, MadeIsTyped DEF Stocked
<1>3. DOMAIN records = 1..Len(records) /\ Len(records) \in Nat
  BY DEF Fetching
<1>4. IsFiniteSet(DOMAIN records)
  BY <1>3, FS_Interval
<1> QED BY <1>2, <1>4 DEF TypedRows, Stocked

-----------------------------------------------------------------------------
(* The audit records of the two stores, in which COALESCE turns NULL into a *)
(* value.                                                                  *)

LEMMA CoalescedHolds ==
  ASSUME NEW c \in Truths, NEW p \in BOOLEAN, Holds(c) <=> p
  PROVE  Coalesce(c, FALSE) = p
BY NullIsNoTruth DEF Coalesce, Truths, Holds

LEMMA AnyOfBooleans ==
  ASSUME NEW x \in BOOLEAN, NEW y \in BOOLEAN, NEW z \in BOOLEAN
  PROVE  AnyOf({x, y, z}) = (x \/ y \/ z)
<1>1. None \notin {x, y, z}
  BY NullIsNoTruth
<1>2. TRUE \in {x, y, z} <=> x \/ y \/ z
  OBVIOUS
<1>3. AnyOf({x, y, z}) = IF TRUE \in {x, y, z} THEN TRUE ELSE FALSE
  BY <1>1, Zenon DEF AnyOf
<1> QED BY <1>2, <1>3

LEMMA ConditionsAreBoolean ==
  ASSUME NEW r
  PROVE  /\ IsPage(r) \in BOOLEAN /\ IsBroken(r) \in BOOLEAN /\ IsRedirect(r) \in BOOLEAN
         /\ IsBlocked(r) \in BOOLEAN /\ IsNoResponse(r) \in BOOLEAN
BY DEF IsPage, IsBroken, IsRedirect, IsBlocked, IsNoResponse, IsSuccess

LEMMA PageCoalesces ==
  ASSUME NEW r, Typed(r)
  PROVE  /\ Coalesce(SqlPage(r), FALSE) = IsPage(r)
         /\ Coalesce(SqlBroken(r), FALSE) = IsBroken(r)
         /\ Coalesce(SqlRedirect(r), FALSE) = IsRedirect(r)
<1>1. Coalesce(SqlPage(r), FALSE) = IsPage(r)
  BY PageMeans, ConditionsAreBoolean, CoalescedHolds
<1>2. Coalesce(SqlBroken(r), FALSE) = IsBroken(r)
  BY BrokenMeans, ConditionsAreBoolean, CoalescedHolds
<1>3. Coalesce(SqlRedirect(r), FALSE) = IsRedirect(r)
  BY RedirectMeans, ConditionsAreBoolean, CoalescedHolds
<1> QED BY <1>1, <1>2, <1>3

LEMMA FetchedCoalesces ==
  ASSUME NEW r, Typed(r)
  PROVE  AnyOf({r.status # None, r.error # None, Same(r.reason, "Blocked by robots.txt")})
           = (r.status # None \/ r.error # None \/ IsBlocked(r))
<1> DEFINE a == r.status # None
           b == r.error # None
           c == Same(r.reason, "Blocked by robots.txt")
<1>1. r.reason # None
  BY DEF Typed
<1>2. c = (r.reason = "Blocked by robots.txt")
  BY <1>1, Zenon DEF Same, Test
<1>3. a \in BOOLEAN /\ b \in BOOLEAN /\ c \in BOOLEAN
  BY <1>2
<1> HIDE DEF c
<1>4. AnyOf({a, b, c}) = (a \/ b \/ c)
  BY <1>3, AnyOfBooleans
<1>5. (a \/ b \/ c) = (r.status # None \/ r.error # None \/ IsBlocked(r))
  BY <1>2, NumbersAreNone DEF IsBlocked
<1> QED BY <1>4, <1>5, Zenon DEF c

LEMMA ClosedCoalesces ==
  ASSUME NEW r, Typed(r)
  PROVE  LET closed == AnyOf({
               AllOf({r.status = None, AnyOf({Same(r.reason, "Blocked by robots.txt"),
                                              Same(r.error, "Blocked by robots.txt")})}),
               AllOf({Same(r.indexability, "Non-indexable"), ~Coalesce(SqlBroken(r), FALSE),
                      ~Coalesce(SqlRedirect(r), FALSE)})})
         IN Coalesce(closed, FALSE) =
              (IsBlocked(r) \/ (r.indexability = "Non-indexable" /\ ~IsBroken(r) /\ ~IsRedirect(r)))
<1> DEFINE a == SqlBlocked(r)
           x == Same(r.indexability, "Non-indexable")
           y == ~Coalesce(SqlBroken(r), FALSE)
           z == ~Coalesce(SqlRedirect(r), FALSE)
           b == AllOf({x, y, z})
           p == IsBlocked(r) \/ (r.indexability = "Non-indexable" /\ ~IsBroken(r) /\ ~IsRedirect(r))
<1>1. a \in Truths /\ (Holds(a) <=> IsBlocked(r))
  BY BlockedMeans
<1>2. x \in Truths /\ (Holds(x) <=> r.indexability = "Non-indexable")
  <2>1. r.indexability # None
    BY DEF Typed
  <2> QED BY <2>1, SameHolds
<1>3. y \in Truths /\ (Holds(y) <=> ~IsBroken(r))
  <2>1. y = ~IsBroken(r)
    BY PageCoalesces
  <2> HIDE DEF y
  <2>2. y \in BOOLEAN
    BY <2>1
  <2> QED BY <2>1, <2>2, PlainHolds
<1>4. z \in Truths /\ (Holds(z) <=> ~IsRedirect(r))
  <2>1. z = ~IsRedirect(r)
    BY PageCoalesces
  <2> HIDE DEF z
  <2>2. z \in BOOLEAN
    BY <2>1
  <2> QED BY <2>1, <2>2, PlainHolds
<1> HIDE DEF x, y, z
<1>5. b \in Truths /\ (Holds(b) <=> Holds(x) /\ Holds(y) /\ Holds(z))
  BY <1>2, <1>3, <1>4, AllOfThree
<1> HIDE DEF a, b
<1>6. AnyOf({a, b}) \in Truths /\ (Holds(AnyOf({a, b})) <=> Holds(a) \/ Holds(b))
  BY <1>1, <1>5, AnyOfTwo
<1>7. p \in BOOLEAN /\ (Holds(AnyOf({a, b})) <=> p)
  BY <1>1, <1>2, <1>3, <1>4, <1>5, <1>6
<1> HIDE DEF p
<1>8. Coalesce(AnyOf({a, b}), FALSE) = p
  BY <1>6, <1>7, CoalescedHolds
<1> QED BY <1>8, Zenon DEF a, b, x, y, z, p, SqlBlocked

SqlFailure(r) ==
  AnyOf({Within(r.status, 400..599), SqlNoResponse(r), AllOf({SqlRedirect(r), r.error # None})})
IsFailure(r) ==
  \/ IsNoResponse(r)
  \/ IsRedirect(r) /\ r.error # None
  \/ r.status # None /\ r.status \in 400..599

LEMMA FailedCoalesces ==
  ASSUME NEW r, Typed(r)
  PROVE  Coalesce(SqlFailure(r), FALSE) = IsFailure(r)
<1> DEFINE a == Within(r.status, 400..599)
           b == SqlNoResponse(r)
           d == r.error # None
           c == AllOf({SqlRedirect(r), d})
           p == \/ IsNoResponse(r)
                \/ IsRedirect(r) /\ r.error # None
                \/ r.status # None /\ r.status \in 400..599
<1>1. a \in Truths /\ (Holds(a) <=> r.status # None /\ r.status \in 400..599)
  BY WithinHolds
<1>2. b \in Truths /\ (Holds(b) <=> IsNoResponse(r))
  BY NoResponseMeans
<1>3. d \in Truths /\ (Holds(d) <=> r.error # None)
  BY PlainHolds, Zenon
<1> HIDE DEF a, b, d
<1>4. c \in Truths /\ (Holds(c) <=> IsRedirect(r) /\ Holds(d))
  BY <1>3, RedirectMeans, AllOfTwo, Zenon
<1> HIDE DEF c
<1>5. AnyOf({a, b, c}) \in Truths /\ (Holds(AnyOf({a, b, c})) <=> Holds(a) \/ Holds(b) \/ Holds(c))
  BY <1>1, <1>2, <1>4, AnyOfThree
<1>6. p \in BOOLEAN /\ (Holds(AnyOf({a, b, c})) <=> p)
  BY <1>1, <1>2, <1>3, <1>4, <1>5
<1> HIDE DEF p
<1>7. Coalesce(AnyOf({a, b, c}), FALSE) = p
  BY <1>5, <1>6, CoalescedHolds
<1> QED BY <1>7, Zenon DEF a, b, c, d, p, SqlFailure, IsFailure

LEMMA ObservedCoalesces ==
  ASSUME NEW r, Typed(r)
  PROVE  Coalesce(AnyOf({r.status # None, SqlNoResponse(r)}), FALSE)
           = (r.status # None \/ IsNoResponse(r))
<1> DEFINE a == r.status # None
           b == SqlNoResponse(r)
           p == r.status # None \/ IsNoResponse(r)
<1>1. a \in Truths /\ (Holds(a) <=> r.status # None)
  BY PlainHolds, Zenon
<1>2. b \in Truths /\ (Holds(b) <=> IsNoResponse(r))
  BY NoResponseMeans
<1> HIDE DEF a, b
<1>3. AnyOf({a, b}) \in Truths /\ (Holds(AnyOf({a, b})) <=> Holds(a) \/ Holds(b))
  BY <1>1, <1>2, AnyOfTwo
<1>4. p \in BOOLEAN /\ (Holds(AnyOf({a, b})) <=> p)
  BY <1>1, <1>2, <1>3
<1> HIDE DEF p
<1>5. Coalesce(AnyOf({a, b}), FALSE) = p
  BY <1>3, <1>4, CoalescedHolds
<1> QED BY <1>5, Zenon DEF a, b, p

LEMMA AuditsAreOne ==
  ASSUME NEW r, Typed(r)
  PROVE  MemoryAudit(r) = DatabaseAudit(r)
<1>1. (r.error # "Redirect limit exceeded") = Coalesce(Differs(r.error, "Redirect limit exceeded"), TRUE)
  <2>1. None # "Redirect limit exceeded"
    BY ViewAssumption DEF Phrases
  <2>2. Differs(r.error, "Redirect limit exceeded") = IF r.error = None THEN None ELSE r.error # "Redirect limit exceeded"
    BY Zenon DEF Differs, Test
  <2>3. CASE r.error = None
    BY <2>1, <2>2, <2>3 DEF Coalesce
  <2>4. CASE r.error # None
    BY <2>2, <2>4, NullIsNoTruth DEF Coalesce
  <2> QED BY <2>3, <2>4
<1>2. /\ Coalesce(SqlPage(r), FALSE) = IsPage(r)
      /\ Coalesce(SqlBroken(r), FALSE) = IsBroken(r)
      /\ Coalesce(SqlRedirect(r), FALSE) = IsRedirect(r)
  BY PageCoalesces
<1>3. (r.status # None \/ r.error # None \/ IsBlocked(r))
        = AnyOf({r.status # None, r.error # None, Same(r.reason, "Blocked by robots.txt")})
  BY FetchedCoalesces
<1>4. (IsBlocked(r) \/ (r.indexability = "Non-indexable" /\ ~IsBroken(r) /\ ~IsRedirect(r)))
        = Coalesce(AnyOf({
            AllOf({r.status = None, AnyOf({Same(r.reason, "Blocked by robots.txt"),
                                           Same(r.error, "Blocked by robots.txt")})}),
            AllOf({Same(r.indexability, "Non-indexable"), ~Coalesce(SqlBroken(r), FALSE),
                   ~Coalesce(SqlRedirect(r), FALSE)})}), FALSE)
  BY ClosedCoalesces
<1>5. Coalesce(SqlFailure(r), FALSE) = IsFailure(r)
  BY FailedCoalesces
<1>6. (r.status # None \/ IsNoResponse(r)) = Coalesce(AnyOf({r.status # None, SqlNoResponse(r)}), FALSE)
  BY ObservedCoalesces
<1>7. DatabaseAudit(r) =
        [url |-> r.url, final |-> r.final, hops |-> Hops(r),
         page |-> IsPage(r), fetched |-> (r.status # None \/ r.error # None \/ IsBlocked(r)),
         broken |-> IsBroken(r), redirect |-> IsRedirect(r),
         closed |-> (IsBlocked(r) \/ (r.indexability = "Non-indexable" /\ ~IsBroken(r) /\ ~IsRedirect(r))),
         observed |-> (r.status # None \/ IsNoResponse(r)),
         failed |-> (\/ IsNoResponse(r)
                     \/ IsRedirect(r) /\ r.error # None
                     \/ r.status # None /\ r.status \in 400..599),
         finalObserved |-> (r.error # "Redirect limit exceeded")]
  <2> HIDE DEF IsBlocked, IsBroken, IsRedirect, IsPage, IsNoResponse, Coalesce, AnyOf, AllOf, Hops
  <2> QED BY <1>1, <1>2, <1>3, <1>4, <1>5, <1>6, Zenon DEF DatabaseAudit, SqlFailure, IsFailure
<1> QED BY <1>7, Zenon DEF MemoryAudit

-----------------------------------------------------------------------------
(* hreflang, and the theorem.                                              *)

LEMMA LinksThatReturn ==
  ASSUME NEW i \in DOMAIN records, Typed(records[i])
  PROVE  MissingReturn(i) = SqlMissingReturn(i) /\ NonCanonicalTarget(i) = SqlNonCanonicalTarget(i)
<1> DEFINE page == IsPage(records[i])
           A(u) == Named(u) # {} /\ u \notin Names(i) /\ ~\E w \in Links(Earliest(Named(u))) : w \in Names(i)
           B(u) == LET t == Earliest(Named(u))
                   IN Named(u) # {} /\ records[t].canonical # None /\ records[t].canonical \notin Names(t)
<1>1. Holds(SqlPage(records[i])) <=> IsPage(records[i])
  BY PageMeans
<1>2. \A u : u \in Links(i) => u \in Urls
  BY DEF Links
<1> HIDE DEF page
<1>3. MissingReturn(i) = (page /\ \E u \in Links(i) : A(u))
  <2>1. \A u : (Links(Earliest(Named(u))) \cap Names(i) = {}) <=> ~\E w \in Links(Earliest(Named(u))) : w \in Names(i)
    OBVIOUS
  <2> HIDE DEF Links, Names, Named, Earliest, IsPage
  <2> QED BY <2>1 DEF MissingReturn, page
<1>4. NonCanonicalTarget(i) = (page /\ \E u \in Links(i) : B(u))
  BY Zenon DEF NonCanonicalTarget, page
<1> DEFINE T(u) == Earliest(Named(u))
           L(u) == [source |-> i, target |-> T(u), own |-> u \in Names(i)]
<1>5. /\ \A u \in Links(i) : Named(u) # {} => L(u) \in SqlLinks
      /\ \A l \in SqlLinks : l.source = i => \E u \in Links(i) : Named(u) # {} /\ l = L(u)
  <2> HIDE DEF Links, Names, Named, Earliest
  <2>1. SqlLinks = {[source |-> l[1], target |-> Earliest(Named(l[2])), own |-> l[2] \in Names(l[1])] :
                      l \in {l \in (DOMAIN records) \X Urls : l[2] \in Links(l[1]) /\ Named(l[2]) # {}}}
    BY Zenon DEF SqlLinks
  <2>2. ASSUME NEW u \in Links(i), Named(u) # {}
        PROVE  L(u) \in SqlLinks
    <3>1. <<i, u>> \in {l \in (DOMAIN records) \X Urls : l[2] \in Links(l[1]) /\ Named(l[2]) # {}}
      BY <1>2, <2>2
    <3> QED BY <2>1, <3>1
  <2>3. ASSUME NEW l \in SqlLinks, l.source = i
        PROVE  \E u \in Links(i) : Named(u) # {} /\ l = L(u)
    <3>1. PICK p \in (DOMAIN records) \X Urls :
             /\ p[2] \in Links(p[1]) /\ Named(p[2]) # {}
             /\ l = [source |-> p[1], target |-> Earliest(Named(p[2])), own |-> p[2] \in Names(p[1])]
      BY <2>1
    <3>2. p[1] = i
      BY <2>3, <3>1
    <3> QED BY <3>1, <3>2
  <2> QED BY <2>2, <2>3
<1>8. \A u : L(u).source = i /\ L(u).target = T(u) /\ L(u).own = (u \in Names(i))
  OBVIOUS
<1>9. \A u : A(u) <=> Named(u) # {} /\ ~L(u).own /\ ~\E w \in Links(L(u).target) : w \in Names(L(u).source)
  BY <1>8
<1>10. \A u : B(u) <=> /\ Named(u) # {} /\ records[L(u).target].canonical # None
                       /\ records[L(u).target].canonical \notin Names(L(u).target)
  BY <1>8
<1> HIDE DEF A, B, L
<1>6. SqlMissingReturn(i) = (page /\ \E u \in Links(i) : A(u))
  <2> HIDE DEF Links, Names, Named, Earliest, SqlLinks, IsPage, SqlPage, Holds
  <2>1. (\E l \in SqlLinks : l.source = i /\ ~l.own /\ ~\E u \in Links(l.target) : u \in Names(l.source))
          <=> \E u \in Links(i) : A(u)
    BY <1>5, <1>8, <1>9
  <2> QED BY <1>1, <2>1 DEF SqlMissingReturn, page
<1>7. SqlNonCanonicalTarget(i) = (page /\ \E u \in Links(i) : B(u))
  <2> HIDE DEF Links, Names, Named, Earliest, SqlLinks, IsPage, SqlPage, Holds
  <2>1. (\E l \in SqlLinks : /\ l.source = i
                             /\ records[l.target].canonical # None
                             /\ records[l.target].canonical \notin Names(l.target))
          <=> \E u \in Links(i) : B(u)
    BY <1>5, <1>8, <1>10
  <2> QED BY <1>1, <2>1 DEF SqlNonCanonicalTarget, page
<1> QED BY <1>3, <1>4, <1>6, <1>7, Zenon

LEMMA ViewsOfStock ==
  ASSUME Fetching, Stocked
  PROVE  ViewsAgree
<1> SUFFICES ASSUME records # <<>>
             PROVE  LET r == Last(records)
                        reported == Reported(records, r)
                    IN /\ \A inlinks \in 0..1 : SitemapRow(r, inlinks) = SqlSitemapRow(r, inlinks)
                       /\ \A shelf \in Views :
                           LET shown == InMemory(shelf, records, r)
                           IN /\ shown = InDatabase(shelf, records, r)
                              /\ shelf \in Counters => (Counted(shelf, records, r) = shown)
                              /\ shelf \notin NotIssues => (InReport(shelf, reported) = shown)
  BY Zenon DEF ViewsAgree
<1> DEFINE m == Len(records)
           r == records[m]
<1>1. TypedRows(records)
  BY StockIsTyped
<1>2. m \in DOMAIN records /\ Last(records) = r
  <2>1. records \in Seq(Range(records))
    BY DEF Fetching
  <2> QED BY <2>1 DEF Last
<1>3. Typed(r)
  BY <1>1, <1>2 DEF TypedRows
<1>4. \A inlinks : SitemapRow(r, inlinks) = SqlSitemapRow(r, inlinks)
  BY <1>3, SitemapRowsAgree
<1> HIDE DEF m
<1>5. ASSUME NEW shelf \in Views
      PROVE  /\ InMemory(shelf, records, r) = InDatabase(shelf, records, r)
             /\ shelf \in Counters => (Counted(shelf, records, r) = InMemory(shelf, records, r))
             /\ shelf \notin NotIssues => (InReport(shelf, Reported(records, r)) = InMemory(shelf, records, r))
  <2>1. InMemory(shelf, records, r) \in BOOLEAN /\ InDatabase(shelf, records, r) \in BOOLEAN
        /\ Counted(shelf, records, r) \in BOOLEAN /\ InReport(shelf, Reported(records, r)) \in BOOLEAN
    <3>1. InMemory(shelf, records, r) \in BOOLEAN
      BY DEF InMemory
    <3>2. InDatabase(shelf, records, r) \in BOOLEAN
      BY DEF InDatabase, Holds
    <3>3. Counted(shelf, records, r) \in BOOLEAN
      BY DEF Counted
    <3>4. InReport(shelf, Reported(records, r)) \in BOOLEAN
      BY DEF InReport
    <3> QED BY <3>1, <3>2, <3>3, <3>4
  <2>2. InMemory(shelf, records, r) = InDatabase(shelf, records, r)
    <3>1. InMemory(shelf, records, r) <=> InDatabase(shelf, records, r)
      BY <1>1, <1>2, StoresAgreeOnViews
    <3> QED BY <2>1, <3>1
  <2>3. shelf \in Counters => (Counted(shelf, records, r) = InMemory(shelf, records, r))
    <3>1. shelf \in Counters => (Counted(shelf, records, r) <=> InMemory(shelf, records, r))
      BY <1>1, <1>2, CountersAgree
    <3> QED BY <2>1, <3>1, Zenon
  <2>4. shelf \notin NotIssues => (InReport(shelf, Reported(records, r)) = InMemory(shelf, records, r))
    <3>1. shelf \notin NotIssues => (InReport(shelf, Reported(records, r)) <=> InMemory(shelf, records, r))
      BY <1>1, <1>2, ReportShows
    <3> QED BY <2>1, <3>1, Zenon
  <2> QED BY <2>2, <2>3, <2>4
<1> QED BY <1>2, <1>4, <1>5

THEOREM DiagnosticsAlike == Spec => []DiagnosticsAgree
<1>1. Fetching /\ Stocked => DiagnosticsAgree
  <2> SUFFICES ASSUME Fetching, Stocked PROVE DiagnosticsAgree
    OBVIOUS
  <2>1. TypedRows(records)
    BY StockIsTyped
  <2>2. ASSUME NEW i \in DOMAIN records
        PROVE  /\ MemoryAudit(records[i]) = DatabaseAudit(records[i])
               /\ MissingReturn(i) = SqlMissingReturn(i)
               /\ NonCanonicalTarget(i) = SqlNonCanonicalTarget(i)
    <3>1. Typed(records[i])
      BY <2>1 DEF TypedRows
    <3> QED BY <3>1, AuditsAreOne, LinksThatReturn
  <2> QED BY <2>2, ViewsOfStock DEF DiagnosticsAgree
<1> QED BY <1>1, RecordsAreMade, PTL

-----------------------------------------------------------------------------
(* Where a URL leads. On the way of a record every URL redirects to the    *)
(* next, and what the way comes to is what each of its URLs leads to.      *)

LEMMA NoneIsNoUrl == None \notin Urls /\ Junk \notin Urls /\ None # Junk
BY FetchAssumption DEF Targets

(* On the way every URL but the last redirects to the next.                *)
LEMMA WayRedirects ==
  ASSUME NEW s \in Sites, NEW i, NEW u, NEW c, OnTheWay(s, i, u, c), NEW k \in 0..Len(c) - 1
  PROVE  /\ Trail(s, i)[k] \in Urls /\ s[Trail(s, i)[k]].kind = "redirect"
         /\ s[Trail(s, i)[k]].to = Trail(s, i)[k + 1] /\ Trail(s, i)[k + 1] \in Urls
<1> DEFINE trail == Trail(s, i)
           n == Len(c)
<1>1. n \in 0..MaxRedirects
  BY OnTheWayToUrl
<1>2. i \in Urls /\ \A j \in 0..n : trail[j] \in Urls
  BY DEF OnTheWay
<1>3. \A j \in 0..MaxRedirects :
        trail[j + 1] = IF trail[j] \in Urls /\ s[trail[j]].kind = "redirect" THEN s[trail[j]].to ELSE None
  BY <1>2, TrailFacts
<1> HIDE DEF trail, n
<1>4. k \in 0..MaxRedirects /\ k \in 0..n /\ k + 1 \in 0..n
  BY <1>1, LimitIsNat DEF n
<1> QED BY <1>2, <1>3, <1>4, NoneIsNoUrl DEF trail

(* After a URL that leads to no other there is none.                       *)
LEMMA NothingFollows ==
  ASSUME NEW s \in Sites, NEW v \in Urls, NEW m \in 0..MaxRedirects,
         Trail(s, v)[m + 1] \notin Urls
  PROVE  \A k \in 0..MaxRedirects : k > m => Trail(s, v)[k] \notin Urls
<1> DEFINE trail == Trail(s, v)
           T == {d \in 0..MaxRedirects - m : trail[m + 1 + d] \notin Urls}
<1>1. \A j \in 0..MaxRedirects :
        trail[j + 1] = IF trail[j] \in Urls /\ s[trail[j]].kind = "redirect" THEN s[trail[j]].to ELSE None
  BY TrailFacts
<1> HIDE DEF trail
<1>2. MaxRedirects - m \in Nat
  BY LimitIsNat
<1>3. 0 \in T
  BY <1>2 DEF trail
<1>4. ASSUME NEW d \in 1..MaxRedirects - m, d - 1 \in T PROVE d \in T
  <2>1. trail[m + d] \notin Urls
    <3>1. m + 1 + (d - 1) = m + d
      OBVIOUS
    <3> QED BY <1>4, <3>1
  <2>2. m + d \in 0..MaxRedirects /\ (m + d) + 1 = m + 1 + d
    BY LimitIsNat
  <2>3. trail[m + 1 + d] = None
    BY <1>1, <2>1, <2>2
  <2> QED BY <2>3, NoneIsNoUrl, <1>2
<1>5. \A d \in 0..MaxRedirects - m : d \in T
  <2> HIDE DEF T
  <2> QED BY <1>2, <1>3, <1>4, InductionUpTo
<1>6. ASSUME NEW k \in 0..MaxRedirects, k > m PROVE trail[k] \notin Urls
  <2>1. k - (m + 1) \in 0..MaxRedirects - m /\ m + 1 + (k - (m + 1)) = k
    BY <1>6, LimitIsNat
  <2> QED BY <1>5, <2>1
<1> QED BY <1>6 DEF trail

(* Where the first of a page's URLs leads.                                 *)
LEMMA PageSettles ==
  ASSUME site \in Sites, NEW v \in Urls, NEW m \in 0..MaxRedirects, Trail(site, v)[m] \in SitePages
  PROVE  Settles(v) = Trail(site, v)[m]
<1> DEFINE trail == Trail(site, v)
           pages == {k \in 0..MaxRedirects : trail[k] \in SitePages}
<1>1. ASSUME NEW k \in pages PROVE \A j \in pages : ~(j > k)
  <2>1. trail[k] \in Urls /\ site[trail[k]].kind # "redirect" /\ k \in 0..MaxRedirects
    BY DEF SitePages, IsSitePage
  <2>2. trail[k + 1] = None
    BY <2>1, TrailFacts
  <2> HIDE DEF trail
  <2>3. \A j \in 0..MaxRedirects : j > k => trail[j] \notin Urls
    BY <2>1, <2>2, NoneIsNoUrl, NothingFollows DEF trail
  <2> QED BY <2>3 DEF SitePages
<1>2. m \in pages
  OBVIOUS
<1>3. \A k \in pages : k = m
  <2> SUFFICES ASSUME NEW k \in pages PROVE k = m
    OBVIOUS
  <2>1. ~(k > m) /\ ~(m > k)
    BY <1>1, <1>2
  <2>2. k \in Nat /\ m \in Nat
    BY LimitIsNat
  <2> QED BY <2>1, <2>2
<1>4. Settles(v) = IF pages = {} THEN None ELSE trail[CHOOSE k \in pages : TRUE]
  BY DEF Settles
<1> HIDE DEF pages, trail
<1>5. (CHOOSE k \in pages : TRUE) = m
  BY <1>2, <1>3
<1> QED BY <1>2, <1>4, <1>5 DEF trail

(* The way from a URL that was passed is the rest of the way.              *)
LEMMA RestOfTheWay ==
  ASSUME NEW s \in Sites, NEW i, NEW u, NEW c, OnTheWay(s, i, u, c), NEW k \in 0..Len(c)
  PROVE  Trail(s, Trail(s, i)[k])[Len(c) - k] = u
<1> DEFINE trail == Trail(s, i)
           n == Len(c)
           v == trail[k]
           rest == Trail(s, v)
           T == {d \in 0..n - k : rest[d] = trail[k + d]}
<1>1. n \in 0..MaxRedirects /\ i \in Urls /\ u = trail[n]
  BY OnTheWayToUrl DEF OnTheWay
<1>2. v \in Urls
  BY DEF OnTheWay
<1>3. rest[0] = v /\ \A j \in 0..MaxRedirects :
        rest[j + 1] = IF rest[j] \in Urls /\ s[rest[j]].kind = "redirect" THEN s[rest[j]].to ELSE None
  BY <1>2, TrailFacts
<1>4. \A j \in 0..n - 1 : /\ trail[j] \in Urls /\ s[trail[j]].kind = "redirect"
                          /\ s[trail[j]].to = trail[j + 1]
  BY WayRedirects
<1> HIDE DEF trail, n, rest
<1>5. n - k \in Nat /\ k \in Nat
  BY <1>1, LimitIsNat DEF n
<1>6. 0 \in T
  BY <1>3, <1>5
<1>7. ASSUME NEW d \in 1..n - k, d - 1 \in T PROVE d \in T
  <2>1. rest[d - 1] = trail[k + (d - 1)]
    BY <1>7
  <2>2. k + (d - 1) \in 0..n - 1 /\ (k + (d - 1)) + 1 = k + d /\ d - 1 \in 0..MaxRedirects /\ (d - 1) + 1 = d
    BY <1>1, <1>5, LimitIsNat
  <2>3. rest[d] = trail[k + d]
    BY <1>3, <1>4, <2>1, <2>2
  <2> QED BY <1>5, <2>3
<1>8. \A d \in 0..n - k : d \in T
  <2> HIDE DEF T
  <2> QED BY <1>5, <1>6, <1>7, InductionUpTo
<1>9. n - k \in T /\ k + (n - k) = n
  BY <1>1, <1>5, <1>8, LimitIsNat
<1>10. rest[n - k] = u
  BY <1>1, <1>9
<1> QED BY <1>10, Zenon DEF rest, n, trail

LEMMA WaySettles ==
  ASSUME site \in Sites, NEW i, NEW u, NEW c, OnTheWay(site, i, u, c), u \in SitePages,
         NEW k \in 0..Len(c)
  PROVE  Settles(Trail(site, i)[k]) = u
<1> DEFINE v == Trail(site, i)[k]
           m == Len(c) - k
<1>1. Len(c) \in 0..MaxRedirects /\ v \in Urls
  BY OnTheWayToUrl DEF OnTheWay
<1>2. m \in 0..MaxRedirects
  BY <1>1, LimitIsNat
<1>3. Trail(site, v)[m] = u
  BY RestOfTheWay
<1> HIDE DEF v, m
<1> QED BY <1>1, <1>2, <1>3, PageSettles DEF v

-----------------------------------------------------------------------------
(* Nothing else answers: the trail of a record's URL ends where the record *)
(* does.                                                                   *)

(* On the trail of a record's URL nothing answers but what it ended with.  *)
LEMMA TrailOfLoop ==
  ASSUME NEW s \in Sites, NEW i, NEW u, NEW c, OnTheWay(s, i, u, c), Redirects(s, u), Met(s, u, c)
  PROVE  \A k \in 0..MaxRedirects :
           /\ Trail(s, i)[k] \in Urls /\ s[Trail(s, i)[k]].kind = "redirect"
           /\ Trail(s, i)[k] \in {Trail(s, i)[j] : j \in 0..Len(c)}
<1> DEFINE trail == Trail(s, i)
           n == Len(c)
           Old == {trail[j] : j \in 0..n}
           T == {k \in 0..MaxRedirects : trail[k] \in Old}
<1>1. n \in 0..MaxRedirects /\ i \in Urls /\ u = trail[n] /\ u \in Urls
  BY OnTheWayToUrl DEF OnTheWay
<1>2. trail[0] = i /\ \A j \in 0..MaxRedirects :
        trail[j + 1] = IF trail[j] \in Urls /\ s[trail[j]].kind = "redirect" THEN s[trail[j]].to ELSE None
  BY <1>1, TrailFacts
<1>3. \A j \in 0..n - 1 : /\ trail[j] \in Urls /\ s[trail[j]].kind = "redirect"
                          /\ s[trail[j]].to = trail[j + 1]
  BY WayRedirects
<1>4. s[u].kind = "redirect" /\ s[u].to \in Urls
  BY DEF Redirects
<1>5. s[u].to \in Old
  <2>1. CASE s[u].to = u
    BY <1>1, <2>1
  <2>2. CASE \E k \in DOMAIN c : c[k].url = s[u].to
    <3>1. PICK k \in DOMAIN c : c[k].url = s[u].to
      BY <2>2
    <3>2. DOMAIN c = 1..n /\ \A j \in 1..n : c[j] = [url |-> trail[j - 1], location |-> trail[j]]
      <4>1. c \in Seq(HopsOf) /\ \A j \in 1..n : c[j] = [url |-> trail[j - 1], location |-> trail[j]]
        BY DEF OnTheWay
      <4> HIDE DEF trail
      <4> QED BY <4>1
    <3> HIDE DEF trail, n
    <3>3. s[u].to = trail[k - 1] /\ k - 1 \in 0..n
      BY <1>1, <3>1, <3>2, LimitIsNat
    <3> QED BY <3>3
  <2> QED BY <2>1, <2>2 DEF Met
<1> HIDE DEF trail, n
<1>6. \A x \in Old : x \in Urls /\ s[x].kind = "redirect" /\ s[x].to \in Old
  <2>1. ASSUME NEW j \in 0..n
        PROVE  trail[j] \in Urls /\ s[trail[j]].kind = "redirect" /\ s[trail[j]].to \in Old
    <3>1. CASE j = n
      BY <1>1, <1>4, <1>5, <3>1
    <3>2. CASE j # n
      <4>1. j \in 0..n - 1 /\ j + 1 \in 0..n
        BY <1>1, <3>2, LimitIsNat
      <4> QED BY <1>3, <4>1
    <3> QED BY <3>1, <3>2
  <2> QED BY <2>1
<1>7. 0 \in T
  BY <1>1, <1>2, LimitIsNat
<1>8. ASSUME NEW k \in 1..MaxRedirects, k - 1 \in T PROVE k \in T
  <2>1. k - 1 \in 0..MaxRedirects /\ (k - 1) + 1 = k /\ k \in 0..MaxRedirects
    BY LimitIsNat
  <2>2. trail[k] = s[trail[k - 1]].to
    BY <1>2, <1>6, <1>8, <2>1
  <2> QED BY <1>6, <1>8, <2>1, <2>2
<1>9. \A k \in 0..MaxRedirects : k \in T
  <2> HIDE DEF T
  <2> QED BY <1>7, <1>8, LimitIsNat, InductionUpTo
<1>10. \A k \in 0..MaxRedirects : trail[k] \in Old
  BY <1>9
<1> QED BY <1>6, <1>10 DEF trail, n

\* A way ends, when the fetch does: in a loop, at the limit, or where nothing
\* leads on.
EndsHere(s, u, c) ==
  \/ Redirects(s, u) /\ Met(s, u, c)
  \/ Redirects(s, u) /\ Len(c) = MaxRedirects
  \/ ~Redirects(s, u)

LEMMA NoOtherAnswer ==
  ASSUME NEW s \in Sites, NEW i, NEW u, NEW c, OnTheWay(s, i, u, c), EndsHere(s, u, c),
         NEW k \in 0..MaxRedirects, Trail(s, i)[k] \in Urls, s[Trail(s, i)[k]].kind # "redirect"
  PROVE  k = Len(c) /\ Trail(s, i)[k] = u
<1> DEFINE trail == Trail(s, i)
           n == Len(c)
<1>1. n \in 0..MaxRedirects /\ i \in Urls /\ u = trail[n] /\ u \in Urls
  BY OnTheWayToUrl DEF OnTheWay
<1>2. \A j \in 0..n - 1 : s[trail[j]].kind = "redirect"
  BY WayRedirects
<1>3. ~(k < n)
  <2> SUFFICES ASSUME k < n PROVE FALSE
    OBVIOUS
  <2>1. k \in 0..n - 1
    BY <1>1, LimitIsNat
  <2> QED BY <1>2, <2>1
<1>4. ~(k > n)
  <2> SUFFICES ASSUME k > n PROVE FALSE
    OBVIOUS
  <2>1. CASE Redirects(s, u) /\ Met(s, u, c)
    BY <2>1, TrailOfLoop
  <2>2. CASE Redirects(s, u) /\ Len(c) = MaxRedirects
    BY <2>2
  <2>3. CASE ~Redirects(s, u)
    <3>1. trail[n + 1] \notin Urls
      <4>1. trail[n + 1] = IF trail[n] \in Urls /\ s[trail[n]].kind = "redirect" THEN s[trail[n]].to ELSE None
        BY <1>1, TrailFacts
      <4> HIDE DEF trail
      <4> QED BY <1>1, <2>3, <4>1, NoneIsNoUrl DEF Redirects
    <3>2. \A j \in 0..MaxRedirects : j > n => trail[j] \notin Urls
      BY <1>1, <3>1, NothingFollows
    <3> QED BY <3>2
  <2> QED BY <2>1, <2>2, <2>3 DEF EndsHere
<1>5. k = n
  BY <1>1, <1>3, <1>4, LimitIsNat
<1> QED BY <1>1, <1>5

LEMMA MadeEnds ==
  ASSUME NEW s, NEW r, NEW u, NEW c, EndedAt(s, r, u, c)
  PROVE  EndsHere(s, u, c)
BY NoneIsNoUrl DEF EndedAt, EndsHere, Redirects

-----------------------------------------------------------------------------
(* What a record says of where its URL leads, and of whether it fails.     *)

LEMMA StatusOfError ==
  ASSUME NEW r, NEW error, NEW words, OnlyError(r, error, words)
  PROVE  /\ ~IsSuccess(r) /\ ~IsRedirect(r) /\ ~IsPage(r) /\ r.status = None
         /\ IsBroken(r) <=> IsNoResponse(r)
BY DEF OnlyError, IsSuccess, IsRedirect, IsPage, IsBroken

LEMMA FailureIs ==
  ASSUME NEW r, NEW error, Failure(r, error),
         error \in {"refused", "Invalid redirect target", "Redirect loop detected", "Redirect limit exceeded"}
  PROVE  /\ ~IsPage(r) /\ ~IsRedirect(r) /\ IsBroken(r) /\ r.error # None
<1>1. OnlyError(r, error, "No response")
  BY DEF Failure
<1>2. r.status = None /\ r.error = error /\ r.reason = "No response"
  BY <1>1 DEF OnlyError
<1>3. error # None
  BY ViewAssumption, FetchAssumption, ZenonT(60) DEF Phrases
<1>4. r.error # None /\ r.error # "Blocked by robots.txt"
  BY <1>2, <1>3
<1>5. IsNoResponse(r)
  BY <1>2, <1>4 DEF IsNoResponse, IsBlocked
<1> QED BY <1>1, <1>4, <1>5, StatusOfError

LEMMA RefusalIs ==
  ASSUME NEW r, Refusal(r)
  PROVE  ~IsPage(r) /\ ~IsRedirect(r) /\ ~IsBroken(r) /\ IsBlocked(r)
<1>1. OnlyError(r, r.error, "Blocked by robots.txt")
  BY DEF Refusal
<1>2. IsBlocked(r)
  BY <1>1 DEF OnlyError, IsBlocked
<1>3. ~IsNoResponse(r)
  BY <1>2 DEF IsNoResponse
<1>4. PICK error, words : OnlyError(r, error, words)
  BY <1>1, Zenon
<1>5. /\ ~IsSuccess(r) /\ ~IsRedirect(r) /\ ~IsPage(r) /\ r.status = None
      /\ IsBroken(r) <=> IsNoResponse(r)
  BY <1>4, StatusOfError
<1> QED BY <1>2, <1>3, <1>5

LEMMA StrayIs ==
  ASSUME NEW r, Stray(r)
  PROVE  ~IsPage(r) /\ IsRedirect(r) /\ IsBroken(r) /\ r.status # None
<1>1. r.status = 301 /\ r.error = "Redirect response missing Location header"
  BY DEF Stray, OnlyStatus
<1>2. r.error # None
  BY <1>1, FetchAssumption
<1>3. 301 \in 300..399 /\ 301 \notin 200..299 /\ 301 \in Nat
  OBVIOUS
<1>4. r.status # None
  <2>0. r.status = 301
    BY <1>1
  <2>2. 301 \in Nat
    OBVIOUS
  <2>1. r.status \in Nat
    BY <2>0, <2>2, Zenon
  <2> QED BY <2>1, PhrasesAreNot
<1>5. IsRedirect(r)
  BY <1>1, <1>3, <1>4, Zenon DEF IsRedirect
<1>6. ~IsPage(r)
  BY <1>1, <1>3, Zenon DEF IsPage, IsSuccess
<1> QED BY <1>2, <1>4, <1>5, <1>6 DEF IsBroken

LEMMA AnsweredIs ==
  ASSUME NEW s \in Sites, NEW r, Answered(s, r), r.final \in Urls, s[r.final].kind = "answer"
  PROVE  /\ IsPage(r) <=> IsSitePage(s[r.final])
         /\ ~IsRedirect(r) /\ r.status # None /\ r.status = s[r.final].status
         /\ IsBroken(r) <=> ~(s[r.final].status < 400)
         /\ IsPage(r) => Signals(r, s[r.final])
<1> DEFINE given == s[r.final]
<1>1. given.status \in Nat \ (300..399)
  BY ViewAssumption
<1>2. r.status = given.status /\ r.type = given.type
  BY DEF Answered, Given
<1>3. given.cut <=> (r.indexStatus = "Response body incomplete")
  BY DEF Answered
<1>4. ~given.cut /\ given.type = "html" => Signals(r, given)
  BY DEF Answered
<1> HIDE DEF given
<1>5. r.status # None
  BY <1>1, <1>2, PhrasesAreNot, ZenonT(40)
<1>6. r.status \in Nat /\ r.status \notin 300..399
  BY <1>1, <1>2
<1>7. ~IsRedirect(r) /\ ~IsNoResponse(r)
  BY <1>5, <1>6 DEF IsRedirect, IsNoResponse
<1>8. IsPage(r) <=> IsSitePage(given)
  BY <1>2, <1>3, <1>5 DEF IsPage, IsSitePage, IsSuccess, Success, given
<1>9. IsBroken(r) <=> ~(given.status < 400)
  BY <1>1, <1>2, <1>5, <1>7 DEF IsBroken
<1>10. IsPage(r) => Signals(r, given)
  BY <1>2, <1>3, <1>4 DEF IsPage
<1> QED BY <1>2, <1>5, <1>7, <1>8, <1>9, <1>10 DEF given

(* A record is of a complete page exactly when the site has one there.     *)
LEMMA PageIsOfSite ==
  ASSUME site \in Sites, NEW r, NEW u, NEW c, OnTheWay(site, r.url, u, c), EndedAt(site, r, u, c)
  PROVE  /\ IsPage(r) <=> u \in SitePages
         /\ IsPage(r) => Arrived(r, u, c) /\ Signals(r, site[u])
<1>1. u \in Urls
  BY OnTheWayToUrl
<1>2. u \in SitePages <=> IsSitePage(site[u])
  BY <1>1 DEF SitePages
<1>3. CASE site[u].kind = "answer" /\ Arrived(r, u, c) /\ Answered(site, r)
  BY <1>1, <1>2, <1>3, AnsweredIs DEF Arrived
<1>4. CASE ~(site[u].kind = "answer" /\ Arrived(r, u, c) /\ Answered(site, r))
  <2>1. site[u].kind # "answer"
    BY <1>4 DEF EndedAt, Redirects
  <2>2. u \notin SitePages
    BY <1>2, <2>1 DEF IsSitePage
  <2>3. Refusal(r) \/ Stray(r) \/ \E error \in {"refused", "Invalid redirect target",
                                    "Redirect loop detected", "Redirect limit exceeded"} : Failure(r, error)
    BY <1>4 DEF EndedAt
  <2>4. ~IsPage(r)
    BY <2>3, RefusalIs, StrayIs, FailureIs
  <2> QED BY <2>2, <2>4
<1> QED BY <1>3, <1>4

LEMMA SettlesByRecord ==
  ASSUME site \in Sites, NEW r, Made(site, r)
  PROVE  /\ Settles(r.url) = IF IsPage(r) THEN r.final ELSE None
         /\ IsPage(r) => r.final \in SitePages /\ Settles(r.final) = r.final
<1>1. PICK u, c : OnTheWay(site, r.url, u, c) /\ EndedAt(site, r, u, c)
  BY DEF Made
<1>2. r.url \in Urls /\ u = Trail(site, r.url)[Len(c)] /\ r.url = Trail(site, r.url)[0]
  <2>1. r.url \in Urls /\ u = Trail(site, r.url)[Len(c)]
    BY <1>1 DEF OnTheWay
  <2> QED BY <2>1, TrailFacts
<1>3. Len(c) \in 0..MaxRedirects /\ Len(c) \in 0..Len(c) /\ 0 \in 0..Len(c)
  <2>1. Len(c) \in 0..MaxRedirects
    BY <1>1, OnTheWayToUrl
  <2> QED BY <2>1, LimitIsNat
<1>4. CASE IsPage(r)
  <2>1. u \in SitePages /\ r.final = u
    BY <1>1, <1>4, PageIsOfSite DEF Arrived
  <2>2. Settles(Trail(site, r.url)[0]) = u /\ Settles(Trail(site, r.url)[Len(c)]) = u
    BY <1>1, <1>3, <2>1, WaySettles
  <2> QED BY <1>2, <1>4, <2>1, <2>2
<1>5. CASE ~IsPage(r)
  <2>1. u \notin SitePages
    BY <1>1, <1>5, PageIsOfSite
  <2>2. \A k \in 0..MaxRedirects : Trail(site, r.url)[k] \notin SitePages
    <3> SUFFICES ASSUME NEW k \in 0..MaxRedirects, Trail(site, r.url)[k] \in SitePages PROVE FALSE
      OBVIOUS
    <3>1. Trail(site, r.url)[k] \in Urls /\ site[Trail(site, r.url)[k]].kind # "redirect"
      BY DEF SitePages, IsSitePage
    <3> QED BY <1>1, <2>1, <3>1, MadeEnds, NoOtherAnswer
  <2>3. Settles(r.url) = None
    BY <2>2 DEF Settles
  <2> QED BY <1>5, <2>3
<1> QED BY <1>4, <1>5

(* What a URL fails with is decided where its record ended.                *)
LEMMA FailsAtEnd ==
  ASSUME site \in Sites, NEW r, NEW u, NEW c, OnTheWay(site, r.url, u, c), EndedAt(site, r, u, c), NEW errors
  PROVE  Fails(r.url, errors) <=>
           site[u].kind # "blocked" /\ (site[u].kind = "answer" => site[u].status \in errors)
<1> DEFINE Good(given) == ~(given.kind # "blocked" /\ (given.kind = "answer" => given.status \in errors))
           trail == Trail(site, r.url)
<1>2. u \in Urls /\ Len(c) \in 0..MaxRedirects /\ u = trail[Len(c)]
  BY OnTheWayToUrl DEF OnTheWay
<1>3. ~Fails(r.url, errors) <=> \E k \in 0..MaxRedirects : trail[k] \in Urls /\ Good(site[trail[k]])
  BY DEF Fails
<1>4. \A k \in 0..MaxRedirects : trail[k] \in Urls /\ site[trail[k]].kind # "redirect" => trail[k] = u
  BY MadeEnds, NoOtherAnswer
<1>5. ~Fails(r.url, errors) <=> Good(site[u])
  <2> HIDE DEF trail
  <2>1. \A x : Good(x) => x.kind # "redirect"
    OBVIOUS
  <2> HIDE DEF Good
  <2> QED BY <1>2, <1>3, <1>4, <2>1
<1> QED BY <1>5

\* What the reference audit takes for a failure.
Failed(r) ==
  \/ IsNoResponse(r)
  \/ IsRedirect(r) /\ r.error # None
  \/ r.status # None /\ r.status \in 400..599

(* A record is broken, or failed, exactly when its URL is.                 *)
LEMMA FailsByRecord ==
  ASSUME site \in Sites, NEW r, Made(site, r)
  PROVE  /\ IsBroken(r) <=> Fails(r.url, BrokenStatuses)
         /\ Failed(r) <=> Fails(r.url, FailedStatuses)
<1>1. PICK u, c : OnTheWay(site, r.url, u, c) /\ EndedAt(site, r, u, c)
  BY DEF Made
<1>2. u \in Urls
  BY <1>1, OnTheWayToUrl
<1>5. \A errors : Fails(r.url, errors) <=>
           site[u].kind # "blocked" /\ (site[u].kind = "answer" => site[u].status \in errors)
  BY <1>1, FailsAtEnd
<1>6. CASE site[u].kind = "answer" /\ Arrived(r, u, c) /\ Answered(site, r)
  <2>1. /\ r.status # None /\ r.status = site[u].status /\ ~IsRedirect(r)
        /\ IsBroken(r) <=> ~(site[u].status < 400)
    BY <1>2, <1>6, AnsweredIs DEF Arrived
  <2>2. site[u].status \in Nat
    BY <1>2, <1>6, ViewAssumption
  <2>3. IsBroken(r) <=> site[u].status \in BrokenStatuses
    BY <2>1, <2>2, SMTT(30) DEF BrokenStatuses
  <2>4. Failed(r) <=> site[u].status \in FailedStatuses
    BY <2>1 DEF Failed, IsNoResponse, FailedStatuses
  <2> QED BY <1>5, <1>6, <2>3, <2>4
<1>7. CASE site[u].kind = "blocked" /\ Refusal(r)
  <2>1. IsBlocked(r) /\ ~IsBroken(r)
    BY <1>7, RefusalIs
  <2>2. r.status = None /\ ~IsNoResponse(r) /\ ~IsRedirect(r)
    BY <2>1 DEF IsBlocked, IsNoResponse, IsRedirect
  <2> QED BY <1>5, <1>7, <2>1, <2>2 DEF Failed
<1>8. CASE site[u].kind \in {"refused", "redirect"} /\ (Stray(r) \/ \E error \in {"refused", "Invalid redirect target",
                                    "Redirect loop detected", "Redirect limit exceeded"} : Failure(r, error))
  <2>1. IsBroken(r)
    BY <1>8, StrayIs, FailureIs
  <2>2. Failed(r)
    <3>1. CASE Stray(r)
      <4>1. IsRedirect(r) /\ r.error # None
        BY <3>1, StrayIs, FetchAssumption DEF Stray, OnlyStatus
      <4> QED BY <4>1 DEF Failed
    <3>2. CASE ~Stray(r)
      <4>1. IsBroken(r) /\ ~IsRedirect(r) /\ r.status = None
        BY <1>8, <3>2, FailureIs DEF Failure, OnlyError
      <4> QED BY <4>1 DEF IsBroken, Failed
    <3> QED BY <3>1, <3>2
  <2> QED BY <1>5, <1>8, <2>1, <2>2
<1> QED BY <1>1, <1>6, <1>7, <1>8 DEF EndedAt, Redirects

-----------------------------------------------------------------------------
(* And of whether it redirects.                                            *)

(* The hops of a chain.                                                    *)
LEMMA HopsOfChain ==
  ASSUME NEW trail, NEW n \in Nat, NEW r, DOMAIN r.chain = 1..n,
         \A j \in 1..n : r.chain[j].url = trail[j - 1]
  PROVE  Hops(r) = {trail[k] : k \in 0..n - 1}
<1>1. ASSUME NEW x \in Hops(r) PROVE x \in {trail[k] : k \in 0..n - 1}
  <2>1. PICK j \in 1..n : x = r.chain[j].url
    BY DEF Hops
  <2>2. j - 1 \in 0..n - 1 /\ x = trail[j - 1]
    BY <2>1
  <2> QED BY <2>2
<1>2. ASSUME NEW k \in 0..n - 1 PROVE trail[k] \in Hops(r)
  <2>1. k + 1 \in 1..n /\ (k + 1) - 1 = k
    OBVIOUS
  <2>2. r.chain[k + 1].url = trail[k]
    BY <2>1
  <2> QED BY <2>1, <2>2 DEF Hops
<1> QED BY <1>1, <1>2

LEMMA HopsOfWay ==
  ASSUME NEW s \in Sites, NEW i, NEW u, NEW c, OnTheWay(s, i, u, c), NEW r, r.chain = c
  PROVE  /\ Hops(r) = {Trail(s, i)[k] : k \in 0..Len(c) - 1}
         /\ Hops(r) # {} <=> Len(c) # 0
         /\ Len(c) # 0 => i \in Hops(r)
<1> DEFINE trail == Trail(s, i)
           n == Len(c)
<1>1. n \in Nat
  BY OnTheWayToUrl, LimitIsNat
<1>2. DOMAIN c = 1..n /\ \A j \in 1..n : c[j].url = trail[j - 1]
  <2>1. c \in Seq(HopsOf) /\ \A j \in 1..n : c[j] = [url |-> trail[j - 1], location |-> trail[j]]
    BY DEF OnTheWay
  <2> HIDE DEF trail
  <2>2. DOMAIN c = 1..n
    BY <2>1
  <2> QED BY <2>1, <2>2
<1>3. trail[0] = i
  BY TrailFacts
<1> HIDE DEF trail, n
<1>4. Hops(r) = {trail[k] : k \in 0..n - 1}
  BY <1>1, <1>2, HopsOfChain
<1>5. n # 0 <=> 0 \in 0..n - 1
  BY <1>1
<1>6. n = 0 => 0..n - 1 = {}
  OBVIOUS
<1> QED BY <1>3, <1>4, <1>5, <1>6 DEF trail, n

\* A fetch that was not refused is one that took place.
Fetched(r) == r.status # None \/ r.error # None \/ IsBlocked(r)

LEMMA MadeIsFetched ==
  ASSUME site \in Sites, NEW r, Made(site, r)
  PROVE  Fetched(r)
<1>1. PICK u, c : OnTheWay(site, r.url, u, c) /\ EndedAt(site, r, u, c)
  BY DEF Made
<1>2. u \in Urls
  BY <1>1, OnTheWayToUrl
<1>3. CASE site[u].kind = "answer" /\ Arrived(r, u, c) /\ Answered(site, r)
  BY <1>2, <1>3, AnsweredIs DEF Arrived, Fetched
<1>4. CASE Refusal(r)
  BY <1>4, RefusalIs DEF Fetched
<1>5. CASE Stray(r)
  BY <1>5, StrayIs DEF Fetched
<1>6. CASE \E error \in {"refused", "Invalid redirect target",
                         "Redirect loop detected", "Redirect limit exceeded"} : Failure(r, error)
  BY <1>6, FailureIs DEF Fetched
<1> QED BY <1>1, <1>3, <1>4, <1>5, <1>6 DEF EndedAt

(* The way of a record, one redirect longer when it ended at one.          *)
LEMMA LongerHops ==
  ASSUME NEW s, NEW u, NEW c, c \in Seq(HopsOf), NEW r, r.chain = Longer(s, u, c)
  PROVE  Hops(r) # {}
<1> DEFINE x == [url |-> u, location |-> s[u].to]
<1>1. c \in Seq(HopsOf \cup {x}) /\ x \in HopsOf \cup {x}
  BY SeqMonotonic
<1> HIDE DEF x
<1>2. Len(c) + 1 \in DOMAIN Append(c, x)
  BY <1>1
<1>3. r.chain = Append(c, x)
  BY DEF Longer, x
<1> QED BY <1>2, <1>3 DEF Hops

(* A record says that its URL redirects exactly when the site does.        *)
LEMMA RedirectByRecord ==
  ASSUME site \in Sites, NEW r, Made(site, r)
  PROVE  /\ r.url \in Urls
         /\ (IsRedirect(r) \/ Hops(r) # {}) <=>
              site[r.url].kind = "redirect" /\ site[r.url].to # Junk
<1> DEFINE Says == IsRedirect(r) \/ Hops(r) # {}
           Has == site[r.url].kind = "redirect" /\ site[r.url].to # Junk
<1>1. PICK u, c : OnTheWay(site, r.url, u, c) /\ EndedAt(site, r, u, c)
  BY DEF Made
<1>2. u \in Urls /\ r.url \in Urls /\ c \in Seq(HopsOf) /\ u = Trail(site, r.url)[Len(c)] /\ Len(c) \in Nat
  BY <1>1, OnTheWayToUrl, LimitIsNat DEF OnTheWay
<1>3. Trail(site, r.url)[0] = r.url
  BY TrailFacts
<1>4. CASE Len(c) # 0
  <2>1. 0 \in 0..Len(c) - 1
    BY <1>2, <1>4
  <2>2. Has
    BY <1>1, <1>3, <2>1, WayRedirects, NoneIsNoUrl
  <2>3. CASE r.chain = c
    <3>1. Hops(r) # {} <=> Len(c) # 0
      BY <1>1, <2>3, HopsOfWay
    <3> QED BY <1>2, <1>4, <2>2, <3>1
  <2>4. CASE r.chain = Longer(site, u, c)
    BY <1>2, <2>2, <2>4, LongerHops
  <2>5. r.chain = c \/ r.chain = Longer(site, u, c)
    BY <1>1 DEF EndedAt, Arrived
  <2> QED BY <1>2, <2>2, <2>3, <2>4, <2>5
<1>5. CASE Len(c) = 0
  <2>1. u = r.url
    BY <1>2, <1>3, <1>5
  <2>2. r.chain = c => Hops(r) = {}
    BY <1>1, <1>5, HopsOfWay
  <2>3. CASE site[u].kind = "answer" /\ Arrived(r, u, c) /\ Answered(site, r)
    BY <1>2, <2>1, <2>2, <2>3, AnsweredIs DEF Arrived
  <2>4. CASE site[u].kind = "blocked" /\ Arrived(r, u, c) /\ Refusal(r)
    BY <1>2, <2>1, <2>2, <2>4, RefusalIs DEF Arrived
  <2>5. CASE site[u].kind = "refused" /\ Arrived(r, u, c) /\ Failure(r, "refused")
    BY <1>2, <2>1, <2>2, <2>5, FailureIs DEF Arrived
  <2>6. CASE site[u].kind = "redirect" /\ site[u].to = Junk /\ Arrived(r, u, c) /\ Failure(r, "Invalid redirect target")
    BY <1>2, <2>1, <2>2, <2>6, FailureIs DEF Arrived
  <2>7. CASE site[u].kind = "redirect" /\ site[u].to = None /\ Arrived(r, u, c) /\ Stray(r)
    BY <1>2, <2>1, <2>2, <2>7, StrayIs, NoneIsNoUrl DEF Arrived
  <2>8. CASE Redirects(site, u) /\ r.chain = Longer(site, u, c)
    <3>1. Has
      BY <2>1, <2>8, NoneIsNoUrl DEF Redirects
    <3> QED BY <1>2, <2>8, <3>1, LongerHops
  <2> QED BY <1>1, <2>3, <2>4, <2>5, <2>6, <2>7, <2>8 DEF EndedAt, Arrived
<1> QED BY <1>4, <1>5

(* What a page was reached over redirects, and settles where the page is.  *)
LEMMA HopsOfPage ==
  ASSUME site \in Sites, NEW r, Made(site, r), IsPage(r)
  PROVE  /\ \A x \in Hops(r) : /\ x \in Urls /\ Settles(x) = r.final
                               /\ site[x].kind = "redirect" /\ site[x].to \in Urls
         /\ Hops(r) # {} => r.url \in Hops(r)
<1>1. PICK u, c : OnTheWay(site, r.url, u, c) /\ EndedAt(site, r, u, c)
  BY DEF Made
<1>2. Arrived(r, u, c) /\ u \in SitePages
  BY <1>1, PageIsOfSite
<1>3. r.final = u /\ r.chain = c /\ Len(c) \in Nat
  BY <1>1, <1>2, OnTheWayToUrl, LimitIsNat DEF Arrived
<1>4. /\ Hops(r) = {Trail(site, r.url)[k] : k \in 0..Len(c) - 1}
      /\ Hops(r) # {} => r.url \in Hops(r)
  BY <1>1, <1>3, HopsOfWay
<1>5. ASSUME NEW k \in 0..Len(c) - 1
      PROVE  LET x == Trail(site, r.url)[k]
             IN /\ x \in Urls /\ Settles(x) = r.final
                /\ site[x].kind = "redirect" /\ site[x].to \in Urls
  <2>1. k \in 0..Len(c)
    BY <1>3
  <2>2. Settles(Trail(site, r.url)[k]) = u
    BY <1>1, <1>2, <2>1, WaySettles
  <2> QED BY <1>1, <1>3, <2>2, WayRedirects
<1> QED BY <1>4, <1>5

-----------------------------------------------------------------------------
(* The walks from every node, one after the other (paths_entering_cycles). *)

(* A walk stops within as many steps as there are nodes.                   *)
LEMMA WalkIs ==
  ASSUME NEW next, SingleSteps(next), NEW seen \in SUBSET (1..Len(next)), NEW i \in 1..Len(next) \ seen
  PROVE  Walked(next, seen, i, Walk(next, seen, i))
<1> DEFINE after == CHOOSE f : IsWalk(next, seen, i, f)
<1>1. Walk(next, seen, i) = after[Len(next)]
  BY DEF Walk, IsWalk, WalkedOn
<1>2. IsWalk(next, seen, i, after)
  BY WalkExists DEF HasWalk
<1> HIDE DEF after
<1> QED BY <1>1, <1>2, WalkIsWalked

\* What is known when the walks from the first nodes were taken.
Sought(next, d) ==
  /\ d \in [seen : SUBSET (1..Len(next)), cycles : SUBSET (1..Len(next))]
  /\ \A x \in d.seen : next[x] \in d.seen \cup {0}
  /\ d.cycles = d.seen \cap Endless(next)

\* One walk more, if its first node was not seen before.
Seek(next, d, i) ==
  IF i \in d.seen THEN d
  ELSE LET walk == Walk(next, d.seen, i)
       IN [seen |-> d.seen \cup walk.path, cycles |-> AfterWalk(d.cycles, walk)]

LEMMA SeekIs ==
  ASSUME NEW next, SingleSteps(next), NEW d, Sought(next, d), NEW i \in 1..Len(next)
  PROVE  /\ Sought(next, Seek(next, d, i))
         /\ d.seen \cup {i} \subseteq Seek(next, d, i).seen
<1>1. CASE i \in d.seen
  BY <1>1 DEF Seek
<1>2. CASE i \notin d.seen
  <2> DEFINE w == Walk(next, d.seen, i)
             e == Seek(next, d, i)
             n == Len(next)
             L == Endless(next)
  <2>1. d.seen \in SUBSET (1..n) /\ d.cycles \in SUBSET (1..n)
    BY DEF Sought
  <2>2. Walked(next, d.seen, i, w)
    BY <1>2, <2>1, WalkIs
  <2>3. e = [seen |-> d.seen \cup w.path, cycles |-> AfterWalk(d.cycles, w)]
    BY <1>2 DEF Seek
  <2> HIDE DEF w, e, n, L
  <2>4. e.seen = d.seen \cup w.path /\ e.cycles = AfterWalk(d.cycles, w)
    BY <2>3
  <2>5. w.path \in SUBSET (1..n) /\ i \in w.path
    BY <2>2 DEF Walked, Walks, n
  <2>6. \A x \in e.seen : next[x] \in e.seen \cup {0}
    BY <2>2, <2>4 DEF Walked, Walks, WalkStops, Sought
  <2>7. \A x \in w.path : x \in L <=> w.end \in L
    BY <2>2 DEF Walked, Walks, L
  <2>8. 0 \notin L
    BY DEF L, Endless
  <2>9. d.cycles = d.seen \cap L
    BY DEF Sought, L
  <2>10. CASE w.end \in w.path
    <3>1. \A x \in w.path : next[x] \in w.path
      BY <2>2, <2>10 DEF Walked, Walks
    <3>2. w.path \subseteq L
      BY <2>5, <3>1 DEF L, Endless, n
    <3>3. e.cycles = d.cycles \cup w.path
      BY <2>4, <2>10 DEF AfterWalk
    <3> QED BY <2>1, <2>3, <2>4, <2>5, <2>6, <2>9, <3>2, <3>3 DEF Sought, n, L, e
  <2>11. CASE w.end \in d.cycles
    <3>1. w.path \subseteq L
      BY <2>7, <2>9, <2>11
    <3>2. e.cycles = d.cycles \cup w.path
      BY <2>4, <2>11 DEF AfterWalk
    <3> QED BY <2>1, <2>3, <2>4, <2>5, <2>6, <2>9, <3>1, <3>2 DEF Sought, n, L, e
  <2>12. CASE w.end \notin w.path \cup d.cycles
    <3>1. w.end \notin L
      BY <2>2, <2>8, <2>9, <2>12 DEF Walked, WalkStops
    <3>2. w.path \cap L = {}
      BY <2>7, <3>1
    <3>3. e.cycles = d.cycles
      BY <2>4, <2>12 DEF AfterWalk
    <3> QED BY <2>1, <2>3, <2>4, <2>5, <2>6, <2>9, <3>2, <3>3 DEF Sought, n, L, e
  <2> QED BY <2>10, <2>11, <2>12
<1> QED BY <1>1, <1>2

(* EnterCycles finds exactly the nodes whose walk never ends.              *)
LEMMA EnterCyclesIs ==
  ASSUME NEW next, SingleSteps(next)
  PROVE  EnterCycles(next) = Endless(next)
<1> DEFINE base == [seen |-> {}, cycles |-> {}]
           n == Len(next)
           V == {d \in [seen : SUBSET (1..n), cycles : SUBSET (1..n)] : Sought(next, d)}
           H == [p \in (1..n) \X V |-> Seek(next, p[2], p[1])]
           ids == [i \in DOMAIN next |-> i]
           Step(g, s) == IF s = {} THEN base ELSE Seek(next, g[s \ {Max(s)}], ids[Max(s)])
           IsIter(g) == g = [s \in SUBSET DOMAIN ids |-> Step(g, s)]
           iter == CHOOSE g : IsIter(g)
<1>1. n \in Nat /\ DOMAIN next = 1..n
  BY DEF SingleSteps
<1>2. EnterCycles(next) = iter[DOMAIN ids].cycles
  BY DEF EnterCycles, Seek, FoldLeft, MapThenFoldSet
<1>0. DOMAIN ids = 1..n /\ \A i \in 1..n : ids[i] = i
  BY <1>1
<1>3. base \in V
  BY DEF Sought
<1>4. \A d \in V, i \in 1..n : Seek(next, d, i) \in V /\ d.seen \cup {i} \subseteq Seek(next, d, i).seen
  <2> SUFFICES ASSUME NEW d \in V, NEW i \in 1..n
               PROVE  Seek(next, d, i) \in V /\ d.seen \cup {i} \subseteq Seek(next, d, i).seen
    OBVIOUS
  <2>1. Sought(next, Seek(next, d, i)) /\ d.seen \cup {i} \subseteq Seek(next, d, i).seen
    BY SeekIs
  <2>2. Seek(next, d, i) \in [seen : SUBSET (1..n), cycles : SUBSET (1..n)]
    BY <2>1 DEF Sought
  <2> QED BY <2>1, <2>2
<1> HIDE DEF base, V, n, ids
<1>5. H \in [(1..n) \X V -> V]
  BY <1>4
<1>6. \E g \in [SUBSET (1..n) -> V] : IsIter(g)
  <2>1. PICK g \in [SUBSET (1..n) -> V] : \A s \in SUBSET (1..n) :
             g[s] = IF s = {} THEN base ELSE H[<<Max(s), g[s \ {Max(s)}]>>]
    <3>1. HasPrefixRecursion(n, V, base, H)
      <4> HIDE DEF H
      <4> QED BY <1>1, <1>3, <1>5, RecursionOnPrefixes
    <3> HIDE DEF H
    <3> QED BY <3>1 DEF HasPrefixRecursion
  <2>2. ASSUME NEW s \in SUBSET DOMAIN ids
        PROVE  g[s] = Step(g, s)
    <3>1. CASE s = {}
      BY <1>0, <2>1, <3>1
    <3>2. CASE s # {}
      <4>1. Max(s) \in 1..n
        BY <1>0, <1>1, <3>2, MaxOfIndices
      <4> QED BY <1>0, <2>1, <3>2, <4>1
    <3> QED BY <3>1, <3>2
  <2> HIDE DEF Step
  <2>3. g \in [SUBSET DOMAIN ids -> V]
    BY <1>0, <2>1
  <2> QED BY <2>2, <2>3
<1>7. IsIter(iter)
  <2> HIDE DEF IsIter
  <2> QED BY <1>6
<1>8. iter[{}] = base /\ \A k \in 1..n : iter[1..k] = Seek(next, iter[1..k-1], k)
  <2> HIDE DEF iter
  <2>1. \A s \in SUBSET (1..n) : iter[s] = Step(iter, s)
    BY <1>0, <1>7
  <2>2. iter[{}] = base
    BY <2>1
  <2>3. \A k \in 1..n : iter[1..k] = Seek(next, iter[1..k-1], k)
    <3> SUFFICES ASSUME NEW k \in 1..n PROVE iter[1..k] = Seek(next, iter[1..k-1], k)
      OBVIOUS
    <3>1. /\ 1..k \in SUBSET (1..n) /\ 1..k # {}
          /\ Max(1..k) = k /\ (1..k) \ {Max(1..k)} = 1..k-1
      BY <1>1, PrefixMax
    <3>2. iter[1..k] = Seek(next, iter[(1..k) \ {Max(1..k)}], ids[Max(1..k)])
      BY <2>1, <3>1
    <3> QED BY <1>0, <3>1, <3>2
  <2> QED BY <2>2, <2>3
<1> HIDE DEF iter
<1> DEFINE T == {k \in 0..n : iter[1..k] \in V /\ 1..k \subseteq iter[1..k].seen}
<1>9. 0 \in T
  <2>1. 1..0 = {} /\ 0 \in 0..n
    BY <1>1
  <2> QED BY <1>3, <1>8, <2>1
<1>10. ASSUME NEW k \in 1..n, k - 1 \in T PROVE k \in T
  <2>1. iter[1..k-1] \in V /\ 1..k-1 \subseteq iter[1..k-1].seen
    BY <1>10
  <2>2. iter[1..k] \in V /\ iter[1..k-1].seen \cup {k} \subseteq iter[1..k].seen
    BY <1>4, <1>8, <2>1
  <2>3. 1..k = (1..k-1) \cup {k} /\ k \in 0..n
    BY <1>1
  <2> QED BY <2>1, <2>2, <2>3
<1>11. n \in T
  <2> HIDE DEF T
  <2>1. \A k \in 0..n : k \in T
    BY <1>1, <1>9, <1>10, InductionUpTo
  <2> QED BY <1>1, <2>1
<1>12. Sought(next, iter[1..n]) /\ 1..n \subseteq iter[1..n].seen
  BY <1>11 DEF V
<1>13. iter[1..n].cycles = iter[1..n].seen \cap Endless(next) /\ Endless(next) \subseteq 1..n
  BY <1>12 DEF Sought, Endless, n
<1> QED BY <1>0, <1>2, <1>12, <1>13

-----------------------------------------------------------------------------
(* Which record speaks for a URL.                                          *)

(* Nothing that is no URL leads to a page.                                 *)
LEMMA SettlesForUrls ==
  ASSUME site \in Sites, NEW u, u \notin Urls
  PROVE  Settles(u) = None
<1> DEFINE trail == Trail(site, u)
           T == {k \in 0..MaxRedirects : trail[k] \notin Urls}
<1>1. trail[0] = u /\ \A k \in 0..MaxRedirects :
        trail[k + 1] = IF trail[k] \in Urls /\ site[trail[k]].kind = "redirect" THEN site[trail[k]].to ELSE None
  BY TrailFacts
<1> HIDE DEF trail
<1>2. 0 \in T
  BY <1>1, LimitIsNat
<1>3. ASSUME NEW k \in 1..MaxRedirects, k - 1 \in T PROVE k \in T
  <2>1. k - 1 \in 0..MaxRedirects /\ (k - 1) + 1 = k /\ k \in 0..MaxRedirects
    BY LimitIsNat
  <2>2. trail[k] = None
    BY <1>1, <1>3, <2>1
  <2> QED BY <2>1, <2>2, NoneIsNoUrl
<1>4. \A k \in 0..MaxRedirects : k \in T
  <2> HIDE DEF T
  <2> QED BY <1>2, <1>3, LimitIsNat, InductionUpTo
<1>5. \A k \in 0..MaxRedirects : Trail(site, u)[k] \notin SitePages
  BY <1>4 DEF SitePages, trail
<1> QED BY <1>5 DEF Settles

(* What the record of a page says of the page.                             *)
LEMMA PageTells ==
  ASSUME site \in Sites, NEW r, Made(site, r), IsPage(r)
  PROVE  /\ r.final \in SitePages /\ r.final \in Urls /\ site[r.final].kind = "answer"
         /\ Settles(r.url) = r.final /\ Settles(r.final) = r.final
         /\ r.canonical = CanonicalOf(r.final)
         /\ r.next = site[r.final].page.next /\ r.prev = site[r.final].page.prev
         /\ ~IsRedirect(r) /\ ~IsBroken(r)
<1>1. PICK u, c : OnTheWay(site, r.url, u, c) /\ EndedAt(site, r, u, c)
  BY DEF Made
<1>2. Arrived(r, u, c) /\ Signals(r, site[u]) /\ u \in SitePages
  BY <1>1, PageIsOfSite
<1>3. /\ r.final = u /\ r.canonical = CanonicalOf(r.final)
      /\ r.next = site[r.final].page.next /\ r.prev = site[r.final].page.prev
  BY <1>2 DEF Arrived, Signals, CanonicalOf
<1>4. r.final \in SitePages /\ Settles(r.url) = r.final /\ Settles(r.final) = r.final
  BY SettlesByRecord
<1>5. r.status # None /\ r.status \in 200..299
  BY DEF IsPage, IsSuccess
<1>6. ~IsRedirect(r) /\ ~IsBroken(r)
  BY <1>5 DEF IsRedirect, IsBroken, IsNoResponse
<1>7. r.final \in Urls /\ site[r.final].kind = "answer"
  BY <1>4 DEF SitePages, IsSitePage
<1> QED BY <1>3, <1>4, <1>6, <1>7

-----------------------------------------------------------------------------

\* What the reference audit takes for an answer.
Seen(r) == r.status # None \/ IsNoResponse(r)

LEMMA AuditIs ==
  ASSUME NEW i \in DOMAIN records
  PROVE  /\ Audit[i].url = records[i].url /\ Audit[i].final = records[i].final
         /\ Audit[i].hops = Hops(records[i]) /\ Audit[i].page = IsPage(records[i])
         /\ Audit[i].fetched = Fetched(records[i]) /\ Audit[i].broken = IsBroken(records[i])
         /\ Audit[i].redirect = IsRedirect(records[i])
         /\ Audit[i].observed = Seen(records[i]) /\ Audit[i].failed = Failed(records[i])
         /\ Audit[i].finalObserved = (records[i].error # "Redirect limit exceeded")
<1> DEFINE r == records[i]
<1>1. Audit[i] = MemoryAudit(r)
  BY DEF Audit
<1> HIDE DEF r
<1>2. /\ MemoryAudit(r).url = r.url /\ MemoryAudit(r).final = r.final
      /\ MemoryAudit(r).hops = Hops(r) /\ MemoryAudit(r).page = IsPage(r)
      /\ MemoryAudit(r).fetched = Fetched(r) /\ MemoryAudit(r).broken = IsBroken(r)
      /\ MemoryAudit(r).redirect = IsRedirect(r)
      /\ MemoryAudit(r).observed = Seen(r) /\ MemoryAudit(r).failed = Failed(r)
      /\ MemoryAudit(r).finalObserved = (r.error # "Redirect limit exceeded")
  BY DEF MemoryAudit, Fetched, Seen, Failed
<1> QED BY <1>1, <1>2 DEF r

\* The claim of a record on its own URL, and what every other claim is.
OwnClaim(i) ==
  [pending |-> ~Audit[i].fetched, priority |-> 0, at |-> i,
   redirect |-> Audit[i].redirect \/ Audit[i].hops # {}]
IsClaim(u, c) ==
  /\ c.at \in DOMAIN records /\ c.pending = ~Audit[c.at].fetched
  /\ \/ c.priority = 0 /\ records[c.at].url = u /\ c = OwnClaim(c.at)
     \/ c.priority = 1 /\ u \in Hops(records[c.at])
     \/ c.priority = 2 /\ records[c.at].final = u

LEMMA ClaimsAre ==
  ASSUME NEW u
  PROVE  /\ \A c \in Speaks(u) : IsClaim(u, c)
         /\ \A i \in DOMAIN records : records[i].url = u => OwnClaim(i) \in Speaks(u)
         /\ \A i \in DOMAIN records : u \in Hops(records[i]) =>
              \E c \in Speaks(u) : c.at = i /\ c.priority = 1
<1>0. DOMAIN Audit = DOMAIN records
  BY DEF Audit
<1>1. \A i \in DOMAIN records : /\ Audit[i].url = records[i].url /\ Audit[i].final = records[i].final
                                /\ Audit[i].hops = Hops(records[i])
  BY AuditIs
<1> DEFINE Claim(i, priority, redirect) ==
             [pending |-> ~Audit[i].fetched, priority |-> priority, at |-> i, redirect |-> redirect]
           A == {Claim(i, 0, Audit[i].redirect \/ Audit[i].hops # {}) : i \in {i \in DOMAIN Audit : Audit[i].url = u}}
           B == {Claim(i, 1, TRUE) : i \in {i \in DOMAIN Audit : u \in Audit[i].hops}}
           C == {Claim(i, 2, Audit[i].redirect) : i \in {i \in DOMAIN Audit : Audit[i].final = u}}
<1>2. Speaks(u) = A \cup B \cup C
  BY DEF Speaks
<1>3. ASSUME NEW c \in A PROVE IsClaim(u, c)
  <2>1. PICK i \in DOMAIN records : Audit[i].url = u /\ c = OwnClaim(i)
    BY <1>0 DEF OwnClaim
  <2>2. c.at = i /\ c.priority = 0 /\ c.pending = ~Audit[i].fetched
    BY <2>1 DEF OwnClaim
  <2> QED BY <1>1, <2>1, <2>2 DEF IsClaim
<1>4. ASSUME NEW c \in B PROVE IsClaim(u, c)
  <2>1. PICK i \in DOMAIN records : u \in Audit[i].hops /\ c = Claim(i, 1, TRUE)
    BY <1>0
  <2>2. c.at = i /\ c.priority = 1 /\ c.pending = ~Audit[i].fetched
    BY <2>1
  <2> QED BY <1>1, <2>1, <2>2 DEF IsClaim
<1>5. ASSUME NEW c \in C PROVE IsClaim(u, c)
  <2>1. PICK i \in DOMAIN records : Audit[i].final = u /\ c = Claim(i, 2, Audit[i].redirect)
    BY <1>0
  <2>2. c.at = i /\ c.priority = 2 /\ c.pending = ~Audit[i].fetched
    BY <2>1
  <2> QED BY <1>1, <2>1, <2>2 DEF IsClaim
<1>6. ASSUME NEW i \in DOMAIN records, records[i].url = u PROVE OwnClaim(i) \in A
  BY <1>0, <1>1, <1>6 DEF OwnClaim
<1>7. ASSUME NEW i \in DOMAIN records, u \in Hops(records[i])
      PROVE  \E c \in Speaks(u) : c.at = i /\ c.priority = 1
  <2>1. Claim(i, 1, TRUE) \in B
    BY <1>0, <1>1, <1>7
  <2>2. Claim(i, 1, TRUE).at = i /\ Claim(i, 1, TRUE).priority = 1
    OBVIOUS
  <2> HIDE DEF Claim
  <2> QED BY <1>2, <2>1, <2>2
<1> QED BY <1>2, <1>3, <1>4, <1>5, <1>6, <1>7

LEMMA FirstIs ==
  ASSUME NEW C, C # {}, \A c \in C : c.pending = FALSE /\ c.priority \in Nat /\ c.at \in Nat
  PROVE  First(C) \in C /\ \A d \in C : ~Outranks(d, First(C))
<1>1. PICK p \in {c.priority : c \in C} : \A q \in {c.priority : c \in C} : p <= q
  <2> DEFINE P == {c.priority : c \in C}
  <2>1. P \subseteq Nat /\ P # {}
    OBVIOUS
  <2> HIDE DEF P
  <2>2. \E x \in P : \A y \in P : x <= y
    BY <2>1, LeastNatural
  <2> QED BY <2>2 DEF P
<1> DEFINE D == {c \in C : c.priority = p}
<1>2. PICK a \in {c.at : c \in D} : \A b \in {c.at : c \in D} : a <= b
  <2> DEFINE A == {c.at : c \in D}
  <2>1. A \subseteq Nat /\ A # {}
    BY <1>1
  <2> HIDE DEF A, D
  <2>2. \E x \in A : \A y \in A : x <= y
    BY <2>1, LeastNatural
  <2> QED BY <2>2 DEF A
<1>3. PICK c \in D : c.at = a
  BY <1>2
<1>4. ASSUME NEW d \in C PROVE ~Outranks(d, c)
  <2>1. p <= d.priority /\ c.priority = p /\ p \in Nat /\ d.priority \in Nat
    BY <1>1, <1>3
  <2>2. d.priority = p => a <= d.at
    BY <1>2
  <2>3. d.pending = FALSE /\ c.pending = FALSE /\ d.at \in Nat /\ a \in Nat
    BY <1>3
  <2> QED BY <1>3, <2>1, <2>2, <2>3 DEF Outranks
<1>5. c \in C
  BY <1>3
<1> HIDE DEF D
<1> QED BY <1>4, <1>5 DEF First

-----------------------------------------------------------------------------
(* The step from a page to where its canonical leads.                      *)

LEMMA StockFacts ==
  ASSUME Fetching, Stocked
  PROVE  /\ site \in Sites /\ DOMAIN records = 1..Len(records) /\ Len(records) \in Nat
         /\ \A i \in DOMAIN records : Made(site, records[i]) /\ Audit[i].fetched
<1>1. site \in Sites /\ DOMAIN records = 1..Len(records) /\ Len(records) \in Nat
  BY DEF Fetching
<1>2. \A i \in DOMAIN records : Made(site, records[i])
  BY DEF Stocked
<1>3. ASSUME NEW i \in DOMAIN records PROVE Audit[i].fetched
  <2>1. Fetched(records[i])
    BY <1>1, <1>2, MadeIsFetched
  <2> QED BY <2>1, AuditIs
<1> QED BY <1>1, <1>2, <1>3

(* Every claim is of a record that was fetched.                            *)
LEMMA ClaimsArePast ==
  ASSUME Fetching, Stocked, NEW u, NEW c, IsClaim(u, c)
  PROVE  c.pending = FALSE /\ c.priority \in Nat /\ c.at \in Nat /\ c.at \in DOMAIN records
<1>1. c.at \in DOMAIN records /\ c.pending = ~Audit[c.at].fetched
  BY DEF IsClaim
<1>2. c.priority \in Nat
  BY DEF IsClaim
<1>3. Audit[c.at].fetched
  BY <1>1, StockFacts
<1>4. c.pending = FALSE
  BY <1>1, <1>3, Zenon
<1>5. c.at \in Nat
  BY <1>1, StockFacts
<1> QED BY <1>1, <1>2, <1>4, <1>5

(* One claim comes first.                                                  *)
LEMMA BestClaim ==
  ASSUME Fetching, Stocked, NEW u, Speaks(u) # {}
  PROVE  /\ First(Speaks(u)) \in Speaks(u) /\ IsClaim(u, First(Speaks(u)))
         /\ \A d \in Speaks(u) : ~Outranks(d, First(Speaks(u)))
<1>1. \A c \in Speaks(u) : IsClaim(u, c)
  BY ClaimsAre
<1>2. \A c \in Speaks(u) : c.pending = FALSE /\ c.priority \in Nat /\ c.at \in Nat
  BY <1>1, ClaimsArePast
<1> QED BY <1>1, <1>2, FirstIs

(* The record of a URL speaks for it before every other.                   *)
LEMMA OwnLeads ==
  ASSUME Fetching, Stocked, NEW k \in DOMAIN records,
         NEW C \in SUBSET Speaks(records[k].url), OwnClaim(k) \in C
  PROVE  First(C) = OwnClaim(k)
<1> DEFINE u == records[k].url
           own == OwnClaim(k)
           c == First(C)
<1>1. \A d \in C : IsClaim(u, d)
  BY ClaimsAre
<1>2. own.pending = FALSE /\ own.priority = 0 /\ own.at = k
  BY StockFacts DEF OwnClaim
<1>3. \A d \in C : d.pending = FALSE /\ d.priority \in Nat /\ d.at \in Nat
  BY <1>1, ClaimsArePast
<1>4. c \in C /\ ~Outranks(own, c)
  <2>1. C # {}
    OBVIOUS
  <2> QED BY <1>3, <2>1, FirstIs
<1> HIDE DEF own, u, c
<1>5. IsClaim(u, c) /\ c.at \in DOMAIN records /\ c.pending = FALSE /\ c.priority \in Nat
  BY <1>1, <1>4, ClaimsArePast
<1>6. ~(0 < c.priority)
  BY <1>2, <1>4, <1>5 DEF Outranks
<1>7. c.priority = 0
  BY <1>5, <1>6
<1>8. records[c.at].url = u /\ c = OwnClaim(c.at)
  BY <1>5, <1>7 DEF IsClaim
<1>9. c.at = k
  BY <1>5, <1>8 DEF Stocked, u
<1> QED BY <1>8, <1>9 DEF c

LEMMA OwnComesFirst ==
  ASSUME Fetching, Stocked, NEW k \in DOMAIN records
  PROVE  Speaks(records[k].url) # {} /\ First(Speaks(records[k].url)) = OwnClaim(k)
<1> DEFINE C == Speaks(records[k].url)
<1>1. OwnClaim(k) \in C
  BY ClaimsAre
<1>2. First(C) = OwnClaim(k)
  BY <1>1, OwnLeads
<1> QED BY <1>1, <1>2

(* A page that speaks for a URL is where the URL leads.                    *)
LEMMA PageSpeaks ==
  ASSUME Fetching, Stocked, NEW u, NEW c, IsClaim(u, c), IsPage(records[c.at])
  PROVE  Settles(u) = records[c.at].final
<1> DEFINE r == records[c.at]
<1>1. site \in Sites /\ Made(site, r)
  BY StockFacts DEF IsClaim
<1>2. Settles(r.url) = r.final /\ Settles(r.final) = r.final /\ \A x \in Hops(r) : Settles(x) = r.final
  BY <1>1, PageTells, HopsOfPage
<1> QED BY <1>2 DEF IsClaim

(* What the walk over canonicals is taken over: from page to page, on the  *)
(* site's canonicals.                                                      *)
CanonicalStep(i, t) ==
  /\ t \in DOMAIN records /\ PointsAway(i) /\ IsPage(records[i]) /\ IsPage(records[t])
  /\ Settles(records[i].canonical) = records[t].final /\ records[t].final # records[i].final

LEMMA CanonicalNextIs ==
  ASSUME Fetching, Stocked
  PROVE  /\ SingleSteps(CanonicalNext) /\ Len(CanonicalNext) = Len(records)
         /\ \A i \in DOMAIN records : CanonicalNext[i] # 0 => CanonicalStep(i, CanonicalNext[i])
<1> DEFINE n == Len(records)
<1>1. DOMAIN records = 1..n /\ n \in Nat
  BY StockFacts
<1>2. ASSUME NEW i \in DOMAIN records, CanonicalNext[i] # 0
      PROVE  CanonicalStep(i, CanonicalNext[i])
  <2> DEFINE u == records[i].canonical
             c == First(Speaks(u))
  <2>1. CanonicalNext[i] =
          IF ~PointsAway(i) \/ CanonicalClaims(i) = {} THEN 0
          ELSE LET t == First(CanonicalClaims(i)).at
               IN IF Audit[t].fetched /\ Audit[t].page /\ Audit[t].final # Audit[i].final THEN t ELSE 0
    BY DEF CanonicalNext
  <2>2. PointsAway(i) /\ CanonicalClaims(i) = Speaks(u)
    BY <1>2, <2>1 DEF CanonicalClaims
  <2>3. Speaks(u) # {} /\ CanonicalNext[i] = c.at /\ Audit[c.at].page /\ Audit[c.at].final # Audit[i].final
    BY <1>2, <2>1, <2>2
  <2>4. IsClaim(u, c)
    BY <2>3, BestClaim
  <2> HIDE DEF c
  <2>5. c.at \in DOMAIN records
    BY <2>4 DEF IsClaim
  <2>6. IsPage(records[c.at]) /\ records[c.at].final # records[i].final
    BY <2>3, <2>5, AuditIs
  <2>7. IsPage(records[i])
    BY <2>2, AuditIs DEF PointsAway
  <2>8. Settles(u) = records[c.at].final
    BY <2>4, <2>6, PageSpeaks
  <2> QED BY <2>2, <2>3, <2>5, <2>6, <2>7, <2>8 DEF CanonicalStep
<1>3. \A i \in 1..n : CanonicalNext[i] \in 0..n
  BY <1>1, <1>2 DEF CanonicalStep
<1>4. DOMAIN CanonicalNext = 1..n /\ CanonicalNext = [i \in 1..n |-> CanonicalNext[i]]
  BY <1>1 DEF CanonicalNext
<1>5. Len(CanonicalNext) = n
  <2>1. CanonicalNext \in [1..n -> 0..n]
    BY <1>3, <1>4
  <2>2. CanonicalNext \in Seq(0..n)
    BY <1>1, <2>1, FunIsSeq
  <2> HIDE DEF n
  <2>3. DOMAIN CanonicalNext = 1..Len(CanonicalNext) /\ Len(CanonicalNext) \in Nat
    BY <2>2, LenProperties
  <2> QED BY <1>1, <1>4, <2>3
<1> QED BY <1>1, <1>2, <1>3, <1>4, <1>5 DEF SingleSteps

-----------------------------------------------------------------------------
(* The canonicals: what is flagged, and that the loops are those of the    *)
(* site.                                                                   *)

(* The claim that decides, for a page.                                     *)
LEMMA DecidingClaim ==
  ASSUME Fetching, Stocked, NEW i \in DOMAIN records, CanonicalClaims(i) # {}
  PROVE  LET best == First(CanonicalClaims(i))
         IN /\ best.at \in DOMAIN records /\ Audit[best.at].fetched
            /\ ~PointsAway(i) =>
                 /\ best.at = i
                 /\ best.redirect = (Audit[i].redirect \/ records[i].canonical \in Audit[i].hops)
<1>1. CASE PointsAway(i)
  <2>1. CanonicalClaims(i) = Speaks(records[i].canonical)
    BY <1>1 DEF CanonicalClaims
  <2>2. IsClaim(records[i].canonical, First(CanonicalClaims(i)))
    BY <2>1, BestClaim
  <2>3. First(CanonicalClaims(i)).at \in DOMAIN records
    BY <2>2, ClaimsArePast
  <2> QED BY <1>1, <2>3, StockFacts
<1>2. CASE ~PointsAway(i)
  <2> DEFINE x == [pending |-> FALSE, priority |-> 0, at |-> i,
                   redirect |-> Audit[i].redirect \/ records[i].canonical \in Audit[i].hops]
  <2>1. CanonicalClaims(i) = {x}
    BY <1>2 DEF CanonicalClaims
  <2>2. /\ x.pending = FALSE /\ x.priority = 0 /\ x.at = i
        /\ x.redirect = (Audit[i].redirect \/ records[i].canonical \in Audit[i].hops)
    OBVIOUS
  <2>3. i \in Nat
    BY StockFacts
  <2> HIDE DEF x
  <2> DEFINE C == {x}
  <2>4. C # {} /\ \A c \in C : c.pending = FALSE /\ c.priority \in Nat /\ c.at \in Nat
    BY <2>2, <2>3
  <2>5. First(CanonicalClaims(i)) = x
    <3> HIDE DEF C
    <3>1. First(C) \in C
      BY <2>4, FirstIs
    <3> QED BY <2>1, <3>1 DEF C
  <2> QED BY <1>2, <2>2, <2>5, StockFacts
<1> QED BY <1>1, <1>2

(* What is flagged of a page.                                              *)
LEMMA CanonicalFlagsAre ==
  ASSUME Fetching, Stocked, NEW i \in DOMAIN records, IsPage(records[i])
  PROVE  LET flags == CanonicalReport(i)
             judged == records[i].canonical \in Urls /\ CanonicalClaims(i) # {}
             best == First(CanonicalClaims(i))
         IN /\ "loop" \in flags <=> judged /\ i \in EnterCycles(CanonicalNext)
            /\ "redirect" \in flags <=> judged /\ best.redirect
            /\ "error" \in flags <=> judged /\ Audit[best.at].broken
            /\ "uncrawled" \in flags => records[i].canonical \in Urls /\ CanonicalClaims(i) = {}
<1> DEFINE claims == CanonicalClaims(i)
           best == First(claims)
           next == CanonicalNext
           Part(flag, holds) == IF holds THEN {flag} ELSE {}
           away == records[i].internal /\ {Audit[i].final, records[i].canonical} \subseteq Internal
           onward == next[i] # 0 /\ PointsAway(next[i])
           around == i \in EnterCycles(next)
<1>1. Audit[i].page
  BY AuditIs
<1>2. claims # {} => Audit[best.at].fetched
  BY DecidingClaim
<1>3. CanonicalReport(i) =
        IF records[i].canonical \notin Urls THEN {}
        ELSE IF claims = {} \/ ~Audit[best.at].fetched THEN Part("uncrawled", away)
        ELSE Part("redirect", best.redirect) \cup Part("error", Audit[best.at].broken)
             \cup Part("non-indexable", Audit[best.at].closed)
             \cup Part("chain", onward) \cup Part("loop", around)
  BY <1>1 DEF CanonicalReport, CanonicalFlags
<1> HIDE DEF claims, best, next, away, onward, around
<1> QED BY <1>2, <1>3 DEF claims, best, next, around

(* A loop that is reported is one of the site.                             *)
LEMMA LoopsAreReal ==
  ASSUME Fetching, Stocked, NEW i \in DOMAIN records, IsPage(records[i]),
         i \in EnterCycles(CanonicalNext)
  PROVE  CanonicalsCycle(records[i].final)
<1> DEFINE next == CanonicalNext
<1>1. /\ SingleSteps(next) /\ Len(next) = Len(records)
      /\ \A x \in DOMAIN records : next[x] # 0 => CanonicalStep(x, next[x])
  BY CanonicalNextIs
<1>2. i \in Endless(next)
  BY <1>1, EnterCyclesIs
<1> HIDE DEF next
<1>3. DOMAIN records = 1..Len(records) /\ Len(records) \in Nat /\ site \in Sites
  BY StockFacts
<1>4. PICK S \in SUBSET DOMAIN records : i \in S /\ \A x \in S : next[x] \in S
  BY <1>1, <1>2, <1>3 DEF Endless
<1> DEFINE F == {records[x].final : x \in S}
<1>5. ASSUME NEW x \in S
      PROVE  /\ records[x].final \in SitePages /\ CanonicalOf(records[x].final) # None
             /\ Settles(CanonicalOf(records[x].final)) \in F \ {records[x].final}
  <2>1. next[x] \in S /\ next[x] # 0
    BY <1>3, <1>4
  <2>2. CanonicalStep(x, next[x])
    BY <1>1, <2>1
  <2>3. Made(site, records[x]) /\ IsPage(records[x])
    BY <2>2, StockFacts DEF CanonicalStep
  <2>4. records[x].final \in SitePages /\ records[x].canonical = CanonicalOf(records[x].final)
    BY <1>3, <2>3, PageTells
  <2>5. records[x].canonical # None
    BY <2>2, NoneIsNoUrl DEF CanonicalStep, PointsAway
  <2> QED BY <2>1, <2>2, <2>4, <2>5 DEF CanonicalStep
<1>6. F \in SUBSET SitePages /\ records[i].final \in F
  BY <1>4, <1>5
<1>7. \A y \in F : CanonicalOf(y) # None /\ Settles(CanonicalOf(y)) \in F \ {y}
  BY <1>5
<1> HIDE DEF F
<1> QED BY <1>6, <1>7 DEF CanonicalsCycle

(* When everything was fetched, a canonical that points away leads on to   *)
(* the record of its URL.                                                  *)
LEMMA AllSpokenFor ==
  ASSUME Fetching, Stocked, Complete, NEW i \in DOMAIN records, PointsAway(i)
  PROVE  \E k \in DOMAIN records :
           /\ records[k].url = records[i].canonical
           /\ CanonicalClaims(i) # {} /\ First(CanonicalClaims(i)) = OwnClaim(k)
<1>1. records[i].canonical \in Done
  BY DEF PointsAway, Complete
<1>2. PICK k \in DOMAIN records : records[k].url = records[i].canonical
  BY <1>1 DEF Done
<1>3. CanonicalClaims(i) = Speaks(records[k].url)
  BY <1>2 DEF CanonicalClaims
<1>4. Speaks(records[k].url) # {} /\ First(Speaks(records[k].url)) = OwnClaim(k)
  BY OwnComesFirst
<1> QED BY <1>2, <1>3, <1>4

(* Then every loop of the site is found.                                   *)
LEMMA LoopsAreFound ==
  ASSUME Fetching, Stocked, Complete, NEW i \in DOMAIN records, IsPage(records[i]),
         CanonicalsCycle(records[i].final)
  PROVE  PointsAway(i) /\ i \in EnterCycles(CanonicalNext)
<1> DEFINE next == CanonicalNext
<1>1. SingleSteps(next) /\ Len(next) = Len(records)
  BY CanonicalNextIs
<1>2. DOMAIN records = 1..Len(records) /\ Len(records) \in Nat /\ site \in Sites
  BY StockFacts
<1>3. PICK S \in SUBSET SitePages : records[i].final \in S /\ \A x \in S :
         CanonicalOf(x) # None /\ Settles(CanonicalOf(x)) \in S \ {x}
  BY DEF CanonicalsCycle
<1> DEFINE R == {k \in DOMAIN records : IsPage(records[k]) /\ records[k].final \in S}
<1>4. ASSUME NEW k \in R PROVE PointsAway(k) /\ next[k] \in R
  <2> DEFINE r == records[k]
             u == r.canonical
  <2>1. Made(site, r) /\ IsPage(r) /\ k \in DOMAIN records
    BY StockFacts
  <2>2. u = CanonicalOf(r.final) /\ Settles(r.url) = r.final /\ Settles(r.final) = r.final
    BY <1>2, <2>1, PageTells
  <2>3. Settles(u) \in S /\ Settles(u) # r.final
    BY <1>3, <2>2
  <2>4. Settles(u) # None
    BY <1>3, <2>3, NoneIsNoUrl DEF SitePages
  <2>5. u \in Urls
    BY <1>2, <2>4, SettlesForUrls
  <2>6. u # r.url /\ u # r.final
    BY <2>2, <2>3
  <2>7. PointsAway(k)
    BY <2>1, <2>5, <2>6, AuditIs DEF PointsAway
  <2> HIDE DEF r, u
  <2>8. PICK t \in DOMAIN records : /\ records[t].url = records[k].canonical
                                    /\ CanonicalClaims(k) # {} /\ First(CanonicalClaims(k)) = OwnClaim(t)
    BY <2>1, <2>7, AllSpokenFor
  <2>9. Made(site, records[t]) /\ Audit[t].fetched /\ OwnClaim(t).at = t
    BY StockFacts DEF OwnClaim
  <2>10. IsPage(records[t]) /\ records[t].final = Settles(u)
    <3>1. Settles(records[t].url) = IF IsPage(records[t]) THEN records[t].final ELSE None
      BY <1>2, <2>9, SettlesByRecord
    <3>2. records[t].url = u
      BY <2>8 DEF u, r
    <3> QED BY <2>4, <3>1, <3>2
  <2>11. Audit[t].page /\ Audit[t].final # Audit[k].final
    BY <2>1, <2>3, <2>10, AuditIs DEF r
  <2>12. next[k] = t
    <3>1. next[k] = IF ~PointsAway(k) \/ CanonicalClaims(k) = {} THEN 0
                    ELSE LET b == First(CanonicalClaims(k)).at
                         IN IF Audit[b].fetched /\ Audit[b].page /\ Audit[b].final # Audit[k].final THEN b ELSE 0
      BY <2>1 DEF CanonicalNext
    <3> QED BY <2>7, <2>8, <2>9, <2>11, <3>1
  <2>13. t \in R
    BY <2>3, <2>10
  <2> QED BY <2>7, <2>12, <2>13
<1>5. i \in R
  BY <1>3
<1>6. R \in SUBSET (1..Len(next)) /\ \A k \in R : next[k] \in R
  BY <1>1, <1>2, <1>4
<1> HIDE DEF R, next
<1>7. i \in Endless(next)
  BY <1>5, <1>6 DEF Endless
<1> QED BY <1>1, <1>4, <1>5, <1>7, EnterCyclesIs DEF next

-----------------------------------------------------------------------------
(* The flags of a redirect and of an error, and the theorem.               *)

(* A canonical that points away is judged by the record of its URL.        *)
LEMMA AwayIsJudged ==
  ASSUME Fetching, Stocked, Complete, NEW i \in DOMAIN records, PointsAway(i)
  PROVE  LET u == records[i].canonical
             best == First(CanonicalClaims(i))
         IN /\ best.redirect <=> site[u].kind = "redirect" /\ site[u].to # Junk
            /\ Audit[best.at].broken <=> Fails(u, BrokenStatuses)
<1>1. PICK k \in DOMAIN records : /\ records[k].url = records[i].canonical
                                  /\ CanonicalClaims(i) # {} /\ First(CanonicalClaims(i)) = OwnClaim(k)
  BY AllSpokenFor
<1>2. site \in Sites /\ Made(site, records[k])
  BY StockFacts
<1>3. (IsRedirect(records[k]) \/ Hops(records[k]) # {}) <=>
        site[records[k].url].kind = "redirect" /\ site[records[k].url].to # Junk
  BY <1>2, RedirectByRecord
<1>4. IsBroken(records[k]) <=> Fails(records[k].url, BrokenStatuses)
  BY <1>2, FailsByRecord
<1>5. OwnClaim(k).at = k /\ OwnClaim(k).redirect = (Audit[k].redirect \/ Audit[k].hops # {})
  BY DEF OwnClaim
<1>6. /\ Audit[k].redirect = IsRedirect(records[k]) /\ Audit[k].hops = Hops(records[k])
      /\ Audit[k].broken = IsBroken(records[k])
  BY AuditIs
<1> QED BY <1>1, <1>3, <1>4, <1>5, <1>6

(* One that does not is judged by the page itself.                         *)
LEMMA HereIsJudged ==
  ASSUME Fetching, Stocked, NEW i \in DOMAIN records, IsPage(records[i]),
         records[i].canonical \in Urls, ~PointsAway(i)
  PROVE  LET u == records[i].canonical
             best == First(CanonicalClaims(i))
         IN /\ CanonicalClaims(i) # {}
            /\ best.redirect <=> site[u].kind = "redirect" /\ site[u].to # Junk
            /\ Audit[best.at].broken <=> Fails(u, BrokenStatuses)
<1> DEFINE r == records[i]
           u == r.canonical
           best == First(CanonicalClaims(i))
<1>1. site \in Sites /\ Made(site, r)
  BY StockFacts
<1>2. /\ Audit[i].url = r.url /\ Audit[i].final = r.final /\ Audit[i].page = IsPage(r)
      /\ Audit[i].redirect = IsRedirect(r) /\ Audit[i].hops = Hops(r) /\ Audit[i].broken = IsBroken(r)
  BY AuditIs
<1>3. u = r.url \/ u = r.final
  BY <1>2 DEF PointsAway
<1>4. CanonicalClaims(i) # {}
  BY DEF CanonicalClaims
<1>5. best.at = i /\ best.redirect = (Audit[i].redirect \/ u \in Audit[i].hops)
  BY <1>4, DecidingClaim
<1>6. /\ ~IsRedirect(r) /\ ~IsBroken(r) /\ r.final \in Urls
      /\ site[r.final].kind = "answer" /\ r.final \in SitePages
  BY <1>1, PageTells
<1>7. /\ \A x \in Hops(r) : site[x].kind = "redirect" /\ site[x].to \in Urls
      /\ Hops(r) # {} => r.url \in Hops(r)
  BY <1>1, HopsOfPage
<1>8. (IsRedirect(r) \/ Hops(r) # {}) <=> site[r.url].kind = "redirect" /\ site[r.url].to # Junk
  BY <1>1, RedirectByRecord
<1>9. ~Fails(r.url, BrokenStatuses)
  BY <1>1, <1>6, FailsByRecord
<1>10. ~Fails(r.final, BrokenStatuses)
  <2>1. Trail(site, r.final)[0] = r.final /\ 0 \in 0..MaxRedirects
    BY <1>1, TrailFacts, LimitIsNat, SMTT(30)
  <2>2. site[r.final].status \notin BrokenStatuses
    <3>1. site[r.final].status \in 200..299
      BY <1>6 DEF SitePages, IsSitePage, Success
    <3> QED BY <3>1 DEF BrokenStatuses
  <2> QED BY <1>6, <2>1, <2>2 DEF Fails
<1> HIDE DEF r, u, best
<1>11. ~Audit[best.at].broken /\ ~Fails(u, BrokenStatuses)
  BY <1>2, <1>3, <1>5, <1>6, <1>9, <1>10
<1>12. best.redirect <=> u \in Hops(r)
  BY <1>2, <1>5, <1>6
<1>13. u \in Hops(r) <=> site[u].kind = "redirect" /\ site[u].to # Junk
  <2>1. CASE u = r.final
    BY <1>6, <1>7, <2>1
  <2>2. CASE u = r.url
    BY <1>6, <1>7, <1>8, <2>2, NoneIsNoUrl
  <2> QED BY <1>3, <2>1, <2>2
<1> QED BY <1>4, <1>11, <1>12, <1>13 DEF r, u, best

LEMMA CanonicalsTell ==
  ASSUME Fetching, Stocked
  PROVE  CanonicalsTellTheSite
<1> SUFFICES ASSUME NEW i \in PageRecords
             PROVE  LET flags == CanonicalReport(i)
                        p == records[i].final
                        target == CanonicalOf(p)
                    IN /\ "loop" \in flags => CanonicalsCycle(p)
                       /\ Complete =>
                            /\ CanonicalsCycle(p) => "loop" \in flags
                            /\ "uncrawled" \notin flags
                            /\ ("redirect" \in flags) <=>
                                  (target \in Urls /\ site[target].kind = "redirect" /\ site[target].to # Junk)
                            /\ ("error" \in flags) <=> (target \in Urls /\ Fails(target, BrokenStatuses))
  BY DEF CanonicalsTellTheSite
<1> DEFINE flags == CanonicalReport(i)
           p == records[i].final
           u == records[i].canonical
           claims == CanonicalClaims(i)
           best == First(claims)
<1>1. i \in DOMAIN records /\ IsPage(records[i])
  BY DEF PageRecords
<1>2. u = CanonicalOf(p)
  BY <1>1, StockFacts, PageTells
<1>3. /\ "loop" \in flags <=> (u \in Urls /\ claims # {}) /\ i \in EnterCycles(CanonicalNext)
      /\ "redirect" \in flags <=> (u \in Urls /\ claims # {}) /\ best.redirect
      /\ "error" \in flags <=> (u \in Urls /\ claims # {}) /\ Audit[best.at].broken
      /\ "uncrawled" \in flags => u \in Urls /\ claims = {}
  BY <1>1, CanonicalFlagsAre
<1>4. "loop" \in flags => CanonicalsCycle(p)
  BY <1>1, <1>3, LoopsAreReal
<1>5. ASSUME Complete
      PROVE  /\ CanonicalsCycle(p) => "loop" \in flags
             /\ "uncrawled" \notin flags
             /\ ("redirect" \in flags) <=> (u \in Urls /\ site[u].kind = "redirect" /\ site[u].to # Junk)
             /\ ("error" \in flags) <=> (u \in Urls /\ Fails(u, BrokenStatuses))
  <2>1. u \in Urls => claims # {}
    BY <1>1, <1>5, AllSpokenFor, HereIsJudged
  <2>2. u \in Urls => /\ best.redirect <=> site[u].kind = "redirect" /\ site[u].to # Junk
                      /\ Audit[best.at].broken <=> Fails(u, BrokenStatuses)
    BY <1>1, <1>5, AwayIsJudged, HereIsJudged
  <2>3. CanonicalsCycle(p) => u \in Urls /\ i \in EnterCycles(CanonicalNext)
    BY <1>1, <1>5, LoopsAreFound DEF PointsAway
  <2> HIDE DEF flags, p, u, claims, best
  <2> QED BY <1>3, <2>1, <2>2, <2>3
<1> HIDE DEF flags, p, u, claims, best
<1> QED BY <1>2, <1>4, <1>5 DEF flags, p, u

THEOREM CanonicalsOfTheSite == Spec => []CanonicalsTellTheSite
<1>1. Fetching /\ Stocked => CanonicalsTellTheSite
  BY CanonicalsTell
<1> QED BY <1>1, RecordsAreMade, PTL

-----------------------------------------------------------------------------
(* The rest of a trail is the trail of the rest. robots.txt bars a URL when *)
(* it refuses where the redirects of it end.                               *)

(* What a trail comes to, it came to over redirects.                       *)
LEMMA PastRedirects ==
  ASSUME NEW s \in Sites, NEW v, NEW j \in 0..MaxRedirects + 1, Trail(s, v)[j] \in Urls
  PROVE  \A d \in 0..j - 1 : /\ Trail(s, v)[d] \in Urls /\ s[Trail(s, v)[d]].kind = "redirect"
                             /\ s[Trail(s, v)[d]].to \in Urls
<1> DEFINE trail == Trail(s, v)
           T == {d \in 0..j : trail[j - d] \in Urls}
<1>1. \A k \in 0..MaxRedirects :
        trail[k + 1] = IF trail[k] \in Urls /\ s[trail[k]].kind = "redirect" THEN s[trail[k]].to ELSE None
  BY TrailFacts
<1> HIDE DEF trail
<1>2. j \in Nat
  BY LimitIsNat
<1>3. 0 \in T
  BY <1>2 DEF trail
<1>4. ASSUME NEW d \in 1..j, d - 1 \in T PROVE d \in T
  <2>1. j - d \in 0..MaxRedirects /\ (j - d) + 1 = j - (d - 1) /\ d \in 0..j
    BY <1>2, LimitIsNat
  <2>2. trail[(j - d) + 1] \in Urls
    BY <1>4, <2>1
  <2> QED BY <1>1, <2>1, <2>2, NoneIsNoUrl
<1>5. \A d \in 0..j : d \in T
  <2> HIDE DEF T
  <2> QED BY <1>2, <1>3, <1>4, InductionUpTo
<1>6. ASSUME NEW d \in 0..j - 1
      PROVE  trail[d] \in Urls /\ s[trail[d]].kind = "redirect" /\ s[trail[d]].to \in Urls
  <2>1. j - (d + 1) \in 0..j /\ j - (j - (d + 1)) = d + 1 /\ d \in 0..MaxRedirects
    BY <1>2, LimitIsNat
  <2>2. trail[d + 1] \in Urls
    BY <1>5, <2>1
  <2> QED BY <1>1, <2>1, <2>2, NoneIsNoUrl
<1> QED BY <1>6 DEF trail

(* The trail of a URL on a trail is the rest of it.                        *)
LEMMA RestOfTrail ==
  ASSUME NEW s \in Sites, NEW v, NEW k \in 0..MaxRedirects + 1
  PROVE  \A d \in 0..MaxRedirects + 1 - k : Trail(s, Trail(s, v)[k])[d] = Trail(s, v)[k + d]
<1> DEFINE trail == Trail(s, v)
           rest == Trail(s, trail[k])
           m == MaxRedirects + 1 - k
           T == {d \in 0..m : rest[d] = trail[k + d]}
           Next1(x) == IF x \in Urls /\ s[x].kind = "redirect" THEN s[x].to ELSE None
<1>1. rest[0] = trail[k] /\ \A d \in 0..MaxRedirects : rest[d + 1] = Next1(rest[d])
  BY TrailFacts
<1>2. \A d \in 0..MaxRedirects : trail[d + 1] = Next1(trail[d])
  BY TrailFacts
<1> HIDE DEF trail, rest, Next1
<1>3. m \in Nat /\ k \in Nat
  BY LimitIsNat
<1>4. 0 \in T
  BY <1>1, <1>3
<1>5. ASSUME NEW d \in 1..m, d - 1 \in T PROVE d \in T
  <2>1. d - 1 \in 0..MaxRedirects /\ (d - 1) + 1 = d /\ k + (d - 1) \in 0..MaxRedirects /\ (k + (d - 1)) + 1 = k + d
    BY <1>3, LimitIsNat
  <2>2. rest[d - 1] = trail[k + (d - 1)]
    BY <1>5
  <2>3. rest[d] = trail[k + d]
    BY <1>1, <1>2, <2>1, <2>2
  <2> QED BY <1>3, <2>3
<1>6. \A d \in 0..m : d \in T
  <2> HIDE DEF T, m
  <2> QED BY <1>3, <1>4, <1>5, InductionUpTo
<1> QED BY <1>6 DEF trail, rest

(* A trail has one end.                                                    *)
LEMMA OneEnd ==
  ASSUME NEW s \in Sites, NEW v, NEW j \in 0..MaxRedirects, NEW k \in 0..MaxRedirects,
         Trail(s, v)[j] \in Urls, s[Trail(s, v)[j]].kind # "redirect",
         Trail(s, v)[k] \in Urls, s[Trail(s, v)[k]].kind # "redirect"
  PROVE  j = k
<1>1. j \in Nat /\ k \in Nat /\ j \in 0..MaxRedirects + 1 /\ k \in 0..MaxRedirects + 1
  BY LimitIsNat
<1>2. ~(j < k)
  <2> SUFFICES ASSUME j < k PROVE FALSE
    OBVIOUS
  <2>1. j \in 0..k - 1
    BY <1>1
  <2> QED BY <1>1, <2>1, PastRedirects
<1>3. ~(k < j)
  <2> SUFFICES ASSUME k < j PROVE FALSE
    OBVIOUS
  <2>1. k \in 0..j - 1
    BY <1>1
  <2> QED BY <1>1, <2>1, PastRedirects
<1> QED BY <1>1, <1>2, <1>3

\* robots.txt refuses where the redirects of u end.
Bars(u) ==
  \E k \in 0..MaxRedirects : Trail(site, u)[k] \in Urls /\ site[Trail(site, u)[k]].kind = "blocked"

(* A URL that leads to a page is neither refused nor an error.             *)
LEMMA SettledIsOpen ==
  ASSUME site \in Sites, NEW u, Settles(u) # None
  PROVE  u \in Urls /\ ~Bars(u) /\ ~Fails(u, FailedStatuses)
<1> DEFINE pages == {k \in 0..MaxRedirects : Trail(site, u)[k] \in SitePages}
<1>1. u \in Urls
  BY SettlesForUrls
<1>2. PICK m \in 0..MaxRedirects : Trail(site, u)[m] \in SitePages
  <2>1. pages # {}
    BY DEF Settles
  <2> QED BY <2>1
<1>3. /\ Trail(site, u)[m] \in Urls /\ site[Trail(site, u)[m]].kind = "answer"
      /\ site[Trail(site, u)[m]].status \in 200..299
  BY <1>2 DEF SitePages, IsSitePage, Success
<1>4. ~Fails(u, FailedStatuses)
  <2>1. site[Trail(site, u)[m]].status \notin FailedStatuses
    <3> DEFINE status == site[Trail(site, u)[m]].status
    <3>1. status \in 200..299
      BY <1>3
    <3> HIDE DEF status
    <3>2. status \notin FailedStatuses
      BY <3>1 DEF FailedStatuses
    <3> QED BY <3>2 DEF status
  <2> QED BY <1>3, <2>1 DEF Fails
<1>5. ~Bars(u)
  <2> SUFFICES ASSUME NEW k \in 0..MaxRedirects, Trail(site, u)[k] \in Urls,
                      site[Trail(site, u)[k]].kind = "blocked"
               PROVE  FALSE
    BY DEF Bars
  <2>1. k = m
    BY <1>3, OneEnd
  <2> QED BY <1>3, <2>1
<1> QED BY <1>1, <1>4, <1>5

(* Only a refusal is none.                                                 *)
LEMMA SeenByRecord ==
  ASSUME site \in Sites, NEW r, Made(site, r)
  PROVE  Seen(r) <=> ~Bars(r.url)
<1>1. PICK u, c : OnTheWay(site, r.url, u, c) /\ EndedAt(site, r, u, c)
  BY DEF Made
<1>2. u \in Urls /\ Len(c) \in 0..MaxRedirects /\ u = Trail(site, r.url)[Len(c)]
  BY <1>1, OnTheWayToUrl DEF OnTheWay
<1>3. Bars(r.url) <=> site[u].kind = "blocked"
  <2>1. ASSUME Bars(r.url) PROVE site[u].kind = "blocked"
    <3>1. PICK k \in 0..MaxRedirects : Trail(site, r.url)[k] \in Urls /\ site[Trail(site, r.url)[k]].kind = "blocked"
      BY <2>1 DEF Bars
    <3>2. EndsHere(site, u, c)
      BY <1>1, MadeEnds
    <3>3. Trail(site, r.url)[k] = u
      BY <1>1, <3>1, <3>2, NoOtherAnswer
    <3> QED BY <3>1, <3>3
  <2>2. ASSUME site[u].kind = "blocked" PROVE Bars(r.url)
    BY <1>2, <2>2 DEF Bars
  <2> QED BY <2>1, <2>2
<1>4. CASE site[u].kind = "blocked" /\ Refusal(r)
  <2>1. IsBlocked(r) /\ ~IsBroken(r)
    BY <1>4, RefusalIs
  <2> QED BY <1>3, <1>4, <2>1 DEF Seen, IsBlocked, IsBroken
<1>5. CASE site[u].kind = "answer" /\ Arrived(r, u, c) /\ Answered(site, r)
  <2>1. r.status # None
    BY <1>2, <1>5, AnsweredIs DEF Arrived
  <2> QED BY <1>3, <1>5, <2>1 DEF Seen
<1>6. CASE site[u].kind \in {"refused", "redirect"} /\ Stray(r)
  BY <1>3, <1>6, StrayIs DEF Seen
<1>7. CASE site[u].kind \in {"refused", "redirect"} /\ \E error \in {"refused", "Invalid redirect target",
                                    "Redirect loop detected", "Redirect limit exceeded"} : Failure(r, error)
  <2>1. IsBroken(r) /\ ~IsRedirect(r) /\ r.status = None
    BY <1>7, FailureIs DEF Failure, OnlyError
  <2> QED BY <1>3, <1>7, <2>1 DEF Seen, IsBroken
<1> QED BY <1>1, <1>4, <1>5, <1>6, <1>7 DEF EndedAt, Redirects

-----------------------------------------------------------------------------
(* What met the redirect limit has met all of its trail, and speaks for    *)
(* URLs that were never read.                                              *)

LEMMA HopsOfLonger ==
  ASSUME NEW s \in Sites, NEW i, NEW u, NEW c, OnTheWay(s, i, u, c), Redirects(s, u),
         NEW r, r.chain = Longer(s, u, c)
  PROVE  Hops(r) = {Trail(s, i)[k] : k \in 0..Len(c)}
<1> DEFINE trail == Trail(s, i)
           n == Len(c)
           d == Longer(s, u, c)
<1>1. LeadsOn(s, u, c, trail, n)
  BY HopLeadsOn
<1>2. /\ n \in Nat /\ d \in Seq(HopsOf) /\ Len(d) = n + 1
      /\ \A k \in 1..n + 1 : d[k] = [url |-> trail[k - 1], location |-> trail[k]]
  BY <1>1 DEF LeadsOn
<1> HIDE DEF trail, n, d
<1>3. DOMAIN d = 1..n + 1 /\ \A k \in 1..n + 1 : d[k].url = trail[k - 1]
  BY <1>2
<1>4. n + 1 \in Nat /\ (n + 1) - 1 = n
  BY <1>2
<1>5. r.chain = d
  BY DEF d
<1>6. Hops(r) = {trail[k] : k \in 0..(n + 1) - 1}
  BY <1>3, <1>4, <1>5, HopsOfChain
<1> QED BY <1>4, <1>6 DEF trail, n

\* The URLs a record met and speaks for: its redirects and where it ended.
Passed(r) == Hops(r) \cup {x \in {r.final} : r.error # "Redirect limit exceeded"}

(* What a record says of the way it took: all it passed is on the trail,   *)
(* and so is where it ended, unless it met the limit.                      *)
LEMMA PassedIsOnTrail ==
  ASSUME site \in Sites, NEW r, NEW u, NEW c, OnTheWay(site, r.url, u, c), EndedAt(site, r, u, c),
         NEW x \in Passed(r)
  PROVE  \E k \in 0..Len(c) : x = Trail(site, r.url)[k]
<1> DEFINE trail == Trail(site, r.url)
           n == Len(c)
<1>0. n \in 0..MaxRedirects /\ u = trail[n]
  BY OnTheWayToUrl DEF OnTheWay
<1>1. n \in Nat /\ n \in 0..n
  BY <1>0, LimitIsNat
<1>2. CASE r.chain = c /\ r.final = u
  <2>1. r.chain = c
    BY <1>2
  <2>2. Hops(r) = {trail[k] : k \in 0..n - 1}
    BY <2>1, HopsOfWay
  <2> HIDE DEF trail, n
  <2>3. 0..n - 1 \subseteq 0..n
    BY <1>1
  <2> QED BY <1>0, <1>1, <1>2, <2>2, <2>3 DEF trail, n, Passed
<1>3. CASE Redirects(site, u) /\ r.chain = Longer(site, u, c) /\ (r.final = u \/ r.error = "Redirect limit exceeded")
  <2>1. Redirects(site, u) /\ r.chain = Longer(site, u, c)
    BY <1>3
  <2>2. Hops(r) = {trail[k] : k \in 0..n}
    BY <2>1, HopsOfLonger
  <2> HIDE DEF trail, n
  <2> QED BY <1>0, <1>1, <1>3, <2>2 DEF trail, n, Passed
<1>4. (r.chain = c /\ r.final = u)
      \/ (Redirects(site, u) /\ r.chain = Longer(site, u, c) /\ (r.final = u \/ r.error = "Redirect limit exceeded"))
  BY DEF EndedAt, Arrived, Failure, OnlyError
<1> QED BY <1>2, <1>3, <1>4

(* A record whose trail does not end within the limit fails, and has met   *)
(* all of the trail.                                                       *)
LEMMA LongTrailFails ==
  ASSUME site \in Sites, NEW r, Made(site, r), Trail(site, r.url)[MaxRedirects + 1] \in Urls
  PROVE  /\ Failed(r) /\ ~IsPage(r) /\ Seen(r)
         /\ \A k \in 0..MaxRedirects : Trail(site, r.url)[k] \in Hops(r)
<1> DEFINE trail == Trail(site, r.url)
<1>1. PICK u, c : OnTheWay(site, r.url, u, c) /\ EndedAt(site, r, u, c)
  BY DEF Made
<1> DEFINE n == Len(c)
<1>2. n \in 0..MaxRedirects /\ u = trail[n] /\ u \in Urls
  BY <1>1, OnTheWayToUrl DEF OnTheWay
<1>3. Redirects(site, u)
  <2>1. MaxRedirects + 1 \in 0..MaxRedirects + 1 /\ n \in 0..(MaxRedirects + 1) - 1
    BY <1>2, LimitIsNat
  <2>2. \A d \in 0..(MaxRedirects + 1) - 1 : /\ trail[d] \in Urls /\ site[trail[d]].kind = "redirect"
                                             /\ site[trail[d]].to \in Urls
    BY <2>1, PastRedirects
  <2> QED BY <1>2, <2>1, <2>2 DEF Redirects
<1>4. /\ r.chain = Longer(site, u, c)
      /\ Failure(r, "Redirect loop detected") \/ Failure(r, "Redirect limit exceeded")
      /\ Met(site, u, c) \/ n = MaxRedirects
  BY <1>1, <1>3, NoneIsNoUrl DEF EndedAt, Arrived, Redirects
<1>5. Hops(r) = {trail[k] : k \in 0..n}
  <2>1. r.chain = Longer(site, u, c)
    BY <1>4
  <2> QED BY <1>1, <1>3, <2>1, HopsOfLonger
<1>6. \A k \in 0..MaxRedirects : trail[k] \in {trail[j] : j \in 0..n}
  <2>1. CASE Met(site, u, c)
    BY <1>1, <1>3, <2>1, TrailOfLoop
  <2>2. CASE n = MaxRedirects
    BY <2>2
  <2> QED BY <1>4, <2>1, <2>2
<1>7. ~IsPage(r) /\ ~IsRedirect(r) /\ IsBroken(r) /\ r.status = None
  BY <1>4, FailureIs DEF Failure, OnlyError
<1>8. IsNoResponse(r)
  BY <1>7 DEF IsBroken
<1> HIDE DEF trail, n
<1> QED BY <1>5, <1>6, <1>7, <1>8 DEF Failed, Seen, trail

(* A record that speaks for a URL whose redirects end at a refusal met the *)
(* limit on the way there.                                                 *)
LEMMA BarredIsSpokenFor ==
  ASSUME site \in Sites, NEW r, Made(site, r), Seen(r), NEW x \in Passed(r), Bars(x)
  PROVE  SpokenForByLimit(x) /\ Failed(r) /\ ~IsPage(r)
<1> DEFINE trail == Trail(site, r.url)
<1>1. PICK u, c : OnTheWay(site, r.url, u, c) /\ EndedAt(site, r, u, c)
  BY DEF Made
<1>2. Len(c) \in 0..MaxRedirects /\ r.url \in Urls
  BY <1>1, OnTheWayToUrl DEF OnTheWay
<1>3. PICK k \in 0..Len(c) : x = trail[k]
  BY <1>1, PassedIsOnTrail
<1>4. k \in 0..MaxRedirects /\ k \in 0..MaxRedirects + 1
  BY <1>2, LimitIsNat
<1>5. PICK j \in 0..MaxRedirects : Trail(site, x)[j] \in Urls /\ site[Trail(site, x)[j]].kind = "blocked"
  BY DEF Bars
<1>6. \A d \in 0..MaxRedirects + 1 - k : Trail(site, x)[d] = trail[k + d]
  BY <1>3, <1>4, RestOfTrail
<1>7. ~(k + j <= MaxRedirects)
  <2> SUFFICES ASSUME k + j <= MaxRedirects PROVE FALSE
    OBVIOUS
  <2>1. k + j \in 0..MaxRedirects /\ j \in 0..MaxRedirects + 1 - k
    BY <1>4, LimitIsNat
  <2>2. Bars(r.url)
    BY <1>5, <1>6, <2>1 DEF Bars
  <2> QED BY <2>2, SeenByRecord
<1>8. trail[MaxRedirects + 1] \in Urls /\ k \in 1..MaxRedirects
  <2> DEFINE d == MaxRedirects + 1 - k
  <2>1. /\ d \in 0..d /\ k + d = MaxRedirects + 1 /\ k \in 1..MaxRedirects
        /\ d = j \/ d \in 0..j - 1
        /\ j \in 0..MaxRedirects + 1
    BY <1>4, <1>7, LimitIsNat
  <2>2. Trail(site, x)[d] \in Urls
    BY <1>5, <2>1, PastRedirects
  <2> HIDE DEF d
  <2>3. Trail(site, x)[d] = trail[k + d]
    BY <1>6, <2>1 DEF d
  <2> QED BY <2>1, <2>2, <2>3
<1>9. SpokenForByLimit(x)
  BY <1>2, <1>3, <1>5, <1>8 DEF SpokenForByLimit
<1> QED BY <1>8, <1>9, LongTrailFails

-----------------------------------------------------------------------------
(* What the reference audit knows of a URL.                                *)

(* The records that the reference audit takes for a URL.                   *)
LEMMA ObservedAre ==
  ASSUME Fetching, Stocked, NEW u, NEW c \in Observed(u)
  PROVE  /\ c \in Speaks(u) /\ c.at \in DOMAIN records /\ Seen(records[c.at])
         /\ c.pending = FALSE /\ c.priority \in Nat /\ c.at \in Nat
         /\ records[c.at].url = u \/ u \in Passed(records[c.at])
<1>1. c \in Speaks(u) /\ Audit[c.at].observed /\ (c.priority # 2 \/ Audit[c.at].finalObserved)
  BY DEF Observed
<1>2. IsClaim(u, c)
  BY <1>1, ClaimsAre
<1>3. c.pending = FALSE /\ c.priority \in Nat /\ c.at \in Nat /\ c.at \in DOMAIN records
  BY <1>2, ClaimsArePast
<1> DEFINE r == records[c.at]
<1>4. Seen(r) /\ (c.priority # 2 \/ r.error # "Redirect limit exceeded")
  BY <1>1, <1>3, AuditIs
<1>5. r.url = u \/ u \in Passed(r)
  BY <1>2, <1>4 DEF IsClaim, Passed
<1> QED BY <1>1, <1>3, <1>4, <1>5

LEMMA FirstObserved ==
  ASSUME Fetching, Stocked, NEW u, Observed(u) # {}
  PROVE  First(Observed(u)) \in Observed(u) /\ First(Observed(u)).at \in DOMAIN records
<1>1. \A c \in Observed(u) : c.pending = FALSE /\ c.priority \in Nat /\ c.at \in Nat /\ c.at \in DOMAIN records
  BY ObservedAre
<1> QED BY <1>1, FirstIs

\* What the audit knows of a URL: whether it fails and where it leads.
Says(u, known, r) ==
  /\ known /\ Failed(r) <=> Fails(u, FailedStatuses) \/ SpokenForByLimit(u)
  /\ known /\ IsPage(r) <=> Settles(u) # None
  /\ known /\ IsPage(r) => r.final = Settles(u)

(* A URL whose redirects end at a refusal is told of by those that met the *)
(* limit, or not at all.                                                   *)
LEMMA BarredIsTold ==
  ASSUME Fetching, Stocked, Complete, NEW u \in Urls, Bars(u)
  PROVE  Says(u, Observed(u) # {}, records[First(Observed(u)).at])
<1> DEFINE known == Observed(u) # {}
           r == records[First(Observed(u)).at]
<1>1. ~Fails(u, FailedStatuses) /\ Settles(u) = None
  <2>1. ~Fails(u, FailedStatuses)
    BY DEF Bars, Fails
  <2> QED BY <2>1, SettledIsOpen, StockFacts
<1>2. known => Failed(r) /\ ~IsPage(r) /\ SpokenForByLimit(u)
  <2> SUFFICES ASSUME known PROVE Failed(r) /\ ~IsPage(r) /\ SpokenForByLimit(u)
    OBVIOUS
  <2>1. First(Observed(u)) \in Observed(u) /\ First(Observed(u)).at \in DOMAIN records
    BY FirstObserved
  <2>2. Seen(r) /\ (r.url = u \/ u \in Passed(r)) /\ site \in Sites /\ Made(site, r)
    BY <2>1, ObservedAre, StockFacts
  <2> HIDE DEF r, known
  <2>3. r.url # u
    BY <2>2, SeenByRecord
  <2> QED BY <2>2, <2>3, BarredIsSpokenFor
<1>3. SpokenForByLimit(u) => known
  <2> SUFFICES ASSUME SpokenForByLimit(u) PROVE known
    OBVIOUS
  <2>1. PICK v \in Urls : /\ Trail(site, v)[MaxRedirects + 1] \in Urls
                          /\ \E k \in 1..MaxRedirects : Trail(site, v)[k] = u
    BY DEF SpokenForByLimit
  <2>2. PICK k \in 1..MaxRedirects : Trail(site, v)[k] = u
    BY <2>1
  <2>3. PICK m \in DOMAIN records : records[m].url = v
    BY DEF Complete, Done
  <2>4. k \in 0..MaxRedirects
    BY LimitIsNat
  <2>5. u \in Hops(records[m]) /\ Seen(records[m])
    BY <2>1, <2>2, <2>3, <2>4, StockFacts, LongTrailFails
  <2>6. PICK c \in Speaks(u) : c.at = m /\ c.priority = 1
    BY <2>5, ClaimsAre
  <2>7. Audit[c.at].observed
    BY <2>5, <2>6, AuditIs
  <2>8. c \in Observed(u)
    BY <2>6, <2>7 DEF Observed
  <2> QED BY <2>8
<1> HIDE DEF known, r
<1>4. Says(u, known, r)
  BY <1>1, <1>2, <1>3 DEF Says
<1> QED BY <1>4 DEF known, r

(* Every other URL is told of by its own record.                           *)
LEMMA OpenIsTold ==
  ASSUME Fetching, Stocked, Complete, NEW u \in Urls, ~Bars(u)
  PROVE  Says(u, Observed(u) # {}, records[First(Observed(u)).at])
<1>1. PICK k \in DOMAIN records : records[k].url = u
  BY DEF Complete, Done
<1> DEFINE r == records[k]
<1>2. site \in Sites /\ Made(site, r)
  BY StockFacts
<1>3. Seen(r)
  BY <1>1, <1>2, SeenByRecord
<1>4. OwnClaim(k) \in Speaks(u) /\ OwnClaim(k).at = k /\ OwnClaim(k).priority = 0
  <2>1. OwnClaim(k) \in Speaks(u)
    BY <1>1, ClaimsAre
  <2> QED BY <2>1 DEF OwnClaim
<1>5. OwnClaim(k) \in Observed(u)
  <2>1. Audit[OwnClaim(k).at].observed
    BY <1>3, <1>4, AuditIs
  <2> QED BY <1>4, <2>1 DEF Observed
<1>6. First(Observed(u)) = OwnClaim(k)
  <2>1. Observed(u) \in SUBSET Speaks(records[k].url)
    BY <1>1 DEF Observed
  <2> QED BY <1>5, <2>1, OwnLeads
<1>7. Failed(r) <=> Fails(u, FailedStatuses)
  BY <1>1, <1>2, FailsByRecord
<1>8. Settles(u) = IF IsPage(r) THEN r.final ELSE None
  BY <1>1, <1>2, SettlesByRecord
<1>9. IsPage(r) => r.final # None
  BY <1>2, PageTells, NoneIsNoUrl
<1>10. ~SpokenForByLimit(u)
  BY DEF SpokenForByLimit, Bars
<1>11. Observed(u) # {} /\ records[First(Observed(u)).at] = r
  BY <1>4, <1>5, <1>6
<1> HIDE DEF r
<1>12. Says(u, TRUE, r)
  BY <1>7, <1>8, <1>9, <1>10 DEF Says
<1> QED BY <1>11, <1>12

LEMMA ObservedTell ==
  ASSUME Fetching, Stocked, Complete, NEW u \in Urls
  PROVE  Says(u, Observed(u) # {}, records[First(Observed(u)).at])
BY BarredIsTold, OpenIsTold

(* A page tells of its own names.                                          *)
LEMMA OwnTells ==
  ASSUME Fetching, Stocked, NEW i \in DOMAIN records, IsPage(records[i]), NEW u \in Own(i)
  PROVE  Settles(u) = records[i].final /\ Says(u, TRUE, records[i])
<1> DEFINE r == records[i]
<1>1. site \in Sites /\ Made(site, r)
  BY StockFacts
<1>2. u \in {r.url, r.final} \cup Hops(r)
  BY AuditIs DEF Own
<1>3. Settles(u) = r.final /\ r.final \in Urls
  BY <1>1, <1>2, PageTells, HopsOfPage
<1>4. ~Bars(u) /\ ~Fails(u, FailedStatuses)
  BY <1>1, <1>3, SettledIsOpen, NoneIsNoUrl
<1>5. ~SpokenForByLimit(u)
  BY <1>4 DEF SpokenForByLimit, Bars
<1>6. ~Failed(r)
  <2>1. ~Fails(r.url, FailedStatuses)
    BY <1>1, <1>3, PageTells, SettledIsOpen, NoneIsNoUrl
  <2> QED BY <1>1, <2>1, FailsByRecord
<1> HIDE DEF r
<1>7. IsPage(r)
  BY DEF r
<1> QED BY <1>3, <1>4, <1>5, <1>6, <1>7, NoneIsNoUrl DEF Says, r

(* What a page's references are taken for.                                 *)
LEMMA TargetTells ==
  ASSUME Fetching, Stocked, Complete, NEW i \in DOMAIN records, IsPage(records[i]), NEW u
  PROVE  LET t == TargetOf(i, u)
         IN /\ t \in DOMAIN records \cup {0}
            /\ u \in Urls => Says(u, t # 0, records[t])
            /\ u \notin Urls => t = 0 /\ Settles(u) = None
            /\ u \in Urls \cap Own(i) => t = i
<1>1. site \in Sites /\ 0 \notin DOMAIN records
  BY StockFacts
<1>2. CASE u \notin Urls
  BY <1>1, <1>2, SettlesForUrls DEF TargetOf
<1>3. CASE u \in Urls /\ u \in Own(i)
  <2>1. TargetOf(i, u) = i
    BY <1>3 DEF TargetOf
  <2>2. Says(u, TRUE, records[i])
    BY <1>3, OwnTells
  <2>3. i # 0
    BY <1>1
  <2> QED BY <1>3, <2>1, <2>2, <2>3
<1>4. CASE u \in Urls /\ u \notin Own(i) /\ Observed(u) = {}
  <2>1. TargetOf(i, u) = 0
    BY <1>4 DEF TargetOf
  <2>2. Says(u, FALSE, records[First(Observed(u)).at])
    BY <1>4, ObservedTell
  <2>3. Says(u, FALSE, records[0])
    BY <2>2 DEF Says
  <2> QED BY <1>4, <2>1, <2>3
<1>5. CASE u \in Urls /\ u \notin Own(i) /\ Observed(u) # {}
  <2>1. TargetOf(i, u) = First(Observed(u)).at
    BY <1>5 DEF TargetOf
  <2>2. Says(u, TRUE, records[First(Observed(u)).at])
    BY <1>5, ObservedTell
  <2>3. First(Observed(u)).at \in DOMAIN records
    BY <1>5, FirstObserved
  <2> QED BY <1>1, <1>5, <2>1, <2>2, <2>3
<1> QED BY <1>2, <1>3, <1>4, <1>5

(* And the references back to a page.                                      *)
LEMMA ReturnsAre ==
  ASSUME Fetching, Stocked, Complete, NEW t \in DOMAIN records, IsPage(records[t]), NEW u
  PROVE  ReturnsTo(t, u) = Settles(u)
<1> DEFINE first == First(Observed(u))
<1>1. CASE u \notin Urls
  BY <1>1, StockFacts, SettlesForUrls DEF ReturnsTo
<1>2. CASE u \in Urls /\ u \in Own(t)
  BY <1>2, OwnTells, AuditIs DEF ReturnsTo
<1>3. CASE u \in Urls /\ u \notin Own(t) /\ Observed(u) = {}
  <2>1. Says(u, FALSE, records[first.at])
    BY <1>3, ObservedTell
  <2> QED BY <1>3, <2>1 DEF ReturnsTo, Says
<1>4. CASE u \in Urls /\ u \notin Own(t) /\ Observed(u) # {}
  <2>1. Says(u, TRUE, records[first.at])
    BY <1>4, ObservedTell
  <2>2. first.at \in DOMAIN records
    BY <1>4, FirstObserved
  <2>3. Audit[first.at].page = IsPage(records[first.at]) /\ Audit[first.at].final = records[first.at].final
    BY <2>2, AuditIs
  <2>4. ReturnsTo(t, u) = IF ~Audit[first.at].page THEN None ELSE Audit[first.at].final
    BY <1>4 DEF ReturnsTo
  <2> HIDE DEF first
  <2> QED BY <2>1, <2>3, <2>4 DEF Says
<1> QED BY <1>1, <1>2, <1>3, <1>4

-----------------------------------------------------------------------------
(* The links of a page and the edges between records that they give.       *)

(* The links of a page's record are those of the page.                     *)
LEMMA LinksAre ==
  ASSUME Fetching, Stocked, NEW i \in DOMAIN records, IsPage(records[i]), NEW rel \in Relations
  PROVE  /\ Declared(i, rel) = SiteLinks(records[i].final, rel)
         /\ IsFiniteSet(SiteLinks(records[i].final, rel))
         /\ records[i].final \in SitePages /\ records[i].final # None
<1> DEFINE r == records[i]
           page == site[r.final].page
<1>1. /\ site \in Sites /\ r.final \in SitePages /\ r.final \in Urls /\ site[r.final].kind = "answer"
      /\ r.next = page.next /\ r.prev = page.prev
  BY StockFacts, PageTells
<1>2. IsFiniteSet(page.next) /\ IsFiniteSet(page.prev)
  BY <1>1, ReferenceAssumption
<1> QED BY <1>1, <1>2, NoneIsNoUrl DEF Declared, SiteLinks

\* The edge a link gives: another route to the page is the page itself.
EdgeOf(i, u) == IF records[TargetOf(i, u)].final = records[i].final THEN i ELSE TargetOf(i, u)

LEMMA EdgesComeFromLinks ==
  ASSUME Fetching, Stocked, Complete, NEW i \in DOMAIN records, IsPage(records[i]), NEW rel \in Relations
  PROVE  Edges(rel)[i] = {EdgeOf(i, u) : u \in {u \in SiteLinks(records[i].final, rel) : Settles(u) # None}}
<1> DEFINE links == SiteLinks(records[i].final, rel)
           T == {t \in TargetsOf(i, Declared(i, rel)) : Audit[t].page}
           Edge(t) == IF Audit[t].final = Audit[i].final THEN i ELSE t
           L == {u \in links : Settles(u) # None}
<1>1. Edges(rel)[i] = {Edge(t) : t \in T}
  BY AuditIs DEF Edges
<1>2. TargetsOf(i, Declared(i, rel)) = {TargetOf(i, u) : u \in links} \ {0}
  BY LinksAre DEF TargetsOf
<1>3. ASSUME NEW u \in links
      PROVE  /\ TargetOf(i, u) \in T <=> Settles(u) # None
             /\ TargetOf(i, u) \in T => Edge(TargetOf(i, u)) = EdgeOf(i, u)
  <2> DEFINE t == TargetOf(i, u)
  <2>1. /\ t \in DOMAIN records \cup {0}
        /\ u \in Urls => Says(u, t # 0, records[t])
        /\ u \notin Urls => t = 0 /\ Settles(u) = None
    BY TargetTells
  <2>2. t \in T <=> t # 0 /\ Audit[t].page
    BY <1>2
  <2>3. t # 0 => t \in DOMAIN records
    BY <2>1
  <2>4. t \in T <=> t # 0 /\ IsPage(records[t])
    BY <2>2, <2>3, AuditIs
  <2>5. t \in T => Edge(t) = EdgeOf(i, u)
    BY <2>2, <2>3, AuditIs DEF EdgeOf
  <2> HIDE DEF t, T, Edge
  <2> QED BY <2>1, <2>4, <2>5 DEF Says, t
<1>4. \A t \in T : \E u \in links : t = TargetOf(i, u)
  BY <1>2
<1> HIDE DEF T, Edge, links
<1>5. {Edge(t) : t \in T} = {EdgeOf(i, u) : u \in L}
  <2>1. ASSUME NEW t \in T PROVE Edge(t) \in {EdgeOf(i, u) : u \in L}
    <3>1. PICK u \in links : t = TargetOf(i, u)
      BY <1>4
    <3> QED BY <1>3, <3>1
  <2>2. ASSUME NEW u \in L PROVE EdgeOf(i, u) \in {Edge(t) : t \in T}
    BY <1>3
  <2> QED BY <2>1, <2>2
<1> QED BY <1>1, <1>5 DEF links

(* An edge leads where its link does.                                      *)
LEMMA EdgeLeads ==
  ASSUME Fetching, Stocked, Complete, NEW i \in DOMAIN records, IsPage(records[i]),
         NEW u, Settles(u) # None
  PROVE  LET e == EdgeOf(i, u)
         IN /\ e \in DOMAIN records /\ IsPage(records[e]) /\ records[e].final = Settles(u)
            /\ records[e].final = records[i].final <=> e = i
            /\ e # i => e = First(Observed(u)).at
<1> DEFINE t == TargetOf(i, u)
           e == EdgeOf(i, u)
<1>1. u \in Urls /\ site \in Sites
  BY StockFacts, SettlesForUrls
<1>2. t \in DOMAIN records \cup {0} /\ Says(u, t # 0, records[t])
  BY <1>1, TargetTells
<1>3. t # 0 /\ IsPage(records[t]) /\ records[t].final = Settles(u)
  BY <1>2 DEF Says
<1>4. t \in DOMAIN records
  BY <1>2, <1>3
<1>5. e = IF records[t].final = records[i].final THEN i ELSE t
  BY DEF EdgeOf
<1>6. t # i => t = First(Observed(u)).at
  BY <1>1, <1>3 DEF TargetOf
<1> HIDE DEF t, e
<1>7. e \in DOMAIN records /\ IsPage(records[e]) /\ records[e].final = Settles(u)
  BY <1>3, <1>4, <1>5
<1>8. records[e].final = records[i].final <=> e = i
  BY <1>3, <1>4, <1>5
<1>9. e # i => e = First(Observed(u)).at
  BY <1>5, <1>6
<1> QED BY <1>7, <1>8, <1>9 DEF e

(* The edges of a page lead where the page's links lead; those to other    *)
(* pages are the same for every record of the page.                        *)
LEMMA EdgesAre ==
  ASSUME Fetching, Stocked, Complete, NEW i \in DOMAIN records, IsPage(records[i]), NEW rel \in Relations
  PROVE  LET p == records[i].final
         IN /\ \A e \in Edges(rel)[i] :
                 /\ e \in DOMAIN records /\ IsPage(records[e]) /\ records[e].final \in SiteEdges(p, rel)
                 /\ records[e].final = p <=> e = i
            /\ \A y \in SiteEdges(p, rel) : \E e \in Edges(rel)[i] : records[e].final = y
            /\ \A e \in Edges(rel)[i], m \in DOMAIN records :
                 IsPage(records[m]) /\ records[m].final = p /\ e # i => e \in Edges(rel)[m]
<1> DEFINE p == records[i].final
           L == {u \in SiteLinks(p, rel) : Settles(u) # None}
<1>1. Edges(rel)[i] = {EdgeOf(i, u) : u \in L}
  BY EdgesComeFromLinks
<1>2. ASSUME NEW e \in Edges(rel)[i]
      PROVE  /\ e \in DOMAIN records /\ IsPage(records[e]) /\ records[e].final \in SiteEdges(p, rel)
             /\ records[e].final = p <=> e = i
  <2>1. PICK u \in L : e = EdgeOf(i, u)
    BY <1>1
  <2>2. /\ e \in DOMAIN records /\ IsPage(records[e]) /\ records[e].final = Settles(u)
        /\ records[e].final = p <=> e = i
    BY <2>1, EdgeLeads
  <2> QED BY <2>2 DEF SiteEdges
<1>3. ASSUME NEW y \in SiteEdges(p, rel) PROVE \E e \in Edges(rel)[i] : records[e].final = y
  <2>1. PICK u \in L : y = Settles(u)
    BY DEF SiteEdges
  <2>2. records[EdgeOf(i, u)].final = y
    BY <2>1, EdgeLeads
  <2> QED BY <1>1, <2>2
<1>4. ASSUME NEW e \in Edges(rel)[i], NEW m \in DOMAIN records, IsPage(records[m]),
             records[m].final = p, e # i
      PROVE  e \in Edges(rel)[m]
  <2>1. PICK u \in L : e = EdgeOf(i, u)
    BY <1>1
  <2>2. records[e].final = Settles(u) /\ records[e].final # p /\ e = First(Observed(u)).at
    BY <1>4, <2>1, EdgeLeads
  <2> DEFINE d == EdgeOf(m, u)
  <2>3. records[d].final = Settles(u) /\ (records[d].final = p <=> d = m) /\ (d # m => d = First(Observed(u)).at)
    BY <1>4, EdgeLeads
  <2>4. d = e
    BY <2>2, <2>3
  <2>5. Edges(rel)[m] = {EdgeOf(m, v) : v \in L}
    BY <1>4, EdgesComeFromLinks
  <2> QED BY <2>4, <2>5
<1> QED BY <1>2, <1>3, <1>4

-----------------------------------------------------------------------------
(* Pagination: what is flagged, and that errors and missing returns are    *)
(* those of the site.                                                      *)

(* What is flagged of a page's sequences.                                  *)
LEMMA SequenceFlagsAre ==
  ASSUME Fetching, Stocked, NEW i \in DOMAIN records, IsPage(records[i]), NEW rel \in Relations
  PROVE  LET IsFlag(flag) == [kind |-> rel, flag |-> flag] \in TargetReport(i)
         IN /\ IsFlag("error") <=> \E t \in TargetsOf(i, Declared(i, rel)) : Audit[t].failed
            /\ IsFlag("loop") <=> i \in EnterSequences(Edges(rel), Branching(rel))
            /\ IsFlag("no return") <=> NonReciprocal(i, rel)
<1> DEFINE Part(name, holds) == IF holds THEN {name} ELSE {}
           A(r) == \E t \in TargetsOf(i, Declared(i, r)) : Audit[t].failed
           B(r) == i \in EnterSequences(Edges(r), Branching(r))
           C(r) == NonReciprocal(i, r)
           linked == TargetsOf(i, records[i].next \cup records[i].prev)
           canonical == TargetOf(i, records[i].canonical)
           amps == TargetsOf(i, records[i].amp)
           D == [kind : {"canonical"}, flag :
                   Part("linked page", /\ canonical # 0 /\ Audit[canonical].page
                                       /\ Audit[canonical].final # Audit[i].final
                                       /\ \E t \in linked : /\ Audit[t].page
                                            /\ Audit[t].final = Audit[canonical].final)]
           E == [kind : {"amp"}, flag :
                   Part("error", \E t \in amps : Audit[t].failed)
                   \cup Part("no return", AmpNonReciprocal(i))
                   \cup Part("no marker",
                        \E t \in amps : Audit[t].page /\ records[t].ampDocument = FALSE)]
           F(r) == Part("error", A(r)) \cup Part("loop", B(r)) \cup Part("no return", C(r))
           W == UNION {[kind : {r}, flag : F(r)] : r \in Relations}
<1>1. Audit[i].page
  BY AuditIs
<1>2. TargetReport(i) = W \cup D \cup E
  BY <1>1 DEF TargetReport, SequenceFlags
<1>3. rel # "canonical" /\ rel # "amp"
  BY DEF Relations
<1>4. \A flag : [kind |-> rel, flag |-> flag] \notin D \cup E
  <2> DEFINE X == Part("linked page", /\ canonical # 0 /\ Audit[canonical].page
                                      /\ Audit[canonical].final # Audit[i].final
                                      /\ \E t \in linked : /\ Audit[t].page
                                           /\ Audit[t].final = Audit[canonical].final)
             Y == Part("error", \E t \in amps : Audit[t].failed)
                   \cup Part("no return", AmpNonReciprocal(i))
                   \cup Part("no marker",
                        \E t \in amps : Audit[t].page /\ records[t].ampDocument = FALSE)
  <2>1. D = [kind : {"canonical"}, flag : X] /\ E = [kind : {"amp"}, flag : Y]
    OBVIOUS
  <2> HIDE DEF X, Y, D, E
  <2> QED BY <1>3, <2>1
<1> HIDE DEF A, B, C, D, E
<1>5. \A flag : [kind |-> rel, flag |-> flag] \in TargetReport(i) <=> flag \in F(rel)
  <2> HIDE DEF F
  <2>1. ASSUME NEW flag, flag \in F(rel) PROVE [kind |-> rel, flag |-> flag] \in TargetReport(i)
    <3>1. [kind |-> rel, flag |-> flag] \in [kind : {rel}, flag : F(rel)]
      BY <2>1
    <3>2. [kind |-> rel, flag |-> flag] \in W
      BY <3>1
    <3> HIDE DEF W
    <3> QED BY <1>2, <3>2
  <2>2. ASSUME NEW flag, [kind |-> rel, flag |-> flag] \in TargetReport(i) PROVE flag \in F(rel)
    <3> DEFINE x == [kind |-> rel, flag |-> flag]
    <3>0. x \notin D \cup E /\ x \in TargetReport(i)
      BY <1>4, <2>2
    <3>1. x \in UNION {[kind : {r}, flag : F(r)] : r \in Relations}
      <4> HIDE DEF x, W
      <4>1. x \in W
        BY <1>2, <3>0
      <4> QED BY <4>1 DEF W
    <3>2. PICK T \in {[kind : {r}, flag : F(r)] : r \in Relations} : x \in T
      <4> HIDE DEF x
      <4> QED BY <3>1
    <3>3. PICK r \in Relations : T = [kind : {r}, flag : F(r)]
      BY <3>2
    <3>4. rel = r /\ flag \in F(r)
      BY <3>2, <3>3
    <3> QED BY <3>4
  <2> QED BY <2>1, <2>2
<1>6. /\ "error" \in F(rel) <=> A(rel)
      /\ "loop" \in F(rel) <=> B(rel)
      /\ "no return" \in F(rel) <=> C(rel)
  OBVIOUS
<1> HIDE DEF F
<1> QED BY <1>5, <1>6 DEF A, B, C

(* A target that is reported as an error is one.                           *)
LEMMA ErrorsAreReal ==
  ASSUME Fetching, Stocked, Complete, NEW i \in DOMAIN records, IsPage(records[i]), NEW rel \in Relations
  PROVE  (\E t \in TargetsOf(i, Declared(i, rel)) : Audit[t].failed) <=>
           \E u \in SiteLinks(records[i].final, rel) \cap Urls :
              Fails(u, FailedStatuses) \/ SpokenForByLimit(u)
<1> DEFINE links == SiteLinks(records[i].final, rel)
           Bad(u) == Fails(u, FailedStatuses) \/ SpokenForByLimit(u)
<1>1. TargetsOf(i, Declared(i, rel)) = {TargetOf(i, u) : u \in links} \ {0}
  BY LinksAre DEF TargetsOf
<1>2. ASSUME NEW u \in links
      PROVE  TargetOf(i, u) # 0 /\ Audit[TargetOf(i, u)].failed <=> u \in Urls /\ Bad(u)
  <2> DEFINE t == TargetOf(i, u)
  <2>1. /\ t \in DOMAIN records \cup {0}
        /\ u \in Urls => Says(u, t # 0, records[t])
        /\ u \notin Urls => t = 0
    BY TargetTells
  <2>2. t # 0 => Audit[t].failed = Failed(records[t])
    BY <2>1, AuditIs
  <2> HIDE DEF t
  <2>3. t # 0 /\ Failed(records[t]) <=> u \in Urls /\ Bad(u)
    BY <2>1 DEF Says
  <2> QED BY <2>2, <2>3 DEF t
<1> HIDE DEF links, Bad
<1>3. (\E t \in TargetsOf(i, Declared(i, rel)) : Audit[t].failed) <=> \E u \in links \cap Urls : Bad(u)
  BY <1>1, <1>2
<1> QED BY <1>3 DEF links, Bad

(* And a target that is reported not to link back does not.                *)
LEMMA ReturnsAreReal ==
  ASSUME Fetching, Stocked, Complete, NEW i \in DOMAIN records, IsPage(records[i]), NEW rel \in Relations
  PROVE  NonReciprocal(i, rel) <=> NeverReturns(records[i].final, rel)
<1> DEFINE p == records[i].final
           Away(y) == \A u \in SiteLinks(y, Back(rel)) : Settles(u) \notin {None, p}
           Lost(t) == LET back == Declared(t, Back(rel))
                      IN /\ \A u \in back : u \notin Own(i) /\ ReturnsTo(t, u) # Audit[i].final
                         /\ \A u \in back : ReturnsTo(t, u) # None
<1>1. /\ \A e \in Edges(rel)[i] :
            /\ e \in DOMAIN records /\ IsPage(records[e]) /\ records[e].final \in SiteEdges(p, rel)
            /\ records[e].final = p <=> e = i
      /\ \A y \in SiteEdges(p, rel) : \E e \in Edges(rel)[i] : records[e].final = y
  BY EdgesAre
<1>2. Back(rel) \in Relations
  BY DEF Back, Relations
<1>3. \A u \in Own(i) : Settles(u) = p
  BY OwnTells
<1>4. Audit[i].final = p
  BY AuditIs
<1>5. ASSUME NEW e \in Edges(rel)[i] PROVE Lost(e) <=> Away(records[e].final)
  <2>1. e \in DOMAIN records /\ IsPage(records[e])
    BY <1>1
  <2>2. Declared(e, Back(rel)) = SiteLinks(records[e].final, Back(rel))
    BY <1>2, <2>1, LinksAre
  <2>3. \A u : ReturnsTo(e, u) = Settles(u)
    BY <2>1, ReturnsAre
  <2> HIDE DEF p
  <2> QED BY <1>3, <1>4, <2>2, <2>3
<1>6. NonReciprocal(i, rel) <=> \E e \in Edges(rel)[i] \ {i} : Lost(e)
  BY DEF NonReciprocal
<1>7. NeverReturns(p, rel) <=> \E y \in SiteEdges(p, rel) \ {p} : Away(y)
  BY DEF NeverReturns
<1> HIDE DEF p, Away, Lost
<1>8. NonReciprocal(i, rel) <=> NeverReturns(p, rel)
  <2>1. ASSUME NonReciprocal(i, rel) PROVE NeverReturns(p, rel)
    <3>1. PICK e \in Edges(rel)[i] \ {i} : Lost(e)
      BY <1>6, <2>1
    <3>2. records[e].final \in SiteEdges(p, rel) \ {p} /\ Away(records[e].final)
      BY <1>1, <1>5, <3>1
    <3> QED BY <1>7, <3>2
  <2>2. ASSUME NeverReturns(p, rel) PROVE NonReciprocal(i, rel)
    <3>1. PICK y \in SiteEdges(p, rel) \ {p} : Away(y)
      BY <1>7, <2>2
    <3>2. PICK e \in Edges(rel)[i] : records[e].final = y
      BY <1>1, <3>1
    <3>3. e # i /\ Lost(e)
      BY <1>1, <1>5, <3>1, <3>2
    <3> QED BY <1>6, <3>2, <3>3
  <2> QED BY <2>1, <2>2
<1> QED BY <1>8 DEF p

(* Where a walk over single steps ends.                                    *)
LEMMA EndOfIs ==
  ASSUME NEW next, SingleSteps(next), NEW i \in 1..Len(next)
  PROVE  HasWayTo(next, i, EndOf(next, i))
<1> DEFINE at == CHOOSE f : IsCourse(next, i, f)
<1>1. EndOf(next, i) = at[Len(next)]
  BY DEF EndOf, IsCourse, Onto
<1>2. IsCourse(next, i, at)
  BY CourseExists DEF HasCourse
<1> HIDE DEF at
<1> QED BY <1>1, <1>2, CourseIsWay

-----------------------------------------------------------------------------
(* The pages that lead to one page only.                                   *)

\* The walk over pages that lead to one page only.
Singles(rel) ==
  [i \in DOMAIN Edges(rel) |->
     IF Cardinality(Edges(rel)[i]) = 1 /\ ~Branching(rel)[i] THEN CHOOSE t \in Edges(rel)[i] : TRUE ELSE 0]

OnlyStep(rel, i, e) ==
  /\ e \in DOMAIN records /\ IsPage(records[i]) /\ IsPage(records[e]) /\ e \in Edges(rel)[i]
  /\ Cardinality(SiteLinks(records[i].final, rel)) = 1
  /\ SiteEdges(records[i].final, rel) = {records[e].final}

LEMMA LoopFlagIs ==
  ASSUME Fetching, Stocked, NEW rel \in Relations, SingleSteps(Singles(rel)), NEW i \in DOMAIN records
  PROVE  i \in EnterSequences(Edges(rel), Branching(rel)) <=>
           \/ i \in Endless(Singles(rel))
           \/ \E e \in Edges(rel)[i] : e = i \/ e \in Endless(Singles(rel)) \/ EndOf(Singles(rel), e) = i
<1>1. EnterCycles(Singles(rel)) = Endless(Singles(rel))
  BY EnterCyclesIs
<1>2. DOMAIN Edges(rel) = DOMAIN records
  BY DEF Edges
<1>3. EnterSequences(Edges(rel), Branching(rel)) =
        {k \in DOMAIN Edges(rel) :
           k \in EnterCycles(Singles(rel)) \/ \E t \in Edges(rel)[k] :
              t = k \/ t \in EnterCycles(Singles(rel)) \/ EndOf(Singles(rel), t) = k}
  BY DEF EnterSequences, Singles
<1> QED BY <1>1, <1>2, <1>3

(* The one link of a page.                                                 *)
LEMMA OnlyLink ==
  ASSUME NEW p, NEW rel, IsFiniteSet(SiteLinks(p, rel)), SiteEdges(p, rel) # {}
  PROVE  /\ Cardinality(SiteLinks(p, rel)) \in Nat
         /\ ~(Cardinality(SiteLinks(p, rel)) > 1) <=> Cardinality(SiteLinks(p, rel)) = 1
         /\ Cardinality(SiteLinks(p, rel)) = 1 <=> \E u : SiteLinks(p, rel) = {u}
<1>1. SiteLinks(p, rel) # {}
  BY DEF SiteEdges
<1>2. Cardinality(SiteLinks(p, rel)) \in Nat /\ Cardinality(SiteLinks(p, rel)) # 0
  BY <1>1, FS_CardinalityType, FS_EmptySet
<1>3. Cardinality(SiteLinks(p, rel)) = 1 <=> \E u : SiteLinks(p, rel) = {u}
  BY FS_Singleton
<1>4. ~(Cardinality(SiteLinks(p, rel)) > 1) <=> Cardinality(SiteLinks(p, rel)) = 1
  <2> DEFINE c == Cardinality(SiteLinks(p, rel))
  <2>1. c \in Nat /\ c # 0
    BY <1>2
  <2> HIDE DEF c
  <2>2. ~(c > 1) <=> c = 1
    BY <2>1
  <2> QED BY <2>2 DEF c
<1>5. Cardinality(SiteLinks(p, rel)) \in Nat
  BY <1>2
<1> QED BY <1>3, <1>4, <1>5, Zenon

LEMMA SinglesAre ==
  ASSUME Fetching, Stocked, Complete, NEW rel \in Relations
  PROVE  /\ SingleSteps(Singles(rel)) /\ Len(Singles(rel)) = Len(records)
         /\ \A i \in DOMAIN records : Singles(rel)[i] # 0 => OnlyStep(rel, i, Singles(rel)[i])
         /\ \A i \in DOMAIN records :
              /\ IsPage(records[i]) /\ Cardinality(SiteLinks(records[i].final, rel)) = 1
              /\ SiteEdges(records[i].final, rel) # {}
              => Singles(rel)[i] # 0
<1> DEFINE n == Len(records)
           next == Singles(rel)
<1>1. DOMAIN records = 1..n /\ n \in Nat
  BY StockFacts
<1>2. DOMAIN Edges(rel) = DOMAIN records /\ DOMAIN Branching(rel) = DOMAIN records
  BY DEF Edges, Branching
<1>3. \A i \in DOMAIN records :
        next[i] = IF Cardinality(Edges(rel)[i]) = 1 /\ ~Branching(rel)[i]
                  THEN CHOOSE t \in Edges(rel)[i] : TRUE ELSE 0
  BY <1>2 DEF Singles
<1>4. ASSUME NEW i \in DOMAIN records PROVE Branching(rel)[i] <=> IsPage(records[i]) /\ Cardinality(Declared(i, rel)) > 1
  BY AuditIs DEF Branching
<1>5. ASSUME NEW i \in DOMAIN records, next[i] # 0 PROVE OnlyStep(rel, i, next[i])
  <2> DEFINE p == records[i].final
             e == next[i]
  <2>1. Cardinality(Edges(rel)[i]) = 1 /\ ~Branching(rel)[i] /\ next[i] = CHOOSE t \in Edges(rel)[i] : TRUE
    BY <1>3, <1>5
  <2>2. Edges(rel)[i] # {}
    BY <2>1, FS_EmptySet
  <2>3. e \in Edges(rel)[i]
    BY <2>1, <2>2
  <2> HIDE DEF next
  <2>4. IsPage(records[i])
    BY <2>2, AuditIs DEF Edges
  <2>5. e \in DOMAIN records /\ IsPage(records[e]) /\ records[e].final \in SiteEdges(p, rel)
    BY <2>3, <2>4, EdgesAre
  <2>6. ~(Cardinality(SiteLinks(p, rel)) > 1) /\ IsFiniteSet(SiteLinks(p, rel))
    BY <1>4, <2>1, <2>4, LinksAre
  <2> HIDE DEF p, e
  <2>7. Cardinality(SiteLinks(p, rel)) = 1 /\ \E u : SiteLinks(p, rel) = {u}
    BY <2>5, <2>6, OnlyLink
  <2>8. SiteEdges(p, rel) = {records[e].final}
    BY <2>5, <2>7 DEF SiteEdges
  <2> QED BY <2>3, <2>4, <2>5, <2>7, <2>8 DEF OnlyStep, p, e
<1>6. ASSUME NEW i \in DOMAIN records, IsPage(records[i]),
             Cardinality(SiteLinks(records[i].final, rel)) = 1, SiteEdges(records[i].final, rel) # {}
      PROVE  next[i] # 0
  <2> DEFINE p == records[i].final
             E == Edges(rel)[i]
  <2>1. Declared(i, rel) = SiteLinks(p, rel) /\ IsFiniteSet(SiteLinks(p, rel))
    BY <1>6, LinksAre
  <2>2. PICK u : SiteLinks(p, rel) = {u}
    BY <1>6, <2>1, OnlyLink
  <2>3. E = {EdgeOf(i, x) : x \in {x \in {u} : Settles(x) # None}}
    BY <1>6, <2>2, EdgesComeFromLinks
  <2>4. E # {} /\ \A e \in E : e \in DOMAIN records
    BY <1>6, EdgesAre
  <2> HIDE DEF E
  <2>5. E = {EdgeOf(i, u)}
    BY <2>3, <2>4
  <2>6. Cardinality(E) = 1
    BY <2>5, FS_Singleton
  <2>7. ~Branching(rel)[i]
    <3>1. ~(1 > 1)
      OBVIOUS
    <3> QED BY <1>4, <1>6, <2>1, <3>1
  <2>8. next[i] = CHOOSE t \in E : TRUE
    BY <1>3, <2>6, <2>7 DEF E
  <2> HIDE DEF next
  <2>9. next[i] \in E
    BY <2>4, <2>8
  <2> QED BY <1>1, <2>4, <2>9
<1> HIDE DEF next, n
<1>7. \A i \in 1..n : next[i] \in 0..n
  BY <1>1, <1>5 DEF OnlyStep
<1>8. DOMAIN next = 1..n /\ next = [i \in 1..n |-> next[i]]
  BY <1>1, <1>2 DEF Singles, next
<1>9. Len(next) = n
  <2>1. next \in [1..n -> 0..n]
    BY <1>7, <1>8
  <2>2. next \in Seq(0..n)
    BY <1>1, <2>1, FunIsSeq
  <2>3. DOMAIN next = 1..Len(next) /\ Len(next) \in Nat
    BY <2>2, LenProperties
  <2> QED BY <1>1, <1>8, <2>3
<1>10. SingleSteps(next)
  BY <1>1, <1>7, <1>8, <1>9 DEF SingleSteps
<1> QED BY <1>5, <1>6, <1>9, <1>10 DEF next, n

-----------------------------------------------------------------------------
(* The sequences that return.                                              *)

\* Walking over single links within the records, one meets p or goes on.
ComesTo(rel, p, nodes) ==
  \A j \in nodes : records[j].final = p \/ (Singles(rel)[j] \in nodes /\ OnlyStep(rel, j, Singles(rel)[j]))

LEMMA CycleOfRecords ==
  ASSUME Fetching, Stocked, NEW rel, NEW p \in SitePages, NEW nodes \in SUBSET DOMAIN records,
         ComesTo(rel, p, nodes), NEW e \in nodes, records[e].final \in SiteEdges(p, rel)
  PROVE  SequenceCycles(p, rel)
<1> DEFINE S == {records[j].final : j \in nodes}
<1>1. ASSUME NEW j \in nodes
      PROVE  LET x == records[j].final
             IN /\ x \in SitePages
                /\ \/ x = p
                   \/ Cardinality(SiteLinks(x, rel)) = 1 /\ SiteEdges(x, rel) \subseteq S
                      /\ SiteEdges(x, rel) # {}
  <2>1. CASE records[j].final = p
    BY <2>1
  <2>2. CASE Singles(rel)[j] \in nodes /\ OnlyStep(rel, j, Singles(rel)[j])
    <3>1. /\ IsPage(records[j]) /\ Cardinality(SiteLinks(records[j].final, rel)) = 1
          /\ SiteEdges(records[j].final, rel) = {records[Singles(rel)[j]].final}
      BY <2>2 DEF OnlyStep
    <3>2. records[j].final \in SitePages
      BY <3>1, StockFacts, PageTells
    <3> QED BY <2>2, <3>1, <3>2
  <2> QED BY <2>1, <2>2 DEF ComesTo
<1>2. S \in SUBSET SitePages /\ records[e].final \in S
  BY <1>1
<1>3. \A x \in S : \/ x = p
                   \/ Cardinality(SiteLinks(x, rel)) = 1 /\ SiteEdges(x, rel) \subseteq S
                      /\ SiteEdges(x, rel) # {}
  BY <1>1
<1> HIDE DEF S
<1> QED BY <1>2, <1>3 DEF SequenceCycles

(* A sequence that is reported to return does.                             *)
LEMMA SequenceLoopsAreReal ==
  ASSUME Fetching, Stocked, Complete, NEW i \in DOMAIN records, IsPage(records[i]), NEW rel \in Relations,
         i \in EnterSequences(Edges(rel), Branching(rel))
  PROVE  SequenceCycles(records[i].final, rel)
<1> DEFINE next == Singles(rel)
           n == Len(records)
           p == records[i].final
<1>1. /\ SingleSteps(next) /\ Len(next) = n
      /\ \A j \in DOMAIN records : next[j] # 0 => OnlyStep(rel, j, next[j])
  BY SinglesAre
<1>2. DOMAIN records = 1..n /\ n \in Nat /\ p \in SitePages
  BY StockFacts, LinksAre
<1>3. ASSUME NEW e \in Endless(next), records[e].final \in SiteEdges(p, rel) PROVE SequenceCycles(p, rel)
  <2>1. PICK nodes \in SUBSET (1..n) : e \in nodes /\ \A x \in nodes : next[x] \in nodes
    BY <1>1 DEF Endless
  <2>2. \A x \in nodes : next[x] \in nodes /\ OnlyStep(rel, x, next[x])
    BY <1>1, <1>2, <2>1
  <2>3. ComesTo(rel, p, nodes)
    BY <2>2 DEF ComesTo
  <2> HIDE DEF n, p
  <2> QED BY <1>2, <1>3, <2>1, <2>3, CycleOfRecords
<1>4. \A e \in Edges(rel)[i] : e \in DOMAIN records /\ records[e].final \in SiteEdges(p, rel)
  BY EdgesAre
<1>5. CASE i \in Endless(next)
  <2>1. next[i] \in Endless(next)
    BY <1>1, <1>2, <1>5, EndlessStep
  <2>2. next[i] # 0
    BY <1>1, <1>2, <2>1 DEF Endless
  <2>3. SiteEdges(p, rel) = {records[next[i]].final}
    BY <1>1, <2>2 DEF OnlyStep
  <2> HIDE DEF p
  <2> QED BY <1>3, <2>1, <2>3 DEF p
<1>6. ASSUME NEW e \in Edges(rel)[i], e \in Endless(next) PROVE SequenceCycles(p, rel)
  BY <1>3, <1>4, <1>6
<1>7. ASSUME i \in Edges(rel)[i] PROVE SequenceCycles(p, rel)
  <2>1. ComesTo(rel, p, {i})
    BY DEF ComesTo
  <2>2. {i} \in SUBSET DOMAIN records /\ i \in {i}
    OBVIOUS
  <2>3. records[i].final \in SiteEdges(p, rel)
    BY <1>4, <1>7
  <2> HIDE DEF p
  <2> QED BY <1>2, <2>1, <2>2, <2>3, CycleOfRecords
<1>8. ASSUME NEW e \in Edges(rel)[i], EndOf(next, e) = i PROVE SequenceCycles(p, rel)
  <2>1. e \in 1..n /\ records[e].final \in SiteEdges(p, rel)
    BY <1>2, <1>4
  <2>2. PICK at : IsWayTo(next, e, i, at)
    <3>1. HasWayTo(next, e, EndOf(next, e))
      BY <1>1, <2>1, EndOfIs
    <3> QED BY <1>8, <3>1 DEF HasWayTo
  <2> DEFINE nodes == {at[k] : k \in 0..n}
  <2>3. /\ at \in [0..n -> 1..n] /\ at[0] = e /\ at[n] = i
        /\ \A k \in 1..n : at[k] = Onto(next, at[k - 1])
    BY <1>1, <2>2 DEF IsWayTo
  <2>4. ASSUME NEW k \in 0..n
        PROVE  records[at[k]].final = p \/ (next[at[k]] \in nodes /\ OnlyStep(rel, at[k], next[at[k]]))
    <3>1. CASE at[k] = i
      BY <3>1
    <3>2. CASE at[k] # i
      <4>1. next[at[k]] # 0
        BY <1>1, <2>2, <3>2, StopsForGood
      <4>2. k + 1 \in 1..n /\ (k + 1) - 1 = k
        BY <1>2, <2>3, <3>2
      <4>3. at[k + 1] = next[at[k]] /\ k + 1 \in 0..n
        BY <2>3, <4>1, <4>2 DEF Onto
      <4>4. next[at[k]] \in nodes
        BY <4>3
      <4>5. at[k] \in DOMAIN records
        BY <1>2, <2>3
      <4> HIDE DEF nodes, next
      <4> QED BY <1>1, <4>1, <4>4, <4>5
    <3> QED BY <3>1, <3>2
  <2>5. nodes \in SUBSET DOMAIN records /\ e \in nodes
    BY <1>2, <2>3, SMTT(30)
  <2>6. ComesTo(rel, p, nodes)
    BY <2>4 DEF ComesTo
  <2> HIDE DEF nodes, p
  <2> QED BY <1>2, <2>1, <2>5, <2>6, CycleOfRecords
<1>9. \/ i \in Endless(next)
      \/ \E e \in Edges(rel)[i] : e = i \/ e \in Endless(next) \/ EndOf(next, e) = i
  BY <1>1, LoopFlagIs
<1> QED BY <1>5, <1>6, <1>7, <1>8, <1>9

(* A sequence that returns is reported, if only of one record of a page    *)
(* that branches.                                                          *)
LEMMA SequenceLoopsAreFound ==
  ASSUME Fetching, Stocked, Complete, NEW i \in DOMAIN records, IsPage(records[i]), NEW rel \in Relations,
         SequenceCycles(records[i].final, rel)
  PROVE  \/ i \in EnterSequences(Edges(rel), Branching(rel))
         \/ /\ Cardinality(SiteLinks(records[i].final, rel)) > 1
            /\ \E m \in PageRecords : /\ records[m].final = records[i].final
                                      /\ m \in EnterSequences(Edges(rel), Branching(rel))
<1> DEFINE next == Singles(rel)
           n == Len(records)
           p == records[i].final
           Loop(m) == m \in EnterSequences(Edges(rel), Branching(rel))
<1>1. /\ SingleSteps(next) /\ Len(next) = n
      /\ \A j \in DOMAIN records : next[j] # 0 => OnlyStep(rel, j, next[j])
      /\ \A j \in DOMAIN records :
           /\ IsPage(records[j]) /\ Cardinality(SiteLinks(records[j].final, rel)) = 1
           /\ SiteEdges(records[j].final, rel) # {}
           => next[j] # 0
  BY SinglesAre
<1>2. DOMAIN records = 1..n /\ n \in Nat
  BY StockFacts
<1>3. PICK y \in SiteEdges(p, rel), S \in SUBSET SitePages : y \in S /\ \A x \in S :
        \/ x = p
        \/ Cardinality(SiteLinks(x, rel)) = 1 /\ SiteEdges(x, rel) \subseteq S
           /\ SiteEdges(x, rel) # {}
  BY DEF SequenceCycles
<1>4. PICK e \in Edges(rel)[i] : records[e].final = y
  BY EdgesAre
<1>5. e \in 1..n /\ IsPage(records[e])
  BY <1>2, EdgesAre
<1>6. CASE e = i \/ e \in Endless(next)
  BY <1>1, <1>6, LoopFlagIs
<1>7. CASE e # i /\ e \notin Endless(next)
  <2> DEFINE m == EndOf(next, e)
  <2>1. PICK at : IsWayTo(next, e, m, at)
    <3>1. HasWayTo(next, e, m)
      BY <1>1, <1>5, EndOfIs
    <3> QED BY <3>1 DEF HasWayTo
  <2>2. /\ at \in [0..n -> 1..n] /\ at[0] = e /\ at[n] = m
        /\ \A k \in 1..n : at[k] = Onto(next, at[k - 1])
    BY <1>1, <2>1 DEF IsWayTo
  <2> HIDE DEF m
  <2>3. next[m] = 0
    BY <1>1, <1>7, <2>1, WayEnds
  <2> DEFINE T == {k \in 0..n : IsPage(records[at[k]]) /\ records[at[k]].final \in S}
  <2>4. 0 \in T
    BY <1>2, <1>3, <1>4, <1>5, <2>2
  <2>5. ASSUME NEW k \in 1..n, k - 1 \in T PROVE k \in T
    <3> DEFINE j == at[k - 1]
    <3>1. k - 1 \in 0..n /\ k \in 0..n
      BY <1>2
    <3>2. j \in DOMAIN records /\ IsPage(records[j]) /\ records[j].final \in S /\ at[k] = Onto(next, j)
      BY <1>2, <2>2, <2>5, <3>1
    <3> HIDE DEF j
    <3>3. CASE next[j] = 0
      BY <3>1, <3>2, <3>3 DEF Onto
    <3>4. CASE next[j] # 0
      <4>1. OnlyStep(rel, j, next[j]) /\ at[k] = next[j]
        BY <1>1, <3>2, <3>4 DEF Onto
      <4>2. IsPage(records[at[k]]) /\ SiteEdges(records[j].final, rel) = {records[at[k]].final}
        BY <4>1 DEF OnlyStep
      <4>3. records[at[k]].final \in S
        BY <1>3, <3>2, <4>2
      <4> QED BY <3>1, <4>2, <4>3
    <3> QED BY <3>3, <3>4
  <2>6. m \in DOMAIN records /\ IsPage(records[m]) /\ records[m].final \in S
    <3>1. n \in T
      <4> HIDE DEF T
      <4>1. \A k \in 0..n : k \in T
        BY <1>2, <2>4, <2>5, InductionUpTo
      <4> QED BY <1>2, <4>1
    <3>2. n \in 0..n
      BY <1>2
    <3> QED BY <1>2, <2>2, <3>1, <3>2
  <2>7. records[m].final = p /\ Cardinality(SiteLinks(p, rel)) # 1
    <3>1. ~(Cardinality(SiteLinks(records[m].final, rel)) = 1 /\ SiteEdges(records[m].final, rel) # {})
      BY <1>1, <2>3, <2>6
    <3>2. records[m].final = p
      BY <1>3, <2>6, <3>1
    <3> QED BY <1>3, <3>1, <3>2
  <2>8. Cardinality(SiteLinks(p, rel)) > 1
    BY <1>3, <2>7, LinksAre, OnlyLink
  <2>9. e \in Edges(rel)[m]
    BY <1>7, <2>6, <2>7, EdgesAre
  <2>10. Loop(m)
    BY <1>1, <2>6, <2>9, LoopFlagIs DEF m
  <2> QED BY <2>6, <2>7, <2>8, <2>10 DEF PageRecords
<1> QED BY <1>6, <1>7

-----------------------------------------------------------------------------
(* Both audits, and the theorem.                                           *)

LEMMA PaginationTells ==
  ASSUME Fetching, Stocked
  PROVE  PaginationTellsTheSite
<1> SUFFICES ASSUME Complete, NEW i \in PageRecords, NEW rel \in Relations
             PROVE  LET p == records[i].final
                        Flag(r, flag) == [kind |-> r, flag |-> flag]
                        flags == TargetReport(i)
                    IN /\ Flag(rel, "error") \in flags <=>
                            \E u \in SiteLinks(p, rel) \cap Urls :
                               Fails(u, FailedStatuses) \/ SpokenForByLimit(u)
                       /\ Flag(rel, "loop") \in flags => SequenceCycles(p, rel)
                       /\ SequenceCycles(p, rel) =>
                            \/ Flag(rel, "loop") \in flags
                            \/ /\ Cardinality(SiteLinks(p, rel)) > 1
                               /\ \E k \in PageRecords :
                                    records[k].final = p /\ Flag(rel, "loop") \in TargetReport(k)
                       /\ Flag(rel, "no return") \in flags <=> NeverReturns(p, rel)
  BY DEF PaginationTellsTheSite
<1> DEFINE p == records[i].final
           IsFlag(k, flag) == [kind |-> rel, flag |-> flag] \in TargetReport(k)
           Loop(k) == k \in EnterSequences(Edges(rel), Branching(rel))
           Bad == \E u \in SiteLinks(p, rel) \cap Urls : Fails(u, FailedStatuses) \/ SpokenForByLimit(u)
<1>1. \A k \in PageRecords : k \in DOMAIN records /\ IsPage(records[k])
  BY DEF PageRecords
<1>2. \A k \in PageRecords : IsFlag(k, "loop") <=> Loop(k)
  BY <1>1, SequenceFlagsAre
<1>3. IsFlag(i, "error") <=> Bad
  BY <1>1, SequenceFlagsAre, ErrorsAreReal
<1>4. IsFlag(i, "no return") <=> NeverReturns(p, rel)
  BY <1>1, SequenceFlagsAre, ReturnsAreReal
<1>5. Loop(i) => SequenceCycles(p, rel)
  BY <1>1, SequenceLoopsAreReal
<1>6. SequenceCycles(p, rel) =>
        \/ Loop(i)
        \/ /\ Cardinality(SiteLinks(p, rel)) > 1
           /\ \E k \in PageRecords : records[k].final = p /\ Loop(k)
  BY <1>1, SequenceLoopsAreFound
<1> HIDE DEF p, IsFlag, Loop, Bad
<1>7. /\ IsFlag(i, "error") <=> Bad
      /\ IsFlag(i, "loop") => SequenceCycles(p, rel)
      /\ SequenceCycles(p, rel) =>
           \/ IsFlag(i, "loop")
           \/ /\ Cardinality(SiteLinks(p, rel)) > 1
              /\ \E k \in PageRecords : records[k].final = p /\ IsFlag(k, "loop")
      /\ IsFlag(i, "no return") <=> NeverReturns(p, rel)
  BY <1>2, <1>3, <1>4, <1>5, <1>6
<1> QED BY <1>7 DEF p, IsFlag, Bad

(* However a site links and redirects: once everything was fetched, what   *)
(* build_canonical_diagnostics and build_reference_diagnostics report of a *)
(* page's canonical and of its sequences is what the site has, and before  *)
(* that no loop of canonicals is reported that it does not have.           *)
THEOREM ReferencesOfTheSite == Spec => []ReferencesTellTheSite
<1>1. Fetching /\ Stocked => ReferencesTellTheSite
  BY CanonicalsTell, PaginationTells DEF ReferencesTellTheSite
<1> QED BY <1>1, RecordsAreMade, PTL

-----------------------------------------------------------------------------
(* Two crawls: their rows by identity.                                     *)

(* The rows of a crawl: any sequence of records, of URLs that have a rank,  *)
(* with what a List crawl notes or without.                                *)
Crawled(rows) ==
  /\ Len(rows) \in Nat /\ DOMAIN rows = 1..Len(rows)
  /\ \A i \in DOMAIN rows : /\ rows[i].record.url \in Urls
                            /\ rows[i].position \in Nat \cup {None}
                            /\ rows[i].duplicate \in Nat

Identity(rows, i) == <<rows[i].record.url, Occurrence(rows, i)>>

LEMMA GroupFacts ==
  ASSUME NEW rows, Crawled(rows), NEW u
  PROVE  /\ Group(rows, u) \in SUBSET (1..Len(rows)) /\ IsFiniteSet(Group(rows, u))
         /\ Cardinality(Group(rows, u)) \in Nat
<1>1. Group(rows, u) \in SUBSET (1..Len(rows))
  BY DEF Group, Crawled
<1>2. IsFiniteSet(1..Len(rows))
  <2>1. Len(rows) \in Int
    BY DEF Crawled
  <2> QED BY <2>1, FS_Interval
<1> QED BY <1>1, <1>2, FS_Subset, FS_CardinalityType

(* Rows have an order.                                                     *)
LEMMA PrecedesIsOrder ==
  ASSUME NEW rows, Crawled(rows)
  PROVE  /\ \A i \in DOMAIN rows : ~Precedes(rows, i, i)
         /\ \A i, j, k \in DOMAIN rows : Precedes(rows, i, j) /\ Precedes(rows, j, k) => Precedes(rows, i, k)
         /\ \A i, k \in DOMAIN rows : i = k \/ Precedes(rows, i, k) \/ Precedes(rows, k, i)
<1> DEFINE listed(j) == IF rows[j].position = None THEN 0 ELSE 1
<1>1. \A i \in DOMAIN rows : Place(rows, i) \in Nat /\ i \in Nat
  BY DEF Place, Crawled
<1>2. \A i \in DOMAIN rows : listed(i) \in Nat
  OBVIOUS
<1>3. \A i, k \in DOMAIN rows :
        Precedes(rows, i, k) <=>
          \/ Place(rows, i) < Place(rows, k)
          \/ Place(rows, i) = Place(rows, k) /\ listed(i) < listed(k)
          \/ Place(rows, i) = Place(rows, k) /\ listed(i) = listed(k) /\ i < k
  BY DEF Precedes
<1> HIDE DEF listed
<1> QED BY <1>1, <1>2, <1>3

(* So the rows of a URL have different ordinals,                           *)
LEMMA OrdinalsDiffer ==
  ASSUME NEW rows, Crawled(rows), NEW i \in DOMAIN rows, NEW k \in DOMAIN rows,
         rows[i].record.url = rows[k].record.url, Ordinal(rows, i) = Ordinal(rows, k)
  PROVE  i = k
<1> DEFINE G == Group(rows, rows[i].record.url)
           before == [x \in G |-> {y \in G : Precedes(rows, y, x)}]
<1>1. IsFiniteSet(G) /\ G \subseteq DOMAIN rows /\ i \in G /\ k \in G
  BY GroupFacts DEF Group
<1> HIDE DEF G
<1>2. Ranks(before, G)
  <2>1. before \in [G -> SUBSET G]
    OBVIOUS
  <2>2. \A x \in G : before[x] = {y \in G : Precedes(rows, y, x)}
    OBVIOUS
  <2> HIDE DEF before
  <2> QED BY <1>1, <2>1, <2>2, PrecedesIsOrder DEF Ranks
<1>3. \A x \in G : IsFiniteSet(before[x])
  BY <1>1, FS_Subset
<1>4. Cardinality(before[i]) \in Nat /\ Cardinality(before[k]) \in Nat
  BY <1>1, <1>3, FS_CardinalityType
<1>5. Ordinal(rows, i) = 1 + Cardinality(before[i]) /\ Ordinal(rows, k) = 1 + Cardinality(before[k])
  BY <1>1 DEF Ordinal, G
<1> HIDE DEF before
<1>6. Cardinality(before[i]) + 1 = Cardinality(before[k]) + 1
  <2>1. 1 + Cardinality(before[i]) = 1 + Cardinality(before[k])
    BY <1>5
  <2> QED BY <1>4, <2>1
<1>7. RankOf(before, G)[i] = RankOf(before, G)[k]
  BY <1>1, <1>6 DEF RankOf
<1>8. RankOf(before, G) \in Bijection(G, 1..Cardinality(G))
  BY <1>1, <1>2, RanksAreDense
<1> QED BY <1>1, <1>7, <1>8 DEF Bijection, Injection, IsInjective

(* and different counts if there are as many counts as rows.               *)
LEMMA CountsDiffer ==
  ASSUME NEW rows, Crawled(rows), NEW u,
         Cardinality({rows[k].duplicate : k \in Group(rows, u)}) = Cardinality(Group(rows, u)),
         NEW i \in Group(rows, u), NEW k \in Group(rows, u), rows[i].duplicate = rows[k].duplicate
  PROVE  i = k
<1> DEFINE G == Group(rows, u)
           known == {rows[j].duplicate : j \in G}
           f == [j \in G |-> rows[j].duplicate]
<1>1. IsFiniteSet(G)
  BY GroupFacts
<1>2. f \in Surjection(G, known)
  BY DEF Surjection
<1>3. f \in Injection(G, known)
  <2> HIDE DEF G, known, f
  <2>1. Cardinality(G) = Cardinality(known)
    BY DEF G, known
  <2> QED BY <1>1, <1>2, <2>1, FS_SurjSameCardinalityImpliesInj
<1>4. f[i] = f[k]
  OBVIOUS
<1> QED BY <1>3, <1>4 DEF Injection, IsInjective

LEMMA OrdinalIsNumber ==
  ASSUME NEW rows, Crawled(rows), NEW i \in DOMAIN rows
  PROVE  Ordinal(rows, i) \in Nat
<1> DEFINE G == Group(rows, rows[i].record.url)
           before == {k \in G : Precedes(rows, k, i)}
<1>1. before \in SUBSET G /\ IsFiniteSet(G)
  BY GroupFacts
<1>2. Ordinal(rows, i) = 1 + Cardinality(before)
  BY DEF Ordinal
<1> HIDE DEF before
<1>3. Cardinality(before) \in Nat
  BY <1>1, FS_Subset, FS_CardinalityType
<1> QED BY <1>2, <1>3

(* No two rows have one identity.                                          *)
LEMMA IdentitiesDiffer ==
  ASSUME NEW rows, Crawled(rows)
  PROVE  /\ \A i, k \in DOMAIN rows : Identity(rows, i) = Identity(rows, k) => i = k
         /\ \A i \in DOMAIN rows : Identity(rows, i) \in Urls \X Nat
<1>1. ASSUME NEW i \in DOMAIN rows, NEW k \in DOMAIN rows, Identity(rows, i) = Identity(rows, k)
      PROVE  i = k
  <2> DEFINE u == rows[i].record.url
             known == {rows[j].duplicate : j \in Group(rows, u)}
             noted == 0 \notin known /\ Cardinality(known) = Cardinality(Group(rows, u))
  <2>1. rows[k].record.url = u /\ Occurrence(rows, i) = Occurrence(rows, k)
    BY <1>1 DEF Identity
  <2>2. i \in Group(rows, u) /\ k \in Group(rows, u)
    BY <2>1 DEF Group
  <2>3. /\ Occurrence(rows, i) = IF noted THEN rows[i].duplicate ELSE Ordinal(rows, i)
        /\ Occurrence(rows, k) = IF noted THEN rows[k].duplicate ELSE Ordinal(rows, k)
    BY <2>1 DEF Occurrence
  <2>4. CASE noted
    <3>1. rows[i].duplicate = rows[k].duplicate
      BY <2>1, <2>3, <2>4
    <3>2. Cardinality(known) = Cardinality(Group(rows, u))
      BY <2>4
    <3> QED BY <2>2, <3>1, <3>2, CountsDiffer
  <2>5. CASE ~noted
    <3>1. Ordinal(rows, i) = Ordinal(rows, k)
      BY <2>1, <2>3, <2>5
    <3> QED BY <2>1, <3>1, OrdinalsDiffer
  <2> QED BY <2>4, <2>5
<1>2. ASSUME NEW i \in DOMAIN rows PROVE Identity(rows, i) \in Urls \X Nat
  <2>1. rows[i].record.url \in Urls /\ rows[i].duplicate \in Nat /\ Ordinal(rows, i) \in Nat
    BY OrdinalIsNumber DEF Crawled
  <2> QED BY <2>1 DEF Identity, Occurrence
<1> QED BY <1>1, <1>2

(* The database numbers them alike.                                        *)
LEMMA OccurrencesAgree ==
  ASSUME NEW rows, Crawled(rows), NEW i \in DOMAIN rows
  PROVE  SqlOccurrence(rows, i) = Occurrence(rows, i)
<1> DEFINE G == Group(rows, rows[i].record.url)
           known == {rows[k].duplicate : k \in G}
<1>1. known \subseteq Nat /\ known # {}
  <2>1. i \in G /\ G \subseteq DOMAIN rows
    BY DEF Group
  <2> HIDE DEF G
  <2> QED BY <2>1 DEF Crawled
<1>2. Min(known) \in known /\ \A x \in known : Min(known) <= x
  <2> HIDE DEF known
  <2>1. \E x \in known : \A y \in known : x <= y
    BY <1>1, LeastNatural
  <2> QED BY <2>1 DEF Min
<1>3. Min(known) > 0 <=> 0 \notin known
  <2> DEFINE least == Min(known)
  <2>1. least \in known /\ \A x \in known : least <= x
    BY <1>2
  <2> HIDE DEF known, least
  <2>2. least \in Nat
    BY <1>1, <2>1
  <2>3. 0 \in known => least <= 0
    BY <2>1
  <2>4. least = 0 => 0 \in known
    BY <2>1
  <2>5. least > 0 <=> 0 \notin known
    BY <2>2, <2>3, <2>4
  <2> QED BY <2>5 DEF least
<1>4. SqlOccurrence(rows, i) =
        IF Min(known) > 0 /\ Cardinality(known) = Cardinality(G) THEN rows[i].duplicate ELSE Ordinal(rows, i)
  BY DEF SqlOccurrence
<1>5. Occurrence(rows, i) =
        IF 0 \notin known /\ Cardinality(known) = Cardinality(G) THEN rows[i].duplicate ELSE Ordinal(rows, i)
  BY DEF Occurrence
<1> HIDE DEF known, G
<1> QED BY <1>3, <1>4, <1>5

(* So the map keeps every row, and the table has one for each identity.    *)
LEMMA MapIs ==
  ASSUME NEW rows, Crawled(rows)
  PROVE  /\ DOMAIN ByIdentity(rows) = {Identity(rows, i) : i \in DOMAIN rows}
         /\ DOMAIN ByIdentity(rows) \subseteq Urls \X Nat
         /\ \A i \in DOMAIN rows : ByIdentity(rows)[Identity(rows, i)] = rows[i]
         /\ IsFiniteSet(DOMAIN ByIdentity(rows)) /\ Cardinality(DOMAIN ByIdentity(rows)) = Len(rows)
<1> DEFINE ids == {Identity(rows, i) : i \in DOMAIN rows}
           first(id) == CHOOSE i \in DOMAIN rows : Identity(rows, i) = id
                          /\ \A k \in DOMAIN rows : Identity(rows, k) = id => ~Precedes(rows, i, k)
           q == [i \in DOMAIN rows |-> Identity(rows, i)]
<1>1. ByIdentity(rows) = [id \in ids |-> rows[first(id)]]
  BY DEF ByIdentity, Identity
<1>2. ASSUME NEW i \in DOMAIN rows PROVE first(Identity(rows, i)) = i
  <2>1. \A k \in DOMAIN rows : Identity(rows, k) = Identity(rows, i) => k = i
    BY IdentitiesDiffer
  <2>2. ~Precedes(rows, i, i)
    BY PrecedesIsOrder
  <2> QED BY <2>1, <2>2
<1>3. ids \subseteq Urls \X Nat
  BY IdentitiesDiffer
<1>4. IsFiniteSet(DOMAIN rows) /\ Cardinality(DOMAIN rows) = Len(rows)
  <2>1. Len(rows) \in Nat /\ DOMAIN rows = 1..Len(rows) /\ 1 \in Int
    BY DEF Crawled
  <2>2. IsFiniteSet(1..Len(rows)) /\ Cardinality(1..Len(rows)) = IF 1 > Len(rows) THEN 0 ELSE Len(rows) - 1 + 1
    <3>1. Len(rows) \in Int
      BY <2>1
    <3> QED BY <2>1, <3>1, FS_Interval
  <2> QED BY <2>1, <2>2
<1>5. ids = {q[i] : i \in DOMAIN rows} /\ \A i, k \in DOMAIN rows : q[i] = q[k] => i = k
  BY IdentitiesDiffer
<1>6. IsFiniteSet(ids) /\ Cardinality(ids) = Len(rows)
  <2> HIDE DEF ids, q
  <2>1. Cardinality(ids) = Len(rows)
    BY <1>4, <1>5, ImageCount
  <2>2. [i \in DOMAIN rows |-> q[i]] \in Surjection(DOMAIN rows, ids)
    BY <1>5 DEF Surjection
  <2>3. IsFiniteSet(ids)
    BY <1>4, <2>2, FS_Surjection
  <2> QED BY <2>1, <2>3
<1>7. \A i \in DOMAIN rows : Identity(rows, i) \in ids
  OBVIOUS
<1> HIDE DEF first, ids
<1>8. DOMAIN ByIdentity(rows) = ids /\ \A i \in DOMAIN rows : ByIdentity(rows)[Identity(rows, i)] = rows[i]
  BY <1>1, <1>2, <1>7
<1> QED BY <1>3, <1>6, <1>8 DEF ids

Identified(map, id) == [url |-> id[1], occurrence |-> id[2], row |-> map[id]]

LEMMA IdentifiedIs ==
  ASSUME NEW rows, Crawled(rows)
  PROVE  SqlIdentified(rows) = {Identified(ByIdentity(rows), id) : id \in DOMAIN ByIdentity(rows)}
<1> DEFINE map == ByIdentity(rows)
           row(i) == [url |-> rows[i].record.url, occurrence |-> SqlOccurrence(rows, i), row |-> rows[i]]
<1>1. DOMAIN map = {Identity(rows, i) : i \in DOMAIN rows} /\ \A i \in DOMAIN rows : map[Identity(rows, i)] = rows[i]
  BY MapIs
<1>2. ASSUME NEW i \in DOMAIN rows PROVE row(i) = Identified(map, Identity(rows, i))
  <2>1. SqlOccurrence(rows, i) = Occurrence(rows, i)
    BY OccurrencesAgree
  <2> HIDE DEF map
  <2> QED BY <1>1, <2>1 DEF Identity, Identified
<1>3. SqlIdentified(rows) = {row(i) : i \in DOMAIN rows}
  BY DEF SqlIdentified
<1> HIDE DEF map, row
<1>4. {row(i) : i \in DOMAIN rows} = {Identified(map, Identity(rows, i)) : i \in DOMAIN rows}
  BY <1>2
<1>5. {Identified(map, Identity(rows, i)) : i \in DOMAIN rows} = {Identified(map, id) : id \in DOMAIN map}
  BY <1>1
<1> QED BY <1>3, <1>4, <1>5 DEF map

(* The maps of two crawls.                                                 *)
Maps(before, after) ==
  /\ DOMAIN before \subseteq Urls \X Nat /\ DOMAIN after \subseteq Urls \X Nat
  /\ IsFiniteSet(DOMAIN before) /\ IsFiniteSet(DOMAIN after)

Side(map, id) == IF id \in DOMAIN map THEN {map[id]} ELSE {}
JoinedOf(before, after, id) ==
  [url |-> id[1], occurrence |-> id[2], was |-> Side(before, id), is |-> Side(after, id)]

(* The join has one row for each identity of either crawl.                 *)
LEMMA JoinedIs ==
  ASSUME NEW baseline, NEW current, Crawled(baseline), Crawled(current)
  PROVE  LET before == ByIdentity(baseline)
             after == ByIdentity(current)
         IN /\ Maps(before, after)
            /\ SqlJoined(baseline, current)
                 = {JoinedOf(before, after, id) : id \in DOMAIN before \cup DOMAIN after}
<1> DEFINE before == ByIdentity(baseline)
           after == ByIdentity(current)
           B == DOMAIN before
           A == DOMAIN after
           previous == {Identified(before, id) : id \in B}
           now == {Identified(after, id) : id \in A}
           match(x, y) == x.url = y.url /\ x.occurrence = y.occurrence
           left == {x \in previous : \A y \in now : ~match(x, y)}
           both == {x \in previous \X now : match(x[1], x[2])}
           right == {y \in now : \A x \in previous : ~match(x, y)}
<1>1. Maps(before, after) /\ B \subseteq Urls \X Nat /\ A \subseteq Urls \X Nat
  BY MapIs DEF Maps
<1>2. SqlJoined(baseline, current)
        = {Joined(x, {x.row}, {}) : x \in left}
          \cup {Joined(x[1], {x[1].row}, {x[2].row}) : x \in both}
          \cup {Joined(y, {}, {y.row}) : y \in right}
  <2>1. SqlIdentified(baseline) = previous /\ SqlIdentified(current) = now
    BY IdentifiedIs
  <2> HIDE DEF previous, now
  <2> QED BY <2>1 DEF SqlJoined
<1> HIDE DEF before, after
<1>3. ASSUME NEW id \in B, NEW other \in A
      PROVE  match(Identified(before, id), Identified(after, other)) <=> id = other
  BY <1>1 DEF Identified
<1>4. left = {Identified(before, id) : id \in B \ A}
  <2>1. \A id \in B : (\A y \in now : ~match(Identified(before, id), y)) <=> id \notin A
    BY <1>3
  <2> HIDE DEF match, now, B, A
  <2> QED BY <2>1
<1>5. right = {Identified(after, id) : id \in A \ B}
  <2>1. \A id \in A : (\A x \in previous : ~match(x, Identified(after, id))) <=> id \notin B
    BY <1>3
  <2> HIDE DEF match, previous, B, A
  <2> QED BY <2>1
<1>6. both = {<<Identified(before, id), Identified(after, id)>> : id \in B \cap A}
  <2>1. ASSUME NEW x \in both
        PROVE  \E id \in B \cap A : x = <<Identified(before, id), Identified(after, id)>>
    <3>1. x \in previous \X now /\ match(x[1], x[2])
      OBVIOUS
    <3>2. PICK id \in B : x[1] = Identified(before, id)
      BY <3>1
    <3>3. PICK other \in A : x[2] = Identified(after, other)
      BY <3>1
    <3>4. x = <<x[1], x[2]>>
      BY <3>1
    <3> HIDE DEF both, match, previous, now, B, A
    <3>5. id = other
      BY <1>3, <3>1, <3>2, <3>3
    <3> QED BY <3>2, <3>3, <3>4, <3>5
  <2>2. ASSUME NEW id \in B \cap A
        PROVE  <<Identified(before, id), Identified(after, id)>> \in both
    <3>1. match(Identified(before, id), Identified(after, id))
      BY <1>3
    <3> QED BY <3>1
  <2> HIDE DEF both, B, A
  <2> QED BY <2>1, <2>2
<1> HIDE DEF left, both, right, match, previous, now
<1>7. {Joined(x, {x.row}, {}) : x \in left} = {JoinedOf(before, after, id) : id \in B \ A}
  <2>1. \A id \in B \ A : Joined(Identified(before, id), {Identified(before, id).row}, {}) = JoinedOf(before, after, id)
    BY DEF Joined, JoinedOf, Identified, Side
  <2> HIDE DEF B, A
  <2> QED BY <1>4, <2>1
<1>8. {Joined(y, {}, {y.row}) : y \in right} = {JoinedOf(before, after, id) : id \in A \ B}
  <2>1. \A id \in A \ B : Joined(Identified(after, id), {}, {Identified(after, id).row}) = JoinedOf(before, after, id)
    BY DEF Joined, JoinedOf, Identified, Side
  <2> HIDE DEF B, A
  <2> QED BY <1>5, <2>1
<1>9. {Joined(x[1], {x[1].row}, {x[2].row}) : x \in both} = {JoinedOf(before, after, id) : id \in B \cap A}
  <2>1. \A id \in B \cap A : Joined(Identified(before, id), {Identified(before, id).row}, {Identified(after, id).row})
                                = JoinedOf(before, after, id)
    BY DEF Joined, JoinedOf, Identified, Side
  <2>2. {Joined(x[1], {x[1].row}, {x[2].row}) : x \in both}
          = {Joined(Identified(before, id), {Identified(before, id).row}, {Identified(after, id).row}) : id \in B \cap A}
    <3> DEFINE pair(id) == <<Identified(before, id), Identified(after, id)>>
               of(x) == Joined(x[1], {x[1].row}, {x[2].row})
    <3>1. both = {pair(id) : id \in B \cap A}
      BY <1>6
    <3>2. \A id : of(pair(id)) = Joined(Identified(before, id), {Identified(before, id).row}, {Identified(after, id).row})
      OBVIOUS
    <3>3. {of(x) : x \in both} = {of(pair(id)) : id \in B \cap A}
      <4> HIDE DEF pair, of, B, A
      <4> QED BY <3>1
    <3> HIDE DEF B, A, pair
    <3> QED BY <3>2, <3>3
  <2> HIDE DEF B, A
  <2> QED BY <2>1, <2>2
<1>10. SqlJoined(baseline, current) = {JoinedOf(before, after, id) : id \in B \cup A}
  <2> HIDE DEF B, A
  <2>1. SqlJoined(baseline, current)
          = {JoinedOf(before, after, id) : id \in B \ A} \cup {JoinedOf(before, after, id) : id \in B \cap A}
            \cup {JoinedOf(before, after, id) : id \in A \ B}
    BY <1>2, <1>7, <1>8, <1>9
  <2> QED BY <2>1
<1> QED BY <1>1, <1>10 DEF before, after

-----------------------------------------------------------------------------
(* The joined rows and their lines.                                        *)

(* What differs between two rows is the same in Rust and in SQL,           *)
LEMMA FieldsAgree ==
  ASSUME NEW x, NEW y, NEW f \in Fields
  PROVE  f \in SqlChanged(x, y) <=> f \in Changed(x, y)
<1> DEFINE was == x.record
           is == y.record
           counted(e) == Holds(AllOf({was.text[e].count # None, is.text[e].count # None,
                                      was.text[e].count # is.text[e].count}))
           hashed == Holds(AllOf({was.hash # None, is.hash # None, was.hash # is.hash}))
           comparable == /\ Known(x.content, y.content)
                         /\ x.content.context = y.content.context
<1>1. \A b, c, d \in BOOLEAN : Holds(AllOf({b, c, d})) <=> b /\ c /\ d
  BY AllOfThree, PlainHolds
<1>2. \A e : counted(e) <=> Known(was.text[e].count, is.text[e].count) /\ was.text[e].count # is.text[e].count
  BY <1>1 DEF Known
<1>3. hashed <=> Known(was.hash, is.hash) /\ was.hash # is.hash
  BY <1>1 DEF Known
<1>4. \A a, b, c, d : <<a, b>> # <<c, d>> <=> a # c \/ b # d
  OBVIOUS
<1>5. ContentOf(x, y) = "changed" <=> comparable /\ x.content.hash # y.content.hash
  BY DEF ContentOf
<1> HIDE DEF counted, hashed, comparable
<1>6. CASE f = "finalUrl"
  BY <1>6 DEF Changed, SqlChanged
<1>7. CASE f = "statusCode"
  BY <1>7 DEF Changed, SqlChanged
<1>8. CASE f = "title"
  <2>1. f \in SqlChanged(x, y) <=> was.text["title"].value # is.text["title"].value \/ counted("title")
    BY <1>8 DEF SqlChanged, counted
  <2>2. f \in Changed(x, y) <=> TextDiffers(was.text["title"], is.text["title"])
    BY <1>8 DEF Changed
  <2> QED BY <1>2, <2>1, <2>2 DEF TextDiffers
<1>9. CASE f = "metaDescription"
  <2>1. f \in SqlChanged(x, y) <=> was.text["meta"].value # is.text["meta"].value \/ counted("meta")
    BY <1>9 DEF SqlChanged, counted
  <2>2. f \in Changed(x, y) <=> TextDiffers(was.text["meta"], is.text["meta"])
    BY <1>9 DEF Changed
  <2> QED BY <1>2, <2>1, <2>2 DEF TextDiffers
<1>10. CASE f = "indexability"
  BY <1>4, <1>10 DEF Changed, SqlChanged
<1>11. CASE f = "headings"
  BY <1>4, <1>11 DEF Changed, SqlChanged
<1>12. CASE f = "canonical"
  BY <1>4, <1>12 DEF Changed, SqlChanged
<1>13. CASE f = "robotsDirectives"
  BY <1>13 DEF Changed, SqlChanged
<1>14. CASE f = "content"
  <2>1. f \in SqlChanged(x, y) <=> comparable /\ x.content.hash # y.content.hash
    BY <1>14 DEF SqlChanged, comparable
  <2>2. f \in Changed(x, y) <=> ContentOf(x, y) = "changed"
    BY <1>14 DEF Changed
  <2> QED BY <1>5, <2>1, <2>2
<1>15. CASE f = "responseHash"
  <2>1. f \in SqlChanged(x, y) <=> hashed
    BY <1>15 DEF SqlChanged, hashed
  <2>2. f \in Changed(x, y) <=> Known(was.hash, is.hash) /\ was.hash # is.hash
    BY <1>15 DEF Changed
  <2> QED BY <1>3, <2>1, <2>2
<1> QED BY <1>6, <1>7, <1>8, <1>9, <1>10, <1>11, <1>12, <1>13, <1>14, <1>15 DEF Fields

LEMMA ChangesAgree ==
  ASSUME NEW x, NEW y
  PROVE  SqlChanged(x, y) = Changed(x, y) /\ Changed(x, y) \subseteq Fields
<1>1. SqlChanged(x, y) \subseteq Fields /\ Changed(x, y) \subseteq Fields
  BY DEF SqlChanged, Changed
<1> QED BY <1>1, FieldsAgree

(* the same in both directions,                                            *)
LEMMA FieldsAreMutual ==
  ASSUME NEW x, NEW y, NEW f \in Fields
  PROVE  f \in Changed(x, y) <=> f \in Changed(y, x)
<1>1. ContentOf(x, y) = "changed" <=> ContentOf(y, x) = "changed"
  BY DEF ContentOf, Known
<1>2. \A e : TextDiffers(x.record.text[e], y.record.text[e]) <=> TextDiffers(y.record.text[e], x.record.text[e])
  BY DEF TextDiffers, Known
<1>6. CASE f = "finalUrl"
  BY <1>6 DEF Changed
<1>7. CASE f = "statusCode"
  BY <1>7 DEF Changed
<1>8. CASE f \in {"title", "metaDescription"}
  BY <1>2, <1>8 DEF Changed
<1>10. CASE f = "indexability"
  BY <1>10 DEF Changed
<1>11. CASE f = "headings"
  BY <1>11 DEF Changed
<1>12. CASE f = "canonical"
  BY <1>12 DEF Changed
<1>13. CASE f = "robotsDirectives"
  BY <1>13 DEF Changed
<1>14. CASE f = "content"
  BY <1>1, <1>14 DEF Changed
<1>15. CASE f = "responseHash"
  BY <1>15 DEF Changed, Known
<1> QED BY <1>6, <1>7, <1>8, <1>10, <1>11, <1>12, <1>13, <1>14, <1>15 DEF Fields

(* and nothing differs from itself.                                        *)
LEMMA NothingDiffers ==
  ASSUME NEW x
  PROVE  Changed(x, x) = {}
<1>1. ContentOf(x, x) # "changed"
  BY DEF ContentOf
<1>2. ASSUME NEW f \in Fields PROVE f \notin Changed(x, x)
  <2>1. CASE f = "content"
    BY <1>1, <2>1 DEF Changed
  <2>2. CASE f # "content"
    BY <2>2 DEF Changed, Fields, TextDiffers
  <2> QED BY <2>1, <2>2
<1> QED BY <1>2, ChangesAgree

LEMMA ChangesAreMutual ==
  ASSUME NEW x, NEW y
  PROVE  Changed(x, y) = Changed(y, x)
BY FieldsAreMutual, ChangesAgree

(* The line of a joined row.                                               *)
LEMMA JoinedLine ==
  ASSUME NEW before, NEW after, NEW id \in DOMAIN before \cup DOMAIN after
  PROVE  LET l == SqlLine(JoinedOf(before, after, id))
             fields == Changed(before[id], after[id])
         IN /\ id \notin DOMAIN before => l = Line(id[1], id[2], "added", {})
            /\ id \notin DOMAIN after => l = Line(id[1], id[2], "removed", {})
            /\ id \in DOMAIN before \cap DOMAIN after =>
                 l = Line(id[1], id[2],
                          IF fields \ {"responseHash"} # {} THEN "changed"
                          ELSE IF fields # {} THEN "responseOnly" ELSE "unchanged", fields)
<1> DEFINE j == JoinedOf(before, after, id)
           fields == UNION {SqlChanged(x[1], x[2]) : x \in j.was \X j.is}
<1>1. j.url = id[1] /\ j.occurrence = id[2] /\ j.was = Side(before, id) /\ j.is = Side(after, id)
  BY DEF JoinedOf
<1>2. SqlLine(j) =
        Line(j.url, j.occurrence,
             IF j.was = {} THEN "added" ELSE IF j.is = {} THEN "removed"
             ELSE IF fields \ {"responseHash"} # {} THEN "changed"
             ELSE IF fields # {} THEN "responseOnly" ELSE "unchanged",
             fields)
  BY DEF SqlLine
<1> HIDE DEF j
<1>3. CASE id \notin DOMAIN before
  <2>1. j.was = {} /\ j.was \X j.is = {}
    BY <1>1, <1>3 DEF Side
  <2>2. fields = {}
    BY <2>1
  <2> HIDE DEF fields
  <2>3. SqlLine(j) = Line(id[1], id[2], "added", {})
    BY <1>1, <1>2, <2>1, <2>2
  <2> QED BY <1>3, <2>3 DEF j
<1>4. CASE id \notin DOMAIN after
  <2>1. j.is = {} /\ j.was # {} /\ j.was \X j.is = {}
    BY <1>1, <1>4 DEF Side
  <2>2. fields = {}
    BY <2>1
  <2> HIDE DEF fields
  <2>3. SqlLine(j) = Line(id[1], id[2], "removed", {})
    BY <1>1, <1>2, <2>1, <2>2
  <2> QED BY <1>4, <2>3 DEF j
<1>5. CASE id \in DOMAIN before \cap DOMAIN after
  <2>1. j.was = {before[id]} /\ j.is = {after[id]}
    BY <1>1, <1>5 DEF Side
  <2>2. j.was \X j.is = {<<before[id], after[id]>>}
    BY <2>1
  <2>3. fields = SqlChanged(before[id], after[id])
    <3> DEFINE pairs == j.was \X j.is
               only == <<before[id], after[id]>>
               each(x) == SqlChanged(x[1], x[2])
    <3>1. pairs = {only}
      BY <2>2
    <3>2. each(only) = SqlChanged(only[1], only[2]) /\ only[1] = before[id] /\ only[2] = after[id]
      OBVIOUS
    <3>3. fields = UNION {each(x) : x \in pairs}
      OBVIOUS
    <3> HIDE DEF pairs, each, only
    <3>4. fields = each(only)
      BY <3>1, <3>3
    <3> QED BY <3>2, <3>4
  <2>4. fields = Changed(before[id], after[id])
    BY <2>3, ChangesAgree
  <2> HIDE DEF fields
  <2> QED BY <1>1, <1>2, <1>5, <2>1, <2>4 DEF j
<1> QED BY <1>3, <1>4, <1>5

LEMMA LineFields ==
  ASSUME NEW u, NEW n, NEW change, NEW fields
  PROVE  LET l == Line(u, n, change, fields)
         IN l.url = u /\ l.occurrence = n /\ l.change = change /\ l.fields = fields
BY DEF Line

(* What two maps have of each kind.                                        *)
Shared(before, after) == DOMAIN before \cap DOMAIN after
ChangedIn(before, after) ==
  {id \in Shared(before, after) : Changed(before[id], after[id]) \ {"responseHash"} # {}}
OnlyIn(before, after) ==
  {id \in Shared(before, after) : Changed(before[id], after[id]) = {"responseHash"}}
DifferingIn(before, after, f) == {id \in Shared(before, after) : f \in Changed(before[id], after[id])}
UnknownIn(before, after) ==
  {id \in Shared(before, after) : ContentOf(before[id], after[id]) = "unavailable"}

(* Each is what the database counts.                                       *)
LEMMA JoinedAre ==
  ASSUME NEW before, NEW after, NEW id \in DOMAIN before \cup DOMAIN after
  PROVE  LET l == SqlLine(JoinedOf(before, after, id))
         IN /\ l.change = "added" <=> id \in DOMAIN after \ DOMAIN before
            /\ l.change = "removed" <=> id \in DOMAIN before \ DOMAIN after
            /\ l.change = "changed" <=> id \in ChangedIn(before, after)
            /\ l.change = "responseOnly" <=> id \in OnlyIn(before, after)
            /\ \A f : f \in l.fields <=> id \in DifferingIn(before, after, f)
            /\ l.change # "unchanged" => l = LineOf(before, after, id)
            /\ l.change # "unchanged" <=>
                 id \in (DOMAIN after \ DOMAIN before) \cup (DOMAIN before \ DOMAIN after)
                        \cup ChangedIn(before, after) \cup OnlyIn(before, after)
<1> DEFINE l == SqlLine(JoinedOf(before, after, id))
           fields == Changed(before[id], after[id])
<1>1. CASE id \notin DOMAIN before
  <2>1. l = Line(id[1], id[2], "added", {})
    BY <1>1, JoinedLine
  <2>2. l.change = "added" /\ l.fields = {}
    BY <2>1, LineFields
  <2>3. LineOf(before, after, id) = l
    BY <1>1, <2>1 DEF LineOf
  <2> HIDE DEF l
  <2>4. id \in DOMAIN after /\ id \notin Shared(before, after)
    BY <1>1 DEF Shared
  <2> QED BY <1>1, <2>2, <2>3, <2>4 DEF l, ChangedIn, OnlyIn, DifferingIn
<1>2. CASE id \notin DOMAIN after
  <2>1. l = Line(id[1], id[2], "removed", {})
    BY <1>2, JoinedLine
  <2>2. l.change = "removed" /\ l.fields = {}
    BY <2>1, LineFields
  <2>3. LineOf(before, after, id) = l
    BY <1>2, <2>1 DEF LineOf
  <2> HIDE DEF l
  <2>4. id \in DOMAIN before /\ id \notin Shared(before, after)
    BY <1>2 DEF Shared
  <2> QED BY <1>2, <2>2, <2>3, <2>4 DEF l, ChangedIn, OnlyIn, DifferingIn
<1>3. CASE id \in Shared(before, after)
  <2> DEFINE change == IF fields \ {"responseHash"} # {} THEN "changed"
                       ELSE IF fields # {} THEN "responseOnly" ELSE "unchanged"
  <2>1. id \in DOMAIN before /\ id \in DOMAIN after
    BY <1>3 DEF Shared
  <2>2. l = Line(id[1], id[2], change, fields)
    BY <2>1, JoinedLine
  <2>3. l.change = change /\ l.fields = fields
    BY <2>2, LineFields
  <2>4. LineOf(before, after, id)
          = Line(id[1], id[2], IF fields = {"responseHash"} THEN "responseOnly" ELSE "changed", fields)
    BY <2>1 DEF LineOf
  <2>5. /\ id \in ChangedIn(before, after) <=> fields \ {"responseHash"} # {}
        /\ id \in OnlyIn(before, after) <=> fields = {"responseHash"}
        /\ \A f : id \in DifferingIn(before, after, f) <=> f \in fields
    BY <1>3 DEF ChangedIn, OnlyIn, DifferingIn
  <2> HIDE DEF l, fields
  <2>6. fields \ {"responseHash"} = {} => (fields # {} <=> fields = {"responseHash"})
    OBVIOUS
  <2>7. change \in {"changed", "responseOnly", "unchanged"}
    OBVIOUS
  <2>8. change # "unchanged" => l = LineOf(before, after, id)
    BY <2>2, <2>4, <2>6
  <2> QED BY <2>1, <2>3, <2>5, <2>6, <2>7, <2>8 DEF l
<1> QED BY <1>1, <1>2, <1>3 DEF Shared

(* As many joined rows as identities.                                      *)
LEMMA JoinedCount ==
  ASSUME NEW before, NEW after, Maps(before, after),
         NEW P, P \subseteq DOMAIN before \cup DOMAIN after,
         NEW X, X \subseteq {JoinedOf(before, after, id) : id \in DOMAIN before \cup DOMAIN after},
         \A id \in DOMAIN before \cup DOMAIN after : JoinedOf(before, after, id) \in X <=> id \in P
  PROVE  Cardinality(X) = Cardinality(P) /\ IsFiniteSet(P) /\ Cardinality(P) \in Nat
<1> DEFINE ids == DOMAIN before \cup DOMAIN after
           q == [id \in ids |-> JoinedOf(before, after, id)]
<1>1. IsFiniteSet(ids) /\ ids \subseteq Urls \X Nat
  BY FS_Union DEF Maps
<1>2. IsFiniteSet(P)
  BY <1>1, FS_Subset
<1>3. \A i, j \in P : q[i] = q[j] => i = j
  <2> SUFFICES ASSUME NEW i \in P, NEW j \in P, q[i] = q[j] PROVE i = j
    OBVIOUS
  <2>1. i \in Urls \X Nat /\ j \in Urls \X Nat /\ i \in ids /\ j \in ids
    BY <1>1
  <2>2. JoinedOf(before, after, i) = JoinedOf(before, after, j)
    BY <2>1
  <2>3. i[1] = j[1] /\ i[2] = j[2]
    BY <2>2 DEF JoinedOf
  <2> QED BY <2>1, <2>3
<1>4. X = {q[id] : id \in P}
  <2>1. \A id \in ids : q[id] \in X <=> id \in P
    OBVIOUS
  <2>2. X \subseteq {q[id] : id \in ids}
    OBVIOUS
  <2> HIDE DEF q
  <2> QED BY <2>1, <2>2
<1> HIDE DEF q
<1>5. Cardinality({q[id] : id \in P}) = Cardinality(P)
  BY <1>2, <1>3, ImageCount
<1> QED BY <1>2, <1>4, <1>5, FS_CardinalityType

(* The database counts the identities of each kind.                        *)
OfKind(joined, change) == {j \in joined : SqlLine(j).change = change}
Differing(joined, f) == {j \in joined : f \in SqlLine(j).fields}
Unknown(joined) == {j \in joined : \E x \in j.was \X j.is : ContentOf(x[1], x[2]) = "unavailable"}

LEMMA UnknownJoined ==
  ASSUME NEW before, NEW after, NEW id \in DOMAIN before \cup DOMAIN after
  PROVE  LET j == JoinedOf(before, after, id)
         IN (\E x \in j.was \X j.is : ContentOf(x[1], x[2]) = "unavailable") <=> id \in UnknownIn(before, after)
<1> DEFINE j == JoinedOf(before, after, id)
<1>1. j.was = Side(before, id) /\ j.is = Side(after, id)
  BY DEF JoinedOf
<1> HIDE DEF j
<1>2. CASE id \in Shared(before, after)
  <2>1. j.was = {before[id]} /\ j.is = {after[id]}
    BY <1>1, <1>2 DEF Side, Shared
  <2> DEFINE pairs == j.was \X j.is
             only == <<before[id], after[id]>>
  <2>2. pairs = {only} /\ only[1] = before[id] /\ only[2] = after[id]
    BY <2>1
  <2> HIDE DEF pairs, only
  <2>3. (\E x \in pairs : ContentOf(x[1], x[2]) = "unavailable") <=> ContentOf(before[id], after[id]) = "unavailable"
    BY <2>2
  <2>4. id \in UnknownIn(before, after) <=> ContentOf(before[id], after[id]) = "unavailable"
    BY <1>2 DEF UnknownIn
  <2> QED BY <2>3, <2>4 DEF pairs, j
<1>3. CASE id \notin Shared(before, after)
  <2>1. j.was = {} \/ j.is = {}
    BY <1>1, <1>3 DEF Side, Shared
  <2> QED BY <1>3, <2>1 DEF UnknownIn, j
<1> QED BY <1>2, <1>3

LEMMA CountsAgree ==
  ASSUME NEW baseline, NEW current, Crawled(baseline), Crawled(current)
  PROVE  LET before == ByIdentity(baseline)
             after == ByIdentity(current)
             joined == SqlJoined(baseline, current)
         IN /\ Cardinality(OfKind(joined, "added")) = Cardinality(DOMAIN after \ DOMAIN before)
            /\ Cardinality(OfKind(joined, "removed")) = Cardinality(DOMAIN before \ DOMAIN after)
            /\ Cardinality(OfKind(joined, "changed")) = Cardinality(ChangedIn(before, after))
            /\ Cardinality(OfKind(joined, "responseOnly")) = Cardinality(OnlyIn(before, after))
            /\ \A f : Cardinality(Differing(joined, f)) = Cardinality(DifferingIn(before, after, f))
            /\ Cardinality(Unknown(joined)) = Cardinality(UnknownIn(before, after))
<1> DEFINE before == ByIdentity(baseline)
           after == ByIdentity(current)
           joined == SqlJoined(baseline, current)
           ids == DOMAIN before \cup DOMAIN after
<1>1. Maps(before, after) /\ joined = {JoinedOf(before, after, id) : id \in ids}
  BY JoinedIs
<1> HIDE DEF before, after, joined
<1>2. \A id \in ids : JoinedOf(before, after, id) \in joined
  BY <1>1
<1>3. \A P, X : P \subseteq ids /\ X \subseteq joined /\ (\A id \in ids : JoinedOf(before, after, id) \in X <=> id \in P)
        => Cardinality(X) = Cardinality(P)
  BY <1>1, JoinedCount
<1>4. Cardinality(OfKind(joined, "added")) = Cardinality(DOMAIN after \ DOMAIN before)
  <2>1. OfKind(joined, "added") \subseteq joined
    BY DEF OfKind
  <2>2. \A id \in ids : JoinedOf(before, after, id) \in OfKind(joined, "added") <=> id \in DOMAIN after \ DOMAIN before
    BY <1>2, JoinedAre DEF OfKind
  <2> QED BY <1>3, <2>1, <2>2
<1>5. Cardinality(OfKind(joined, "removed")) = Cardinality(DOMAIN before \ DOMAIN after)
  <2>1. OfKind(joined, "removed") \subseteq joined
    BY DEF OfKind
  <2>2. \A id \in ids : JoinedOf(before, after, id) \in OfKind(joined, "removed") <=> id \in DOMAIN before \ DOMAIN after
    BY <1>2, JoinedAre DEF OfKind
  <2> QED BY <1>3, <2>1, <2>2
<1>6. Cardinality(OfKind(joined, "changed")) = Cardinality(ChangedIn(before, after))
  <2>1. OfKind(joined, "changed") \subseteq joined /\ ChangedIn(before, after) \subseteq ids
    BY DEF OfKind, ChangedIn, Shared
  <2>2. \A id \in ids : JoinedOf(before, after, id) \in OfKind(joined, "changed") <=> id \in ChangedIn(before, after)
    BY <1>2, JoinedAre DEF OfKind
  <2> QED BY <1>3, <2>1, <2>2
<1>7. Cardinality(OfKind(joined, "responseOnly")) = Cardinality(OnlyIn(before, after))
  <2>1. OfKind(joined, "responseOnly") \subseteq joined /\ OnlyIn(before, after) \subseteq ids
    BY DEF OfKind, OnlyIn, Shared
  <2>2. \A id \in ids : JoinedOf(before, after, id) \in OfKind(joined, "responseOnly") <=> id \in OnlyIn(before, after)
    BY <1>2, JoinedAre DEF OfKind
  <2> QED BY <1>3, <2>1, <2>2
<1>8. ASSUME NEW f PROVE Cardinality(Differing(joined, f)) = Cardinality(DifferingIn(before, after, f))
  <2>1. Differing(joined, f) \subseteq joined /\ DifferingIn(before, after, f) \subseteq ids
    BY DEF Differing, DifferingIn, Shared
  <2>2. \A id \in ids : JoinedOf(before, after, id) \in Differing(joined, f) <=> id \in DifferingIn(before, after, f)
    BY <1>2, JoinedAre DEF Differing
  <2> QED BY <1>3, <2>1, <2>2
<1>9. Cardinality(Unknown(joined)) = Cardinality(UnknownIn(before, after))
  <2>1. Unknown(joined) \subseteq joined /\ UnknownIn(before, after) \subseteq ids
    BY DEF Unknown, UnknownIn, Shared
  <2>2. \A id \in ids : JoinedOf(before, after, id) \in Unknown(joined) <=> id \in UnknownIn(before, after)
    BY <1>2, UnknownJoined DEF Unknown
  <2> QED BY <1>3, <2>1, <2>2
<1> QED BY <1>4, <1>5, <1>6, <1>7, <1>8, <1>9 DEF before, after, joined

-----------------------------------------------------------------------------
(* The order of the lines.                                                 *)

(* Lines that their places tell apart.                                     *)
Orderly(T) ==
  /\ IsFiniteSet(T)
  /\ \A x \in T : x.url \in Urls /\ x.occurrence \in Nat
  /\ \A x, y \in T : x.url = y.url /\ x.occurrence = y.occurrence => x = y
LinesBefore(T) == [x \in T |-> {y \in T : LineBefore(y, x)}]

LEMMA UrlsAreRanked ==
  /\ \A u \in Urls : UrlRank(u) \in Nat
  /\ \A u, v \in Urls : UrlRank(u) = UrlRank(v) => u = v
<1>1. Len(UrlOrder) \in Nat /\ DOMAIN UrlOrder = 1..Len(UrlOrder)
  BY ComparisonAssumption, LenProperties
<1>2. Urls = {UrlOrder[i] : i \in DOMAIN UrlOrder}
  BY ComparisonAssumption DEF ToSet
<1>3. ASSUME NEW u \in Urls PROVE UrlRank(u) \in DOMAIN UrlOrder /\ UrlOrder[UrlRank(u)] = u
  <2>1. \E i \in DOMAIN UrlOrder : UrlOrder[i] = u
    BY <1>2
  <2> QED BY <2>1 DEF UrlRank
<1> QED BY <1>1, <1>3

(* Lines have an order.                                                    *)
LEMMA LinesAreOrdered ==
  ASSUME NEW T, Orderly(T)
  PROVE  /\ \A x \in T : ~LineBefore(x, x)
         /\ \A x, y, z \in T : LineBefore(x, y) /\ LineBefore(y, z) => LineBefore(x, z)
         /\ \A x, y \in T : x = y \/ LineBefore(x, y) \/ LineBefore(y, x)
<1>1. \A x \in T : UrlRank(x.url) \in Nat /\ x.occurrence \in Nat
  BY UrlsAreRanked DEF Orderly
<1>2. \A x \in T : ChangeOrder(x.change) \in Nat
  BY DEF ChangeOrder
<1>3. \A x, y \in T : UrlRank(x.url) = UrlRank(y.url) <=> x.url = y.url
  BY UrlsAreRanked DEF Orderly
<1>4. \A x, y \in T : LineBefore(x, y) <=>
        \/ ChangeOrder(x.change) < ChangeOrder(y.change)
        \/ ChangeOrder(x.change) = ChangeOrder(y.change) /\ UrlRank(x.url) < UrlRank(y.url)
        \/ ChangeOrder(x.change) = ChangeOrder(y.change) /\ UrlRank(x.url) = UrlRank(y.url) /\ x.occurrence < y.occurrence
  BY <1>3 DEF LineBefore
<1>5. \A x \in T : ~LineBefore(x, x)
  BY <1>1, <1>2, <1>4
<1>6. \A x, y, z \in T : LineBefore(x, y) /\ LineBefore(y, z) => LineBefore(x, z)
  BY <1>1, <1>2, <1>4
<1>7. ASSUME NEW x \in T, NEW y \in T PROVE x = y \/ LineBefore(x, y) \/ LineBefore(y, x)
  <2>1. x.url = y.url /\ x.occurrence = y.occurrence => x = y
    BY DEF Orderly
  <2> QED BY <1>1, <1>2, <1>3, <1>4, <2>1
<1> QED BY <1>5, <1>6, <1>7

LEMMA LinesRank ==
  ASSUME NEW T, Orderly(T)
  PROVE  Ranks(LinesBefore(T), T)
<1> DEFINE before == LinesBefore(T)
<1>1. before \in [T -> SUBSET T]
  BY DEF LinesBefore
<1>2. \A x, y \in T : y \in before[x] <=> LineBefore(y, x)
  BY DEF LinesBefore
<1> HIDE DEF before
<1>3. \A x \in T : x \notin before[x]
  BY <1>2, LinesAreOrdered
<1>4. ASSUME NEW x \in T, NEW y \in T, x \in before[y] PROVE before[x] \subseteq before[y]
  <2>1. before[x] \subseteq T
    BY <1>1
  <2>2. ASSUME NEW z \in before[x] PROVE z \in before[y]
    <3>1. z \in T /\ LineBefore(z, x) /\ LineBefore(x, y)
      BY <1>2, <1>4, <2>1, <2>2
    <3>2. LineBefore(z, y)
      BY <3>1, LinesAreOrdered
    <3> QED BY <1>2, <3>1, <3>2
  <2> QED BY <2>2
<1>5. \A x, y \in T : x = y \/ x \in before[y] \/ y \in before[x]
  BY <1>2, LinesAreOrdered
<1>6. Ranks(before, T)
  BY <1>1, <1>3, <1>4, <1>5 DEF Ranks
<1> QED BY <1>6 DEF before

(* In order, each line has its number before it.                           *)
LEMMA ShownInOrder ==
  ASSUME NEW T, Orderly(T)
  PROVE  LET q == InOrder(LinesBefore(T))
             n == Cardinality(T)
         IN /\ n \in Nat
            /\ q \in [1..n -> T] /\ q \in Seq(T) /\ Len(q) = n
            /\ \A i, k \in 1..n : q[i] = q[k] => i = k
            /\ T = {q[i] : i \in 1..n}
            /\ \A i \in 1..n : Cardinality(LinesBefore(T)[q[i]]) = i - 1
            /\ \A i \in 1..n, x \in T : Cardinality(LinesBefore(T)[x]) = i - 1 => q[i] = x
<1> DEFINE before == LinesBefore(T)
           n == Cardinality(T)
           q == InOrder(before)
<1>1. n \in Nat /\ IsFiniteSet(T)
  BY FS_CardinalityType DEF Orderly
<1>2. Ranks(before, T) /\ DOMAIN before = T
  BY LinesRank DEF LinesBefore
<1>3. q = Enumeration(before, T)
  BY <1>2 DEF InOrder, Enumeration
<1> HIDE DEF before
<1>4. /\ q \in [1..n -> T]
      /\ \A i, k \in 1..n : q[i] = q[k] => i = k
      /\ T = {q[i] : i \in 1..n}
      /\ \A i \in 1..n : Cardinality(before[q[i]]) = i - 1
  BY <1>1, <1>2, <1>3, SortedEnumerates, SMTT(30)
<1> HIDE DEF q
<1>5. \A i \in 1..n, x \in T : Cardinality(before[x]) = i - 1 => q[i] = x
  BY <1>4
<1>6. q \in Seq(T)
  BY <1>1, <1>4, FunIsSeq
<1>7. Len(q) = n
  <2>1. DOMAIN q = 1..n /\ DOMAIN q = 1..Len(q) /\ Len(q) \in Nat
    BY <1>4, <1>6, LenProperties
  <2> QED BY <2>1, <1>1
<1> QED BY <1>1, <1>4, <1>5, <1>6, <1>7 DEF q, before

(* What a cut leaves.                                                      *)
LEMMA CutIs ==
  ASSUME NEW S, NEW q \in Seq(S), NEW m \in Nat
  PROVE  LET n == IF Len(q) < m THEN Len(q) ELSE m
         IN /\ n \in Nat /\ n <= Len(q) /\ n <= m
            /\ Cut(q, m) = [i \in 1..n |-> q[i]]
            /\ Cut(q, m) \in Seq(S) /\ Len(Cut(q, m)) = n
            /\ \A i \in 1..n : Cut(q, m)[i] = q[i]
BY PrefixIs, Zenon DEF Cut

(* What comes before x in T.                                               *)
Ahead(T, x) == {y \in T : LineBefore(y, x)}

LEMMA AheadFacts ==
  ASSUME NEW T, Orderly(T), NEW U, U \subseteq T
  PROVE  /\ Orderly(U)
         /\ Cardinality(U) \in Nat /\ Cardinality(U) <= Cardinality(T)
         /\ \A x : IsFiniteSet(Ahead(U, x)) /\ Cardinality(Ahead(U, x)) \in Nat
         /\ \A x : Cardinality(Ahead(U, x)) <= Cardinality(Ahead(T, x))
         /\ \A x \in U : LinesBefore(U)[x] = Ahead(U, x)
<1>1. IsFiniteSet(T) /\ IsFiniteSet(U)
  BY FS_Subset DEF Orderly
<1>2. Orderly(U)
  BY <1>1 DEF Orderly
<1>3. \A x : Ahead(U, x) \subseteq U /\ Ahead(T, x) \subseteq T /\ Ahead(U, x) \subseteq Ahead(T, x)
  BY DEF Ahead
<1>4. \A x \in U : LinesBefore(U)[x] = Ahead(U, x)
  BY DEF LinesBefore, Ahead
<1> QED BY <1>1, <1>2, <1>3, <1>4, FS_Subset, FS_CardinalityType

(* The first m of what is in T are the first m of S, if whatever T lacks   *)
(* has m lines of T before it.                                             *)
LEMMA TopIsEnough ==
  ASSUME NEW S, Orderly(S), NEW T, T \subseteq S, NEW m \in Nat,
         \A x \in S \ T : m <= Cardinality(Ahead(T, x))
  PROVE  Cut(InOrder(LinesBefore(S)), m) = Cut(InOrder(LinesBefore(T)), m)
<1> DEFINE p == InOrder(LinesBefore(S))
           q == InOrder(LinesBefore(T))
           s == Cardinality(S)
           t == Cardinality(T)
           k == IF t < m THEN t ELSE m
<1>1. Orderly(T) /\ s \in Nat /\ t \in Nat /\ t <= s /\ IsFiniteSet(S)
  BY AheadFacts, ShownInOrder DEF Orderly
<1>2. /\ p \in Seq(S) /\ Len(p) = s /\ \A i \in 1..s, x \in S : Cardinality(Ahead(S, x)) = i - 1 => p[i] = x
  <2>1. \A x \in S : LinesBefore(S)[x] = Ahead(S, x)
    BY AheadFacts
  <2>2. /\ p \in Seq(S) /\ Len(p) = s
        /\ \A i \in 1..s, x \in S : Cardinality(LinesBefore(S)[x]) = i - 1 => p[i] = x
    BY ShownInOrder
  <2> HIDE DEF p, s
  <2> QED BY <2>1, <2>2
<1>3. /\ q \in Seq(T) /\ Len(q) = t /\ q \in [1..t -> T] /\ \A i \in 1..t : Cardinality(Ahead(T, q[i])) = i - 1
  <2>1. /\ q \in Seq(T) /\ Len(q) = t /\ q \in [1..t -> T] /\ \A i \in 1..t : Cardinality(LinesBefore(T)[q[i]]) = i - 1
    BY <1>1, ShownInOrder
  <2> HIDE DEF q, t
  <2>2. \A x \in T : LinesBefore(T)[x] = Ahead(T, x)
    BY <1>1, AheadFacts
  <2> QED BY <2>1, <2>2
<1> HIDE DEF p, q
<1>4. \A x : Cardinality(Ahead(T, x)) \in Nat /\ Cardinality(Ahead(T, x)) <= t
  <2>1. \A x : Ahead(T, x) \subseteq T /\ IsFiniteSet(T)
    BY <1>1 DEF Ahead, Orderly
  <2> QED BY <2>1, <1>1, FS_Subset, FS_CardinalityType
<1>5. k \in Nat /\ k <= t /\ k <= m /\ k = IF s < m THEN s ELSE m
  <2>1. CASE T = S
    BY <1>1, <2>1
  <2>2. CASE T # S
    <3>1. PICK x \in S : x \notin T
      BY <2>2
    <3>2. m <= t
      BY <1>1, <1>4, <3>1
    <3> QED BY <1>1, <3>2
  <2> QED BY <2>1, <2>2
<1>6. ASSUME NEW i \in 1..k PROVE p[i] = q[i]
  <2> DEFINE x == q[i]
  <2>1. x \in T /\ x \in S /\ Cardinality(Ahead(T, x)) = i - 1 /\ i \in 1..t /\ i \in 1..s /\ i - 1 < m
    BY <1>1, <1>3, <1>5
  <2> HIDE DEF x
  <2>2. ASSUME NEW y \in S, LineBefore(y, x), y \notin T PROVE FALSE
    <3>1. m <= Cardinality(Ahead(T, y))
      BY <2>2
    <3>2. Ahead(T, y) \subseteq Ahead(T, x)
      <4>1. \A z \in T : LineBefore(z, y) => LineBefore(z, x)
        BY <2>1, <2>2, LinesAreOrdered
      <4> QED BY <4>1 DEF Ahead
    <3>3. Cardinality(Ahead(T, y)) <= Cardinality(Ahead(T, x))
      <4>1. IsFiniteSet(Ahead(T, x))
        BY <1>1, FS_Subset, AheadFacts
      <4> QED BY <4>1, <3>2, FS_Subset, FS_CardinalityType
    <3> QED BY <1>4, <2>1, <3>1, <3>3
  <2>3. Ahead(S, x) = Ahead(T, x)
    BY <2>2 DEF Ahead
  <2>4. p[i] = x
    BY <1>2, <2>1, <2>3
  <2> QED BY <2>4 DEF x
<1>7. Cut(p, m) = [i \in 1..k |-> p[i]]
  BY <1>2, <1>5, CutIs
<1>8. Cut(q, m) = [i \in 1..k |-> q[i]]
  BY <1>3, CutIs
<1> HIDE DEF k
<1>9. Cut(p, m) = Cut(q, m)
  BY <1>6, <1>7, <1>8
<1> QED BY <1>9 DEF p, q

(* The first m of a set have m lines before each other one.                *)
LEMMA TopKeeps ==
  ASSUME NEW S, Orderly(S), NEW U, U \subseteq S, NEW m \in Nat, m <= Cardinality(U),
         NEW x \in S, x \notin {y \in U : Cardinality(Ahead(U, y)) < m},
         x \in U \/ m <= Cardinality(Ahead(U, x))
  PROVE  {y \in U : Cardinality(Ahead(U, y)) < m} \subseteq Ahead(U, x)
<1> DEFINE K == {y \in U : Cardinality(Ahead(U, y)) < m}
<1>1. m <= Cardinality(Ahead(U, x)) /\ \A y : Cardinality(Ahead(U, y)) \in Nat /\ IsFiniteSet(Ahead(U, y))
  <2>1. \A y : Cardinality(Ahead(U, y)) \in Nat /\ IsFiniteSet(Ahead(U, y))
    BY AheadFacts
  <2> QED BY <2>1
<1>2. ASSUME NEW y \in K, y \notin Ahead(U, x) PROVE FALSE
  <2>1. y \in U /\ Cardinality(Ahead(U, y)) < m /\ x # y
    OBVIOUS
  <2>2. ~LineBefore(y, x)
    BY <1>2, <2>1 DEF Ahead
  <2>3. LineBefore(x, y)
    BY <2>1, <2>2, LinesAreOrdered
  <2>4. \A z \in U : LineBefore(z, x) => LineBefore(z, y)
    BY <2>1, <2>3, LinesAreOrdered
  <2>5. Ahead(U, x) \subseteq Ahead(U, y)
    BY <2>4 DEF Ahead
  <2>6. Cardinality(Ahead(U, x)) <= Cardinality(Ahead(U, y))
    BY <1>1, <2>5, FS_Subset
  <2> QED BY <1>1, <2>1, <2>6
<1> QED BY <1>2

(* There are m of them, and a cut takes them.                              *)
LEMMA TopIs ==
  ASSUME NEW U, Orderly(U), NEW m \in Nat, m <= Cardinality(U)
  PROVE  LET c == Cut(InOrder(LinesBefore(U)), m)
             K == {y \in U : Cardinality(Ahead(U, y)) < m}
         IN /\ c \in Seq(U) /\ Len(c) = m /\ Range(c) = K /\ IsInjective(c)
            /\ Cardinality(K) = m
<1> DEFINE q == InOrder(LinesBefore(U))
           n == Cardinality(U)
           c == Cut(q, m)
           K == {y \in U : Cardinality(Ahead(U, y)) < m}
<1>1. /\ n \in Nat /\ q \in Seq(U) /\ Len(q) = n /\ q \in [1..n -> U]
      /\ \A i, k \in 1..n : q[i] = q[k] => i = k
      /\ U = {q[i] : i \in 1..n}
      /\ \A i \in 1..n : Cardinality(Ahead(U, q[i])) = i - 1
  <2>1. \A x \in U : LinesBefore(U)[x] = Ahead(U, x)
    BY AheadFacts
  <2>2. /\ n \in Nat /\ q \in Seq(U) /\ Len(q) = n /\ q \in [1..n -> U]
        /\ \A i, k \in 1..n : q[i] = q[k] => i = k
        /\ U = {q[i] : i \in 1..n}
        /\ \A i \in 1..n : Cardinality(LinesBefore(U)[q[i]]) = i - 1
    BY ShownInOrder
  <2> HIDE DEF q, n
  <2> QED BY <2>1, <2>2
<1>2. m <= n
  OBVIOUS
<1> HIDE DEF q, n
<1>3. c \in Seq(U) /\ Len(c) = m /\ (\A i \in 1..m : c[i] = q[i])
  <2> DEFINE l == IF Len(q) < m THEN Len(q) ELSE m
  <2>1. c \in Seq(U) /\ Len(c) = l /\ (\A i \in 1..l : c[i] = q[i])
    <3>1. q \in Seq(U)
      BY <1>1
    <3> QED BY <3>1, CutIs, Zenon
  <2>2. l = m
    BY <1>1, <1>2
  <2> HIDE DEF l, c
  <2> QED BY <2>1, <2>2
<1> HIDE DEF c
<1>4. DOMAIN c = 1..m /\ \A i \in 1..m : i \in 1..n
  BY <1>1, <1>2, <1>3, LenProperties
<1>5. IsInjective(c)
  BY <1>1, <1>3, <1>4 DEF IsInjective
<1>6. Range(c) = {q[i] : i \in 1..m}
  BY <1>3, <1>4 DEF Range
<1>7. {q[i] : i \in 1..m} = K
  <2>1. ASSUME NEW i \in 1..m PROVE q[i] \in K
    <3>1. i \in 1..n /\ q[i] \in U /\ Cardinality(Ahead(U, q[i])) = i - 1 /\ i - 1 < m
      BY <1>1, <1>4
    <3> QED BY <3>1
  <2>2. ASSUME NEW y \in K PROVE \E i \in 1..m : y = q[i]
    <3>1. PICK i \in 1..n : y = q[i]
      BY <1>1
    <3>2. i - 1 < m
      BY <1>1, <3>1
    <3> QED BY <3>1, <3>2
  <2> QED BY <2>1, <2>2
<1>8. Cardinality({q[i] : i \in 1..m}) = m
  <2>1. IsFiniteSet(1..m) /\ Cardinality(1..m) = m
    BY FS_Interval
  <2> QED BY <1>1, <1>4, <2>1, ImageCount, SMTT(30)
<1> HIDE DEF K
<1> QED BY <1>3, <1>5, <1>6, <1>7, <1>8 DEF c, q, K

(* Sorting puts indices in order; lines that occur once come in theirs.    *)
IndicesBefore(q) ==
  [i \in DOMAIN q |-> {k \in DOMAIN q : \/ LineBefore(q[k], q[i])
                                        \/ ~LineBefore(q[i], q[k]) /\ k < i}]

LEMMA IndicesRank ==
  ASSUME NEW T, Orderly(T), NEW q \in Seq(T)
  PROVE  Ranks(IndicesBefore(q), DOMAIN q)
<1> DEFINE before == IndicesBefore(q)
           I == DOMAIN q
<1>1. before \in [I -> SUBSET I]
  BY DEF IndicesBefore
<1>2. \A i \in I : q[i] \in T /\ i \in Nat
  BY LenProperties, ElementOfSeq
<1>3. ASSUME NEW i \in I, NEW k \in I
      PROVE  k \in before[i] <=> LineBefore(q[k], q[i]) \/ (~LineBefore(q[i], q[k]) /\ k < i)
  <2>1. before[i] = {j \in I : LineBefore(q[j], q[i]) \/ (~LineBefore(q[i], q[j]) /\ j < i)}
    BY Zenon DEF IndicesBefore
  <2> QED BY <2>1
<1> HIDE DEF before, I
<1>4. ASSUME NEW i \in I, NEW k \in I
      PROVE  k \in before[i] <=> LineBefore(q[k], q[i]) \/ (q[k] = q[i] /\ k < i)
  BY <1>2, <1>3, LinesAreOrdered
<1>5. \A i \in I : i \notin before[i]
  BY <1>2, <1>4, LinesAreOrdered
<1>6. ASSUME NEW i \in I, NEW k \in I PROVE i = k \/ i \in before[k] \/ k \in before[i]
  <2>1. i \in Nat /\ k \in Nat /\ q[i] \in T /\ q[k] \in T
    BY <1>2
  <2>2. q[i] = q[k] \/ LineBefore(q[i], q[k]) \/ LineBefore(q[k], q[i])
    BY <2>1, LinesAreOrdered
  <2>3. i = k \/ i < k \/ k < i
    BY <2>1
  <2> QED BY <1>4, <2>2, <2>3, Zenon
<1>7. ASSUME NEW i \in I, NEW k \in I, i \in before[k] PROVE before[i] \subseteq before[k]
  <2>1. before[i] \subseteq I
    BY <1>1
  <2>2. ASSUME NEW j \in before[i] PROVE j \in before[k]
    <3>1. j \in I /\ q[i] \in T /\ q[k] \in T /\ q[j] \in T /\ i \in Nat /\ j \in Nat /\ k \in Nat
      BY <1>2, <2>1, <2>2
    <3>2. LineBefore(q[j], q[i]) \/ (q[j] = q[i] /\ j < i)
      BY <1>4, <2>2, <3>1
    <3>3. LineBefore(q[i], q[k]) \/ (q[i] = q[k] /\ i < k)
      BY <1>4, <1>7
    <3>4. LineBefore(q[j], q[k]) \/ (q[j] = q[k] /\ j < k)
      BY <3>1, <3>2, <3>3, LinesAreOrdered
    <3> QED BY <1>4, <3>1, <3>4
  <2> QED BY <2>2
<1>8. Ranks(before, I)
  BY <1>1, <1>5, <1>6, <1>7 DEF Ranks
<1> QED BY <1>8 DEF before, I

LEMMA SortedIs ==
  ASSUME NEW T, Orderly(T), NEW q \in Seq(T)
  PROVE  /\ Sorted(q) \in Seq(T) /\ Len(Sorted(q)) = Len(q)
         /\ IsInjective(q) => Sorted(q) = InOrder(LinesBefore(Range(q)))
<1> DEFINE before == IndicesBefore(q)
           n == Len(q)
           order == InOrder(before)
           s == [i \in DOMAIN q |-> q[order[i]]]
<1>1. n \in Nat /\ DOMAIN q = 1..n /\ (\A i \in 1..n : q[i] \in T) /\ IsFiniteSet(1..n) /\ Cardinality(1..n) = n
  <2>1. n \in Nat /\ DOMAIN q = 1..n /\ \A i \in 1..n : q[i] \in T
    BY LenProperties, ElementOfSeq
  <2>2. IsFiniteSet(1..n) /\ Cardinality(1..n) = n
    <3>1. n \in Int /\ 1 \in Int /\ (IF 1 > n THEN 0 ELSE n - 1 + 1) = n
      BY <2>1
    <3> HIDE DEF n
    <3> QED BY <3>1, FS_Interval
  <2> QED BY <2>1, <2>2
<1>2. Sorted(q) = s
  BY DEF Sorted, IndicesBefore
<1>3. Ranks(before, 1..n) /\ DOMAIN before = 1..n
  BY <1>1, IndicesRank DEF IndicesBefore
<1>4. ASSUME NEW i \in 1..n, NEW k \in 1..n
      PROVE  k \in before[i] <=> LineBefore(q[k], q[i]) \/ (~LineBefore(q[i], q[k]) /\ k < i)
  <2>1. DOMAIN q = 1..n
    BY <1>1
  <2> HIDE DEF n
  <2>2. before[i] = {j \in 1..n : LineBefore(q[j], q[i]) \/ (~LineBefore(q[i], q[j]) /\ j < i)}
    BY <2>1, Zenon DEF IndicesBefore
  <2> QED BY <2>2
<1> HIDE DEF before, n
<1>5. order = Enumeration(before, 1..n)
  BY <1>1, <1>3 DEF InOrder, Enumeration
<1>6. order \in [1..n -> 1..n] /\ \A i \in 1..n : Cardinality(before[order[i]]) = i - 1
  <2>1. LET o == Enumeration(before, 1..n)
        IN o \in [1..n -> 1..n] /\ \A i \in 1..n : Cardinality(before[o[i]]) = i - 1
    BY <1>1, <1>3, SortedEnumerates, ZenonT(40)
  <2> QED BY <1>5, <2>1
<1> HIDE DEF order
<1>7. s \in [1..n -> T]
  BY <1>1, <1>6
<1>8. s \in Seq(T) /\ Len(s) = n
  <2>1. s \in Seq(T)
    BY <1>1, <1>7, FunIsSeq
  <2>2. DOMAIN s = 1..n /\ DOMAIN s = 1..Len(s) /\ Len(s) \in Nat
    BY <1>7, <2>1, LenProperties
  <2> QED BY <1>1, <2>1, <2>2
<1>9. ASSUME IsInjective(q) PROVE s = InOrder(LinesBefore(Range(q)))
  <2> DEFINE R == Range(q)
             p == InOrder(LinesBefore(R))
  <2>1. R \subseteq T /\ R = {q[i] : i \in 1..n} /\ \A i, k \in 1..n : q[i] = q[k] => i = k
    BY <1>1, <1>9 DEF Range, IsInjective
  <2>2. Orderly(R) /\ Cardinality(R) = n
    <3>1. Cardinality(R) = n
      BY <1>1, <2>1, ImageCount
    <3> HIDE DEF R
    <3> QED BY <2>1, <3>1, AheadFacts
  <2> HIDE DEF R
  <2>3. /\ p \in [1..n -> R]
        /\ \A i \in 1..n, x \in R : Cardinality(LinesBefore(R)[x]) = i - 1 => p[i] = x
    BY <2>2, ShownInOrder
  <2> HIDE DEF p
  <2>4. ASSUME NEW i \in 1..n PROVE s[i] = p[i]
    <3> DEFINE j == order[i]
    <3>1. j \in 1..n /\ Cardinality(before[j]) = i - 1 /\ q[j] \in R
      BY <1>6, <2>1
    <3> HIDE DEF j
    <3>2. before[j] \subseteq 1..n
      BY <1>3, <3>1 DEF Ranks
    <3>3. ASSUME NEW k \in 1..n PROVE k \in before[j] <=> LineBefore(q[k], q[j])
      <4>1. k = j \/ q[k] # q[j]
        BY <2>1, <3>1
      <4>2. q[k] \in T /\ q[j] \in T /\ k \in Nat
        BY <1>1, <3>1
      <4>3. k \in before[j] <=> LineBefore(q[k], q[j]) \/ (~LineBefore(q[j], q[k]) /\ k < j)
        BY <1>4, <3>1
      <4>4. LineBefore(q[k], q[j]) \/ LineBefore(q[j], q[k]) \/ k = j
        BY <4>1, <4>2, LinesAreOrdered
      <4>5. ~(k < j) \/ k # j
        BY <4>2, <1>1, <3>1
      <4>6. ~LineBefore(q[j], q[j])
        BY <4>2, LinesAreOrdered
      <4> QED BY <4>3, <4>4, <4>5, <4>6, Zenon
    <3>4. LinesBefore(R)[q[j]] = {q[k] : k \in before[j]}
      <4>1. LinesBefore(R)[q[j]] = {y \in R : LineBefore(y, q[j])}
        BY <3>1 DEF LinesBefore
      <4>2. ASSUME NEW y \in R PROVE LineBefore(y, q[j]) <=> \E k \in before[j] : y = q[k]
        <5>1. PICK k \in 1..n : y = q[k]
          BY <2>1
        <5> QED BY <2>1, <3>2, <3>3, <5>1
      <4>3. \A k \in before[j] : q[k] \in R
        BY <2>1, <3>2
      <4> QED BY <4>1, <4>2, <4>3
    <3>5. Cardinality({q[k] : k \in before[j]}) = Cardinality(before[j])
      <4>1. IsFiniteSet(before[j])
        BY <1>1, <3>2, FS_Subset
      <4>2. \A i_1, i_2 \in before[j] : q[i_1] = q[i_2] => i_1 = i_2
        BY <2>1, <3>2
      <4> QED BY <4>1, <4>2, ImageCount
    <3>6. p[i] = q[j]
      BY <2>3, <3>1, <3>4, <3>5
    <3> QED BY <1>1, <3>6 DEF j
  <2>5. s = p
    BY <1>1, <1>7, <2>3, <2>4
  <2> QED BY <2>5 DEF p, R
<1> QED BY <1>2, <1>8, <1>9 DEF n

-----------------------------------------------------------------------------
(* The lines of a list that is cut: the top is enough.                     *)

(* What is kept of T: each line once, and MaxRows before each other one.   *)
Retains(q, T) ==
  /\ q \in Seq(T) /\ IsInjective(q)
  /\ \A x \in T \ Range(q) : MaxRows <= Cardinality(Ahead(Range(q), x))

LEMMA PushIsSeq ==
  ASSUME NEW S, Orderly(S), NEW q \in Seq(S), NEW x \in S
  PROVE  Push(q, x) \in Seq(S)
<1> DEFINE all == Append(q, x)
<1>1. all \in Seq(S)
  BY AppendIs
<1>2. Push(q, x) = IF Len(all) = 2 * MaxRows THEN Cut(Sorted(all), MaxRows) ELSE all
  BY DEF Push
<1> HIDE DEF all
<1>3. Sorted(all) \in Seq(S) /\ MaxRows \in Nat
  BY <1>1, SortedIs, ComparisonAssumption
<1>4. Cut(Sorted(all), MaxRows) \in Seq(S)
  BY <1>3, CutIs
<1> QED BY <1>1, <1>2, <1>4

(* A cut keeps what there is to keep.                                      *)
LEMMA CutRetains ==
  ASSUME NEW T, Orderly(T), NEW q, Retains(q, T), Len(q) = 2 * MaxRows
  PROVE  Retains(Cut(Sorted(q), MaxRows), T)
<1> DEFINE U == Range(q)
           c == Cut(Sorted(q), MaxRows)
           K == {y \in U : Cardinality(Ahead(U, y)) < MaxRows}
<1>1. q \in Seq(T) /\ IsInjective(q) /\ MaxRows \in Nat
  BY ComparisonAssumption DEF Retains
<1>2. U \subseteq T /\ Len(q) \in Nat /\ DOMAIN q = 1..Len(q)
  BY <1>1, RangeDef
<1>3. Cardinality(U) = Len(q)
  <2>1. IsFiniteSet(1..Len(q)) /\ Cardinality(1..Len(q)) = Len(q)
    <3> DEFINE n == Len(q)
    <3>1. n \in Int /\ 1 \in Int /\ (IF 1 > n THEN 0 ELSE n - 1 + 1) = n
      BY <1>2
    <3> HIDE DEF n
    <3>2. IsFiniteSet(1..n) /\ Cardinality(1..n) = n
      BY <3>1, FS_Interval
    <3> QED BY <3>2 DEF n
  <2>2. U = {q[i] : i \in 1..Len(q)} /\ \A i, k \in 1..Len(q) : q[i] = q[k] => i = k
    BY <1>1, <1>2 DEF Range, IsInjective
  <2> HIDE DEF U
  <2> QED BY <2>1, <2>2, ImageCount
<1>4. Sorted(q) = InOrder(LinesBefore(U))
  BY <1>1, SortedIs
<1>5. Orderly(U) /\ MaxRows <= Cardinality(U)
  BY <1>1, <1>2, <1>3, AheadFacts
<1> HIDE DEF U
<1>6. c \in Seq(U) /\ Range(c) = K /\ IsInjective(c) /\ Cardinality(K) = MaxRows
  <2>1. LET d == Cut(InOrder(LinesBefore(U)), MaxRows)
        IN d \in Seq(U) /\ Range(d) = K /\ IsInjective(d) /\ Cardinality(K) = MaxRows
    BY <1>1, <1>5, TopIs
  <2> QED BY <1>4, <2>1
<1> HIDE DEF c
<1>7. c \in Seq(T)
  BY <1>2, <1>6, SeqMonotonic
<1>8. ASSUME NEW x \in T \ K PROVE MaxRows <= Cardinality(Ahead(K, x))
  <2>1. x \in U \/ MaxRows <= Cardinality(Ahead(U, x))
    BY DEF Retains, U
  <2>2. K \subseteq Ahead(U, x)
    BY <1>1, <1>2, <1>5, <1>8, <2>1, TopKeeps
  <2> HIDE DEF K
  <2>3. Ahead(K, x) = K
    BY <2>2 DEF Ahead
  <2> QED BY <1>1, <1>6, <2>3
<1> QED BY <1>6, <1>7, <1>8 DEF Retains, c

LEMMA AppendRetains ==
  ASSUME NEW S, Orderly(S), NEW T, NEW q, Retains(q, T), NEW x, x \notin T, S = T \cup {x}
  PROVE  Retains(Append(q, x), S)
<1> DEFINE a == Append(q, x)
<1>1. q \in Seq(T) /\ IsInjective(q) /\ MaxRows \in Nat
  BY ComparisonAssumption DEF Retains
<1>2. q \in Seq(S) /\ Range(q) \subseteq T
  BY <1>1, SeqMonotonic, RangeDef
<1>3. a \in Seq(S) /\ Range(a) = Range(q) \cup {x} /\ IsInjective(a)
  BY <1>1, <1>2, AppendIs
<1> HIDE DEF a
<1>4. ASSUME NEW y \in S \ Range(a) PROVE MaxRows <= Cardinality(Ahead(Range(a), y))
  <2>1. y \in T \ Range(q)
    BY <1>3
  <2>2. MaxRows <= Cardinality(Ahead(Range(q), y))
    BY <2>1 DEF Retains
  <2>3. Range(q) \subseteq Range(a) /\ Range(a) \subseteq S
    BY <1>2, <1>3
  <2>4. Orderly(Range(a))
    BY <2>3, AheadFacts
  <2>5. /\ Cardinality(Ahead(Range(q), y)) <= Cardinality(Ahead(Range(a), y))
        /\ Cardinality(Ahead(Range(q), y)) \in Nat
    BY <2>3, <2>4, AheadFacts
  <2>6. Cardinality(Ahead(Range(a), y)) \in Nat
    BY <2>4, AheadFacts
  <2> QED BY <1>1, <2>2, <2>5, <2>6
<1> QED BY <1>3, <1>4 DEF Retains, a

LEMMA PushRetains ==
  ASSUME NEW S, Orderly(S), NEW T, NEW q, Retains(q, T), NEW x, x \notin T, S = T \cup {x}
  PROVE  Retains(Push(q, x), S)
<1> DEFINE a == Append(q, x)
<1>1. Push(q, x) = IF Len(a) = 2 * MaxRows THEN Cut(Sorted(a), MaxRows) ELSE a
  BY DEF Push
<1>2. Retains(a, S)
  BY AppendRetains
<1> HIDE DEF a
<1>3. Len(a) = 2 * MaxRows => Retains(Cut(Sorted(a), MaxRows), S)
  BY <1>2, CutRetains
<1> QED BY <1>1, <1>2, <1>3

(* Two parts that were kept are kept together.                             *)
LEMMA JoinRetains ==
  ASSUME NEW S, Orderly(S), NEW T, NEW L, T \cap L = {}, S = T \cup L,
         NEW q, Retains(q, T), NEW r, Retains(r, L)
  PROVE  Retains(q \o r, S)
<1> DEFINE a == q \o r
<1>1. q \in Seq(T) /\ IsInjective(q) /\ r \in Seq(L) /\ IsInjective(r) /\ MaxRows \in Nat
  BY ComparisonAssumption DEF Retains
<1>2. q \in Seq(S) /\ Range(q) \subseteq T /\ r \in Seq(S) /\ Range(r) \subseteq L
  BY <1>1, SeqMonotonic, RangeDef
<1>3. a \in Seq(S) /\ Range(a) = Range(q) \cup Range(r) /\ IsInjective(a)
  <2>1. Range(q) \cap Range(r) = {}
    BY <1>2
  <2> QED BY <1>1, <1>2, <2>1, ConcatRange
<1> HIDE DEF a
<1>4. Orderly(Range(a)) /\ Range(q) \subseteq Range(a) /\ Range(r) \subseteq Range(a)
  <2>1. Range(a) \subseteq S
    BY <1>2, <1>3
  <2> QED BY <1>3, <2>1, AheadFacts
<1>5. \A x, U : U \subseteq Range(a) => /\ Cardinality(Ahead(U, x)) <= Cardinality(Ahead(Range(a), x))
                                        /\ Cardinality(Ahead(U, x)) \in Nat
                                        /\ Cardinality(Ahead(Range(a), x)) \in Nat
  BY <1>4, AheadFacts
<1>6. ASSUME NEW x \in S \ Range(a) PROVE MaxRows <= Cardinality(Ahead(Range(a), x))
  <2>1. CASE x \in T
    <3>1. MaxRows <= Cardinality(Ahead(Range(q), x))
      BY <1>3, <1>6, <2>1 DEF Retains
    <3> QED BY <1>1, <1>4, <1>5, <3>1
  <2>2. CASE x \in L
    <3>1. MaxRows <= Cardinality(Ahead(Range(r), x))
      BY <1>3, <1>6, <2>2 DEF Retains
    <3> QED BY <1>1, <1>4, <1>5, <3>1
  <2> QED BY <2>1, <2>2
<1> QED BY <1>3, <1>6 DEF Retains, a

(* What is kept shows what all lines would.                                *)
LEMMA KeptIsEnough ==
  ASSUME NEW T, Orderly(T), NEW q, Retains(q, T)
  PROVE  Cut(Sorted(q), MaxRows) = Cut(InOrder(LinesBefore(T)), MaxRows)
<1>1. q \in Seq(T) /\ IsInjective(q) /\ MaxRows \in Nat
  BY ComparisonAssumption DEF Retains
<1>2. Range(q) \subseteq T
  BY <1>1, RangeDef
<1>3. Sorted(q) = InOrder(LinesBefore(Range(q)))
  BY <1>1, SortedIs
<1>4. \A x \in T \ Range(q) : MaxRows <= Cardinality(Ahead(Range(q), x))
  BY DEF Retains
<1>5. Cut(InOrder(LinesBefore(T)), MaxRows) = Cut(InOrder(LinesBefore(Range(q))), MaxRows)
  BY <1>1, <1>2, <1>4, TopIsEnough
<1> QED BY <1>3, <1>5

LEMMA FoldRetains ==
  ASSUME NEW S, Orderly(S), NEW T, NEW q, Retains(q, T), NEW p \in Seq(S), IsInjective(p),
         Range(p) \cap T = {}, S = T \cup Range(p)
  PROVE  Retains(FoldLeft(Push, q, p), S)
<1> DEFINE n == Len(p)
           V == Seq(S)
           H == [x \in (1..n) \X V |-> Push(x[2], p[x[1]])]
           Step(g, s) == IF s = {} THEN q ELSE Push(g[s \ {Max(s)}], p[Max(s)])
           IsIter(g) == g = [s \in SUBSET (1..n) |-> Step(g, s)]
           iter == CHOOSE g : IsIter(g)
<1>1. /\ n \in Nat /\ DOMAIN p = 1..n
      /\ \A k \in 1..n : p[k] \in S
  BY LenProperties, ElementOfSeq
<1>2. q \in V /\ \A r \in V, x \in S : Push(r, x) \in V
  <2>1. q \in Seq(T) /\ T \subseteq S
    BY DEF Retains
  <2> QED BY <2>1, SeqMonotonic, PushIsSeq
<1>3. FoldLeft(Push, q, p) = iter[1..n]
  BY <1>1 DEF FoldLeft, MapThenFoldSet
<1> HIDE DEF V
<1>4. H \in [(1..n) \X V -> V]
  BY <1>1, <1>2
<1>5. \E g \in [SUBSET (1..n) -> V] : IsIter(g)
  <2>1. PICK g \in [SUBSET (1..n) -> V] : \A s \in SUBSET (1..n) :
             g[s] = IF s = {} THEN q ELSE H[<<Max(s), g[s \ {Max(s)}]>>]
    <3>1. HasPrefixRecursion(n, V, q, H)
      <4> HIDE DEF H, n
      <4> QED BY <1>1, <1>2, <1>4, RecursionOnPrefixes
    <3> HIDE DEF H
    <3> QED BY <3>1 DEF HasPrefixRecursion
  <2>2. ASSUME NEW s \in SUBSET (1..n)
        PROVE  g[s] = Step(g, s)
    <3> HIDE DEF n
    <3>1. CASE s = {}
      BY <2>1, <3>1
    <3>2. CASE s # {}
      <4>1. Max(s) \in 1..n
        BY <1>1, <3>2, MaxOfIndices
      <4> QED BY <2>1, <3>2, <4>1
    <3> QED BY <3>1, <3>2
  <2> HIDE DEF Step
  <2> QED BY <2>2
<1>6. IsIter(iter)
  <2> HIDE DEF IsIter
  <2> QED BY <1>5
<1>7. iter[{}] = q /\ \A k \in 1..n : iter[1..k] = Push(iter[1..k-1], p[k])
  <2> HIDE DEF iter, n
  <2>1. \A s \in SUBSET (1..n) : iter[s] = Step(iter, s)
    BY <1>6
  <2> QED BY <1>1, <2>1, PrefixMax
<1> HIDE DEF iter
<1> DEFINE Pushed(k) == T \cup {p[i] : i \in 1..k}
           Good == {k \in 0..n : Retains(iter[1..k], Pushed(k))}
<1>8. 0 \in Good
  <2>1. 1..0 = {} /\ 0 \in 0..n
    BY <1>1
  <2>2. Pushed(0) = T
    BY <2>1
  <2> QED BY <1>7, <2>1, <2>2
<1>9. ASSUME NEW k \in 1..n, k - 1 \in Good PROVE k \in Good
  <2>1. Retains(iter[1..k-1], Pushed(k - 1)) /\ k \in 0..n
    BY <1>1, <1>9
  <2>2. 1..k = 1..(k - 1) \cup {k} /\ \A i \in 1..k : i \in 1..n
    BY <1>1
  <2>3. Pushed(k) = Pushed(k - 1) \cup {p[k]}
    BY <2>2
  <2>4. Pushed(k) \subseteq S
    BY <1>1, <2>2
  <2>5. p[k] \notin Pushed(k - 1)
    <3>1. p[k] \notin T
      BY <1>1 DEF Range
    <3>2. \A i \in 1..(k - 1) : i \in 1..n /\ i # k
      BY <1>1
    <3>3. \A i \in 1..(k - 1) : p[i] # p[k]
      BY <1>1, <3>2 DEF IsInjective
    <3> QED BY <3>1, <3>3
  <2> HIDE DEF Pushed
  <2>6. Orderly(Pushed(k))
    BY <2>4, AheadFacts
  <2>7. Retains(Push(iter[1..k-1], p[k]), Pushed(k))
    BY <2>1, <2>3, <2>5, <2>6, PushRetains
  <2> QED BY <1>7, <2>1, <2>7
<1>10. n \in Good
  <2> HIDE DEF Good
  <2>1. \A k \in 0..n : k \in Good
    BY <1>1, <1>8, <1>9, InductionUpTo
  <2> QED BY <1>1, <2>1
<1>11. Pushed(n) = S
  BY <1>1 DEF Range
<1> HIDE DEF Pushed
<1> QED BY <1>3, <1>10, <1>11

(* A map gives each identity once.                                         *)
LEMMA IdentitiesInOrder ==
  ASSUME NEW ids, IsFiniteSet(ids), ids \subseteq Urls \X Nat
  PROVE  LET q == IdentityOrder(ids)
         IN /\ q \in [1..Cardinality(ids) -> ids] /\ Cardinality(ids) \in Nat
            /\ \A i, k \in 1..Cardinality(ids) : q[i] = q[k] => i = k
            /\ ids = {q[i] : i \in 1..Cardinality(ids)}
<1> DEFINE before == [x \in ids |-> {y \in ids : \/ UrlRank(y[1]) < UrlRank(x[1])
                                                 \/ y[1] = x[1] /\ y[2] < x[2]}]
           q == IdentityOrder(ids)
<1>1. before \in [ids -> SUBSET ids] /\ DOMAIN before = ids
  OBVIOUS
<1>2. \A x \in ids : UrlRank(x[1]) \in Nat /\ x[2] \in Nat /\ x = <<x[1], x[2]>>
  BY UrlsAreRanked
<1>3. \A x, y \in ids : UrlRank(x[1]) = UrlRank(y[1]) <=> x[1] = y[1]
  BY UrlsAreRanked
<1>4. ASSUME NEW x \in ids, NEW y \in ids
      PROVE  y \in before[x] <=> \/ UrlRank(y[1]) < UrlRank(x[1])
                                 \/ UrlRank(y[1]) = UrlRank(x[1]) /\ y[2] < x[2]
  BY <1>3
<1>5. q = InOrder(before)
  BY DEF IdentityOrder
<1> HIDE DEF before
<1>6. \A x, y \in ids : x = y \/ x \in before[y] \/ y \in before[x]
  <2> SUFFICES ASSUME NEW x \in ids, NEW y \in ids PROVE x = y \/ x \in before[y] \/ y \in before[x]
    OBVIOUS
  <2>1. UrlRank(x[1]) = UrlRank(y[1]) /\ x[2] = y[2] => x = y
    BY <1>2, <1>3
  <2> QED BY <1>2, <1>4, <2>1
<1>7. \A x \in ids : x \notin before[x]
  BY <1>2, <1>4
<1>8. ASSUME NEW x \in ids, NEW y \in ids, x \in before[y] PROVE before[x] \subseteq before[y]
  <2>1. before[x] \subseteq ids
    BY <1>1
  <2>2. ASSUME NEW z \in before[x] PROVE z \in before[y]
    BY <1>2, <1>4, <1>8, <2>1, <2>2
  <2> QED BY <2>2
<1>9. Ranks(before, ids)
  BY <1>1, <1>6, <1>7, <1>8 DEF Ranks
<1>10. q = Enumeration(before, ids)
  BY <1>1, <1>5 DEF InOrder, Enumeration
<1> HIDE DEF q
<1>11. /\ q \in [1..Cardinality(ids) -> ids]
       /\ \A i, k \in 1..Cardinality(ids) : q[i] = q[k] => i = k
       /\ ids = {q[i] : i \in 1..Cardinality(ids)}
  <2> DEFINE e == Enumeration(before, ids)
  <2>1. /\ e \in [1..Cardinality(ids) -> ids]
        /\ \A i, k \in 1..Cardinality(ids) : e[i] = e[k] => i = k
        /\ ids = {e[i] : i \in 1..Cardinality(ids)}
    BY <1>9, SortedEnumerates, SMTT(30)
  <2> QED BY <1>10, <2>1
<1>12. Cardinality(ids) \in Nat
  BY FS_CardinalityType
<1> QED BY <1>11, <1>12 DEF q

(* The lines of a set of identities, and what is kept of them.             *)
LinesOf(before, after, ids) == {LineOf(before, after, id) : id \in ids}

LEMMA LineIsPlaced ==
  ASSUME NEW before, NEW after, NEW id
  PROVE  LineOf(before, after, id).url = id[1] /\ LineOf(before, after, id).occurrence = id[2]
BY DEF LineOf, Line

LEMMA LinesAreOrderly ==
  ASSUME NEW before, NEW after, NEW ids, IsFiniteSet(ids), ids \subseteq Urls \X Nat
  PROVE  /\ Orderly(LinesOf(before, after, ids))
         /\ \A i, k \in ids : LineOf(before, after, i) = LineOf(before, after, k) => i = k
<1> DEFINE q == [id \in ids |-> LineOf(before, after, id)]
<1>1. \A id \in ids : id[1] \in Urls /\ id[2] \in Nat /\ id = <<id[1], id[2]>>
  OBVIOUS
<1>2. \A id \in ids : q[id].url = id[1] /\ q[id].occurrence = id[2]
  BY LineIsPlaced
<1>3. LinesOf(before, after, ids) = {q[id] : id \in ids} /\ \A id \in ids : LineOf(before, after, id) = q[id]
  BY DEF LinesOf
<1>4. q \in Surjection(ids, {q[id] : id \in ids})
  BY DEF Surjection
<1> HIDE DEF q
<1>5. IsFiniteSet({q[id] : id \in ids})
  BY <1>4, FS_Surjection
<1>6. \A i, k \in ids : q[i].url = q[k].url /\ q[i].occurrence = q[k].occurrence => i = k
  BY <1>1, <1>2
<1> QED BY <1>1, <1>2, <1>3, <1>5, <1>6 DEF Orderly

LEMMA PushAllRetains ==
  ASSUME NEW before, NEW after, NEW ids, IsFiniteSet(ids), ids \subseteq Urls \X Nat,
         NEW done \in SUBSET ids, NEW more \in SUBSET ids, done \cap more = {},
         NEW q, Retains(q, LinesOf(before, after, done))
  PROVE  Retains(PushAll(q, before, after, more), LinesOf(before, after, done \cup more))
<1> DEFINE order == IdentityOrder(more)
           n == Cardinality(more)
           p == [i \in DOMAIN order |-> LineOf(before, after, order[i])]
           T == LinesOf(before, after, done)
           S == LinesOf(before, after, done \cup more)
<1>1. PushAll(q, before, after, more) = FoldLeft(Push, q, p)
  BY DEF PushAll
<1>2. IsFiniteSet(more) /\ more \subseteq Urls \X Nat /\ IsFiniteSet(done \cup more) /\ done \cup more \subseteq Urls \X Nat
  BY FS_Subset
<1>3. /\ order \in [1..n -> more] /\ n \in Nat /\ DOMAIN order = 1..n
      /\ \A i, k \in 1..n : order[i] = order[k] => i = k
      /\ more = {order[i] : i \in 1..n}
  BY <1>2, IdentitiesInOrder
<1>4. Orderly(S) /\ \A i, k \in done \cup more : LineOf(before, after, i) = LineOf(before, after, k) => i = k
  BY <1>2, LinesAreOrderly
<1> HIDE DEF order
<1>5. \A i \in 1..n : p[i] = LineOf(before, after, order[i]) /\ p[i] \in S
  BY <1>3 DEF LinesOf
<1>6. p \in Seq(S) /\ DOMAIN p = 1..n
  <2>1. p \in [1..n -> S] /\ DOMAIN p = 1..n
    BY <1>3, <1>5
  <2> HIDE DEF p, S, n
  <2> QED BY <1>3, <2>1, FunIsSeq
<1> HIDE DEF p, n
<1>7. IsInjective(p)
  <2>1. ASSUME NEW i \in 1..n, NEW k \in 1..n, p[i] = p[k] PROVE i = k
    <3>1. order[i] \in done \cup more /\ order[k] \in done \cup more
      BY <1>3
    <3>2. order[i] = order[k]
      BY <1>4, <1>5, <2>1, <3>1
    <3> QED BY <1>3, <3>2
  <2> QED BY <1>6, <2>1 DEF IsInjective
<1>8. Range(p) = LinesOf(before, after, more)
  <2>1. Range(p) = {p[i] : i \in 1..n}
    BY <1>6 DEF Range
  <2>2. ASSUME NEW i \in 1..n PROVE p[i] \in LinesOf(before, after, more)
    BY <1>3, <1>5 DEF LinesOf
  <2>3. ASSUME NEW id \in more PROVE LineOf(before, after, id) \in {p[i] : i \in 1..n}
    <3>1. PICK i \in 1..n : id = order[i]
      BY <1>3
    <3> QED BY <1>5, <3>1
  <2> QED BY <2>1, <2>2, <2>3 DEF LinesOf
<1>9. Range(p) \cap T = {}
  BY <1>4, <1>8 DEF LinesOf
<1>10. S = T \cup Range(p)
  BY <1>8 DEF LinesOf
<1> HIDE DEF S, T
<1>11. Retains(q, T)
  BY DEF T
<1>12. Retains(FoldLeft(Push, q, p), S)
  BY <1>4, <1>6, <1>7, <1>9, <1>10, <1>11, FoldRetains
<1> QED BY <1>1, <1>12 DEF S

(* Both ways list the pages of a view.                                     *)
LEMMA SizesAgree ==
  ASSUME NEW rows, \A i \in DOMAIN rows : Typed(rows[i].record), NEW view \in DeltaViews
  PROVE  LET all == Records(rows)
         IN Cardinality(Among(all, LAMBDA r : Counted(view, all, r))) = SqlSize(view, rows)
<1> DEFINE all == Records(rows)
           I == DOMAIN all
           pages == SqlAmong(all, SqlPage)
           group(column) == {i \in pages : Cardinality({k \in pages : column[k] = column[i]}) > 1}
           key == [i \in I |-> Key(all[i].text[view.of].value)]
           cluster == [i \in I |-> all[i].cluster]
           listed == {i \in I : Counted(view, all, all[i])}
           sql == CASE view.kind = "broken"         -> SqlAmong(all, SqlBroken)
                    [] view.kind = "missing"        -> {i \in pages : key[i] = ""}
                    [] view.kind = "duplicate"      -> {i \in group(key) : key[i] # ""}
                    [] view.kind = "near duplicate" -> {i \in group(cluster) : cluster[i] # None}
<1>1. \A i \in I : Typed(all[i])
  BY DEF Records
<1>2. Among(all, LAMBDA r : Counted(view, all, r)) = listed
  BY DEF Among
<1>3. SqlSize(view, rows) = Cardinality(sql)
  BY DEF SqlSize
<1> HIDE DEF all
<1>4. \A i : i \in pages <=> i \in I /\ IsPage(all[i])
  <2>1. pages = {i \in I : Holds(SqlPage(all[i]))}
    BY Zenon DEF SqlAmong
  <2>2. \A i \in I : Holds(SqlPage(all[i])) <=> IsPage(all[i])
    BY <1>1, PageMeans
  <2> QED BY <2>1, <2>2
<1>5. \A i : i \in SqlAmong(all, SqlBroken) <=> i \in I /\ IsBroken(all[i])
  <2>1. SqlAmong(all, SqlBroken) = {i \in I : Holds(SqlBroken(all[i]))}
    BY Zenon DEF SqlAmong
  <2>2. \A i \in I : Holds(SqlBroken(all[i])) <=> IsBroken(all[i])
    BY <1>1, BrokenMeans
  <2> QED BY <2>1, <2>2
<1>6. \A i \in I : key[i] = Key(all[i].text[view.of].value) /\ cluster[i] = all[i].cluster
  OBVIOUS
<1> HIDE DEF pages, key, cluster, I
<1>7. CASE view.kind = "broken"
  <2>1. ASSUME NEW i \in I PROVE Counted(view, all, all[i]) <=> IsBroken(all[i])
    BY <1>7 DEF Counted, InMemory, OfPages, RecordViews
  <2>2. listed = {i \in I : IsBroken(all[i])}
    BY <2>1
  <2>3. sql = SqlAmong(all, SqlBroken)
    BY <1>7
  <2> HIDE DEF sql, listed
  <2>4. listed = sql
    BY <1>5, <2>2, <2>3
  <2> QED BY <1>2, <1>3, <2>4 DEF all
<1>8. CASE view.kind = "missing"
  <2>1. ASSUME NEW i \in I PROVE Counted(view, all, all[i]) <=> IsPage(all[i]) /\ Key(all[i].text[view.of].value) = ""
    BY <1>8 DEF Counted, OfPages, RecordViews
  <2>2. listed = {i \in I : IsPage(all[i]) /\ key[i] = ""}
    BY <1>6, <2>1
  <2>3. sql = {i \in pages : key[i] = ""}
    BY <1>8
  <2> HIDE DEF sql, listed
  <2>4. listed = sql
    BY <1>4, <2>2, <2>3
  <2> QED BY <1>2, <1>3, <2>4 DEF all
<1>9. CASE view.kind = "duplicate"
  <2>1. ASSUME NEW i \in I
        PROVE  Counted(view, all, all[i]) <=>
                 /\ IsPage(all[i]) /\ key[i] # ""
                 /\ Cardinality(SameKey(all, view.of, key[i])) > 1
    <3>1. Counted(view, all, all[i]) <=> IsPage(all[i]) /\ Key(all[i].text[view.of].value) # ""
                                           /\ Duplicated(all, all[i], view.of)
      BY <1>9 DEF Counted, OfPages, RecordViews
    <3>2. Duplicated(all, all[i], view.of) <=> key[i] # "" /\ Cardinality(SameKey(all, view.of, key[i])) > 1
      BY <1>6, Zenon DEF Duplicated
    <3> QED BY <1>6, <3>1, <3>2
  <2>2. \A v : SameKey(all, view.of, v) = {k \in pages : key[k] = v}
    <3>1. \A v : SameKey(all, view.of, v) = {k \in I : IsPage(all[k]) /\ Key(all[k].text[view.of].value) = v}
      BY DEF SameKey, Among, I
    <3> QED BY <1>4, <1>6, <3>1
  <2>3. listed = {i \in I : /\ IsPage(all[i]) /\ key[i] # ""
                            /\ Cardinality({k \in pages : key[k] = key[i]}) > 1}
    BY <2>1, <2>2
  <2>4. sql = {i \in group(key) : key[i] # ""}
    BY <1>9
  <2> HIDE DEF sql, listed
  <2>5. listed = sql
    BY <1>4, <2>3, <2>4
  <2> QED BY <1>2, <1>3, <2>5 DEF all
<1>10. CASE view.kind = "near duplicate"
  <2>1. ASSUME NEW i \in I
        PROVE  Counted(view, all, all[i]) <=>
                 /\ IsPage(all[i]) /\ cluster[i] # None
                 /\ Cardinality(SameCluster(all, cluster[i])) > 1
    <3>1. Counted(view, all, all[i]) <=> IsPage(all[i]) /\ InCluster(all, all[i])
      BY <1>10 DEF Counted, InMemory, OfPages, RecordViews
    <3>2. InCluster(all, all[i]) <=> cluster[i] # None /\ Cardinality(SameCluster(all, cluster[i])) > 1
      BY <1>6, Zenon DEF InCluster
    <3> QED BY <3>1, <3>2
  <2>2. \A v : SameCluster(all, v) = {k \in pages : cluster[k] = v}
    <3>1. \A v : SameCluster(all, v) = {k \in I : IsPage(all[k]) /\ all[k].cluster = v}
      BY DEF SameCluster, Among, I
    <3> QED BY <1>4, <1>6, <3>1
  <2>3. listed = {i \in I : /\ IsPage(all[i]) /\ cluster[i] # None
                            /\ Cardinality({k \in pages : cluster[k] = cluster[i]}) > 1}
    BY <2>1, <2>2
  <2>4. sql = {i \in group(cluster) : cluster[i] # None}
    BY <1>10
  <2> HIDE DEF sql, listed
  <2>5. listed = sql
    BY <1>4, <2>3, <2>4
  <2> QED BY <1>2, <1>3, <2>5 DEF all
<1>11. view.kind \in {"broken", "missing", "duplicate", "near duplicate"}
  <2>1. \A kind, e : View(kind, e).kind = kind
    BY DEF View
  <2> QED BY <2>1 DEF DeltaViews
<1> QED BY <1>7, <1>8, <1>9, <1>10, <1>11

(* Nothing is kept of nothing.                                             *)
LEMMA EmptyRetains == Retains(<<>>, {})
BY EmptyRange DEF Retains

(* The identities a comparison shows, and its lines.                       *)
ShownIn(before, after, responses) ==
  (DOMAIN after \ DOMAIN before)
  \cup ((DOMAIN before \ DOMAIN after) \cup ChangedIn(before, after))
  \cup (IF responses THEN OnlyIn(before, after) ELSE {})

LEMMA ShownAreDatabases ==
  ASSUME NEW baseline, NEW current, Crawled(baseline), Crawled(current), NEW responses
  PROVE  LET before == ByIdentity(baseline)
             after == ByIdentity(current)
             joined == SqlJoined(baseline, current)
             rows == {j \in joined : SqlLine(j).change # "unchanged"
                                       /\ (responses \/ SqlLine(j).change # "responseOnly")}
         IN {SqlLine(j) : j \in rows} = LinesOf(before, after, ShownIn(before, after, responses))
<1> DEFINE before == ByIdentity(baseline)
           after == ByIdentity(current)
           joined == SqlJoined(baseline, current)
           ids == DOMAIN before \cup DOMAIN after
           rows == {j \in joined : SqlLine(j).change # "unchanged"
                                     /\ (responses \/ SqlLine(j).change # "responseOnly")}
           shown == ShownIn(before, after, responses)
           J(id) == JoinedOf(before, after, id)
<1>1. joined = {J(id) : id \in ids}
  BY JoinedIs
<1> HIDE DEF joined, before, after
<1>2. shown \subseteq ids
  BY DEF ShownIn, ChangedIn, OnlyIn, Shared
<1>3. ASSUME NEW id \in ids
      PROVE  /\ J(id) \in rows <=> id \in shown
             /\ id \in shown => SqlLine(J(id)) = LineOf(before, after, id)
  <2> DEFINE l == SqlLine(J(id))
  <2>1. J(id) \in joined
    BY <1>1
  <2>2. /\ l.change = "responseOnly" <=> id \in OnlyIn(before, after)
        /\ l.change = "changed" <=> id \in ChangedIn(before, after)
        /\ l.change # "unchanged" => l = LineOf(before, after, id)
        /\ l.change # "unchanged" <=>
                 id \in (DOMAIN after \ DOMAIN before) \cup (DOMAIN before \ DOMAIN after)
                        \cup ChangedIn(before, after) \cup OnlyIn(before, after)
        /\ l.change = "added" <=> id \in DOMAIN after \ DOMAIN before
        /\ l.change = "removed" <=> id \in DOMAIN before \ DOMAIN after
    BY JoinedAre
  <2>3. J(id) \in rows <=> l.change # "unchanged" /\ (responses \/ l.change # "responseOnly")
    BY <2>1
  <2> HIDE DEF l, rows, J
  <2>4. id \in shown <=> \/ id \in DOMAIN after \ DOMAIN before
                         \/ id \in DOMAIN before \ DOMAIN after
                         \/ id \in ChangedIn(before, after)
                         \/ responses /\ id \in OnlyIn(before, after)
    BY DEF ShownIn
  <2>5. J(id) \in rows <=> id \in shown
    BY <2>2, <2>3, <2>4
  <2>6. id \in shown => l.change # "unchanged"
    BY <2>2, <2>4
  <2> QED BY <2>2, <2>5, <2>6 DEF l
<1>4. {SqlLine(j) : j \in rows} = LinesOf(before, after, shown)
  <2>1. rows \subseteq joined
    OBVIOUS
  <2> HIDE DEF rows, J, shown
  <2>2. ASSUME NEW j \in rows PROVE SqlLine(j) \in LinesOf(before, after, shown)
    <3>1. PICK id \in ids : j = J(id)
      BY <1>1, <2>1
    <3> QED BY <1>3, <3>1 DEF LinesOf
  <2>3. ASSUME NEW id \in shown PROVE LineOf(before, after, id) \in {SqlLine(j) : j \in rows}
    BY <1>2, <1>3
  <2> QED BY <2>2, <2>3 DEF LinesOf
<1> QED BY <1>4 DEF before, after, joined

(* Both ways show the same lines.                                          *)
LEMMA LinesAgree ==
  ASSUME NEW before, NEW after, Maps(before, after), NEW responses
  PROVE  LET added == DOMAIN after \ DOMAIN before
             removed == DOMAIN before \ DOMAIN after
             lines == PushAll(PushAll(<<>>, before, after, added), before, after,
                              removed \cup ChangedIn(before, after))
             late == PushAll(<<>>, before, after, IF responses THEN OnlyIn(before, after) ELSE {})
             shown == LinesOf(before, after, ShownIn(before, after, responses))
         IN Cut(Sorted(lines \o late), MaxRows) = Cut(InOrder(LinesBefore(shown)), MaxRows)
<1> DEFINE ids == DOMAIN before \cup DOMAIN after
           added == DOMAIN after \ DOMAIN before
           other == (DOMAIN before \ DOMAIN after) \cup ChangedIn(before, after)
           only == IF responses THEN OnlyIn(before, after) ELSE {}
           first == PushAll(<<>>, before, after, added)
           lines == PushAll(first, before, after, other)
           late == PushAll(<<>>, before, after, only)
           shown == LinesOf(before, after, ShownIn(before, after, responses))
<1>1. IsFiniteSet(ids) /\ ids \subseteq Urls \X Nat
  BY FS_Union DEF Maps
<1>2. /\ added \in SUBSET ids /\ other \in SUBSET ids /\ only \in SUBSET ids
      /\ added \cap other = {} /\ (added \cup other) \cap only = {}
  BY DEF ChangedIn, OnlyIn, Shared
<1>3. shown = LinesOf(before, after, added \cup other) \cup LinesOf(before, after, only)
  BY DEF LinesOf, ShownIn
<1>4. ShownIn(before, after, responses) = (added \cup other) \cup only
  BY DEF ShownIn
<1> HIDE DEF ids, added, other, only
<1>5. LinesOf(before, after, {}) = {} /\ {} \in SUBSET ids
  BY DEF LinesOf
<1>6. Retains(<<>>, LinesOf(before, after, {}))
  BY <1>5, EmptyRetains
<1>7. Retains(first, LinesOf(before, after, added))
  <2>1. Retains(first, LinesOf(before, after, {} \cup added))
    BY <1>1, <1>2, <1>5, <1>6, PushAllRetains
  <2>2. {} \cup added = added
    OBVIOUS
  <2> QED BY <2>1, <2>2
<1> HIDE DEF first
<1>8. Retains(lines, LinesOf(before, after, added \cup other))
  BY <1>1, <1>2, <1>7, PushAllRetains
<1>9. Retains(late, LinesOf(before, after, only))
  <2>1. Retains(late, LinesOf(before, after, {} \cup only))
    BY <1>1, <1>2, <1>5, <1>6, PushAllRetains
  <2>2. {} \cup only = only
    OBVIOUS
  <2> QED BY <2>1, <2>2
<1> HIDE DEF lines, late
<1>10. LinesOf(before, after, added \cup other) \cap LinesOf(before, after, only) = {}
  <2>1. \A i, k \in ids : LineOf(before, after, i) = LineOf(before, after, k) => i = k
    BY <1>1, LinesAreOrderly
  <2>2. \A i \in added \cup other, k \in only : i # k /\ i \in ids /\ k \in ids
    BY <1>2
  <2> QED BY <2>1, <2>2 DEF LinesOf
<1>11. Orderly(shown)
  <2>1. (added \cup other) \cup only \subseteq ids
    BY <1>2
  <2>2. IsFiniteSet((added \cup other) \cup only) /\ (added \cup other) \cup only \subseteq Urls \X Nat
    BY <1>1, <2>1, FS_Subset
  <2> QED BY <1>4, <2>2, LinesAreOrderly
<1> HIDE DEF shown
<1>12. Retains(lines \o late, shown)
  BY <1>3, <1>8, <1>9, <1>10, <1>11, JoinRetains
<1>13. Cut(Sorted(lines \o late), MaxRows) = Cut(InOrder(LinesBefore(shown)), MaxRows)
  BY <1>11, <1>12, KeptIsEnough
<1> QED BY <1>13 DEF added, other, only, first, lines, late, shown

-----------------------------------------------------------------------------
(* Both ways compare alike, and a comparison is balanced.                  *)

RustSize(view, rows) ==
  LET all == Records(rows) IN Cardinality(Among(all, LAMBDA r : Counted(view, all, r)))

(* An answer, by its parts.                                                *)
ComparedAs(before, after, lines, deltas) ==
  [added |-> Cardinality(DOMAIN after \ DOMAIN before), removed |-> Cardinality(DOMAIN before \ DOMAIN after),
   changed |-> Cardinality(ChangedIn(before, after)),
   of |-> [f \in Fields \ {"responseHash"} |-> Cardinality({id \in ChangedIn(before, after) : f \in Changed(before[id], after[id])})],
   hashes |-> Cardinality(DifferingIn(before, after, "responseHash")),
   responses |-> Cardinality(OnlyIn(before, after)),
   unavailable |-> Cardinality(UnknownIn(before, after)),
   lines |-> lines, deltas |-> deltas]

LEMMA CompareIs ==
  ASSUME NEW baseline, NEW current, NEW responses
  PROVE  LET before == ByIdentity(baseline)
             after == ByIdentity(current)
             added == DOMAIN after \ DOMAIN before
             removed == DOMAIN before \ DOMAIN after
             lines == PushAll(PushAll(<<>>, before, after, added), before, after,
                              removed \cup ChangedIn(before, after))
             late == PushAll(<<>>, before, after, IF responses THEN OnlyIn(before, after) ELSE {})
         IN Compare(baseline, current, responses) =
              ComparedAs(before, after, Cut(Sorted(lines \o late), MaxRows),
                       [view \in DeltaViews |-> RustSize(view, current) - RustSize(view, baseline)])
BY Zenon DEF Compare, ComparedAs, ChangedIn, OnlyIn, DifferingIn, UnknownIn, Shared, RustSize

LEMMA SqlCompareIs ==
  ASSUME NEW baseline, NEW current, NEW responses
  PROVE  LET joined == SqlJoined(baseline, current)
             shown == {SqlLine(j) : j \in {j \in joined : SqlLine(j).change # "unchanged"
                                        /\ (responses \/ SqlLine(j).change # "responseOnly")}}
         IN SqlCompare(baseline, current, responses) =
              [added |-> Cardinality(OfKind(joined, "added")), removed |-> Cardinality(OfKind(joined, "removed")),
               changed |-> Cardinality(OfKind(joined, "changed")),
               of |-> [f \in Fields \ {"responseHash"} |-> Cardinality(Differing(joined, f))],
               hashes |-> Cardinality(Differing(joined, "responseHash")),
               responses |-> Cardinality(OfKind(joined, "responseOnly")),
               unavailable |-> Cardinality(Unknown(joined)),
               lines |-> Cut(InOrder(LinesBefore(shown)), MaxRows),
               deltas |-> [view \in DeltaViews |-> SqlSize(view, current) - SqlSize(view, baseline)]]
BY Zenon DEF SqlCompare, OfKind, Differing, Unknown, LinesBefore

(* Whatever two crawls are compared, both ways say the same.               *)
LEMMA ComparisonsAreAlike ==
  ASSUME NEW baseline, NEW current, Crawled(baseline), Crawled(current), NEW responses,
         \A i \in DOMAIN baseline : Typed(baseline[i].record),
         \A i \in DOMAIN current : Typed(current[i].record)
  PROVE  Compare(baseline, current, responses) = SqlCompare(baseline, current, responses)
<1> DEFINE before == ByIdentity(baseline)
           after == ByIdentity(current)
           joined == SqlJoined(baseline, current)
           rows == {j \in joined : SqlLine(j).change # "unchanged"
                                     /\ (responses \/ SqlLine(j).change # "responseOnly")}
           shown == {SqlLine(j) : j \in rows}
           added == DOMAIN after \ DOMAIN before
           removed == DOMAIN before \ DOMAIN after
           lines == PushAll(PushAll(<<>>, before, after, added), before, after,
                            removed \cup ChangedIn(before, after))
           late == PushAll(<<>>, before, after, IF responses THEN OnlyIn(before, after) ELSE {})
           sorted == Cut(Sorted(lines \o late), MaxRows)
           first == Cut(InOrder(LinesBefore(shown)), MaxRows)
           rust == [view \in DeltaViews |-> RustSize(view, current) - RustSize(view, baseline)]
           sql == [view \in DeltaViews |-> SqlSize(view, current) - SqlSize(view, baseline)]
           of == [f \in Fields \ {"responseHash"} |->
                    Cardinality({id \in ChangedIn(before, after) : f \in Changed(before[id], after[id])})]
<1>1. Compare(baseline, current, responses) = ComparedAs(before, after, sorted, rust)
  BY CompareIs
<1>2. SqlCompare(baseline, current, responses) =
              [added |-> Cardinality(OfKind(joined, "added")), removed |-> Cardinality(OfKind(joined, "removed")),
               changed |-> Cardinality(OfKind(joined, "changed")),
               of |-> [f \in Fields \ {"responseHash"} |-> Cardinality(Differing(joined, f))],
               hashes |-> Cardinality(Differing(joined, "responseHash")),
               responses |-> Cardinality(OfKind(joined, "responseOnly")),
               unavailable |-> Cardinality(Unknown(joined)),
               lines |-> first, deltas |-> sql]
  BY SqlCompareIs
<1>3. Maps(before, after)
  BY JoinedIs
<1>4. sorted = first
  <2>1. shown = LinesOf(before, after, ShownIn(before, after, responses))
    BY ShownAreDatabases
  <2>2. sorted = Cut(InOrder(LinesBefore(LinesOf(before, after, ShownIn(before, after, responses)))), MaxRows)
    BY <1>3, LinesAgree
  <2> HIDE DEF shown, sorted
  <2> QED BY <2>1, <2>2
<1>5. rust = sql
  <2>1. ASSUME NEW view \in DeltaViews
        PROVE  RustSize(view, current) = SqlSize(view, current) /\ RustSize(view, baseline) = SqlSize(view, baseline)
    BY SizesAgree, Zenon DEF RustSize
  <2> QED BY <2>1
<1>6. /\ Cardinality(OfKind(joined, "added")) = Cardinality(added)
      /\ Cardinality(OfKind(joined, "removed")) = Cardinality(removed)
      /\ Cardinality(OfKind(joined, "changed")) = Cardinality(ChangedIn(before, after))
      /\ Cardinality(OfKind(joined, "responseOnly")) = Cardinality(OnlyIn(before, after))
      /\ \A f : Cardinality(Differing(joined, f)) = Cardinality(DifferingIn(before, after, f))
      /\ Cardinality(Unknown(joined)) = Cardinality(UnknownIn(before, after))
  BY CountsAgree
<1> HIDE DEF joined, before, after
<1>7. [f \in Fields \ {"responseHash"} |-> Cardinality(Differing(joined, f))] = of
  <2>1. ASSUME NEW f \in Fields \ {"responseHash"}
        PROVE  DifferingIn(before, after, f) = {id \in ChangedIn(before, after) : f \in Changed(before[id], after[id])}
    BY DEF DifferingIn, ChangedIn
  <2> QED BY <1>6, <2>1
<1>8. ComparedAs(before, after, sorted, rust) =
        [added |-> Cardinality(added), removed |-> Cardinality(removed),
         changed |-> Cardinality(ChangedIn(before, after)), of |-> of,
         hashes |-> Cardinality(DifferingIn(before, after, "responseHash")),
         responses |-> Cardinality(OnlyIn(before, after)),
         unavailable |-> Cardinality(UnknownIn(before, after)),
         lines |-> sorted, deltas |-> rust]
  BY Zenon DEF ComparedAs
<1> HIDE DEF sorted, first, rust, sql, of, added, removed
<1> QED BY <1>1, <1>2, <1>4, <1>5, <1>6, <1>7, <1>8

(* What a comparison and its reverse say adds up.                          *)
LEMMA ComparisonsBalance ==
  ASSUME NEW baseline, NEW current, Crawled(baseline), Crawled(current), NEW responses
  PROVE  Balanced(baseline, current, Compare(baseline, current, responses), Compare(current, baseline, responses))
<1> DEFINE before == ByIdentity(baseline)
           after == ByIdentity(current)
           B == DOMAIN before
           A == DOMAIN after
           said == Compare(baseline, current, responses)
           reverse == Compare(current, baseline, responses)
           of(x, y) == [f \in Fields \ {"responseHash"} |->
                          Cardinality({id \in ChangedIn(x, y) : f \in Changed(x[id], y[id])})]
           lines == PushAll(PushAll(<<>>, before, after, A \ B), before, after, (B \ A) \cup ChangedIn(before, after))
           late == PushAll(<<>>, before, after, IF responses THEN OnlyIn(before, after) ELSE {})
<1>1. /\ IsFiniteSet(B) /\ Cardinality(B) = Len(baseline)
      /\ IsFiniteSet(A) /\ Cardinality(A) = Len(current)
  BY MapIs
<1>2. /\ said.added = Cardinality(A \ B) /\ said.removed = Cardinality(B \ A)
      /\ said.changed = Cardinality(ChangedIn(before, after)) /\ said.of = of(before, after)
      /\ said.responses = Cardinality(OnlyIn(before, after))
      /\ said.hashes = Cardinality(DifferingIn(before, after, "responseHash"))
      /\ said.lines = Cut(Sorted(lines \o late), MaxRows)
  <2>1. \A x, y, l, d : /\ ComparedAs(x, y, l, d).added = Cardinality(DOMAIN y \ DOMAIN x)
                        /\ ComparedAs(x, y, l, d).removed = Cardinality(DOMAIN x \ DOMAIN y)
                        /\ ComparedAs(x, y, l, d).changed = Cardinality(ChangedIn(x, y))
                        /\ ComparedAs(x, y, l, d).of = of(x, y)
                        /\ ComparedAs(x, y, l, d).responses = Cardinality(OnlyIn(x, y))
                        /\ ComparedAs(x, y, l, d).hashes = Cardinality(DifferingIn(x, y, "responseHash"))
                        /\ ComparedAs(x, y, l, d).lines = l
    BY DEF ComparedAs
  <2>2. PICK d : said = ComparedAs(before, after, Cut(Sorted(lines \o late), MaxRows), d)
    BY CompareIs
  <2> HIDE DEF said, before, after, lines, late, of
  <2> QED BY <2>1, <2>2
<1>3. /\ reverse.added = Cardinality(B \ A) /\ reverse.removed = Cardinality(A \ B)
      /\ reverse.changed = Cardinality(ChangedIn(after, before)) /\ reverse.of = of(after, before)
      /\ reverse.responses = Cardinality(OnlyIn(after, before))
  <2>1. \A x, y, l, d : /\ ComparedAs(x, y, l, d).added = Cardinality(DOMAIN y \ DOMAIN x)
                        /\ ComparedAs(x, y, l, d).removed = Cardinality(DOMAIN x \ DOMAIN y)
                        /\ ComparedAs(x, y, l, d).changed = Cardinality(ChangedIn(x, y))
                        /\ ComparedAs(x, y, l, d).of = of(x, y)
                        /\ ComparedAs(x, y, l, d).responses = Cardinality(OnlyIn(x, y))
    BY DEF ComparedAs
  <2>2. \E l, d : reverse = ComparedAs(after, before, l, d)
    BY CompareIs
  <2> HIDE DEF reverse, before, after, of
  <2> QED BY <2>1, <2>2
<1> HIDE DEF said, reverse, before, after
<1>4. /\ ChangedIn(before, after) = ChangedIn(after, before)
      /\ OnlyIn(before, after) = OnlyIn(after, before)
      /\ of(before, after) = of(after, before)
  <2>1. Shared(before, after) = Shared(after, before)
    BY DEF Shared
  <2>2. \A id : Changed(before[id], after[id]) = Changed(after[id], before[id])
    BY ChangesAreMutual
  <2>3. ChangedIn(before, after) = ChangedIn(after, before) /\ OnlyIn(before, after) = OnlyIn(after, before)
    BY <2>1, <2>2 DEF ChangedIn, OnlyIn
  <2>4. ASSUME NEW f \in Fields \ {"responseHash"}
        PROVE  {id \in ChangedIn(before, after) : f \in Changed(before[id], after[id])}
                 = {id \in ChangedIn(after, before) : f \in Changed(after[id], before[id])}
    BY <2>2, <2>3
  <2> QED BY <2>3, <2>4
<1>5. /\ Cardinality(A \ B) + Len(baseline) = Cardinality(B \ A) + Len(current)
      /\ Cardinality(ChangedIn(before, after)) + Cardinality(OnlyIn(before, after))
           <= Len(baseline) - Cardinality(B \ A)
  <2> DEFINE C == ChangedIn(before, after)
             O == OnlyIn(before, after)
  <2>1. C \subseteq A \cap B /\ O \subseteq A \cap B /\ C \cap O = {}
    BY DEF ChangedIn, OnlyIn, Shared
  <2> HIDE DEF C, O, A, B
  <2>2. IsFiniteSet(A \cap B) /\ IsFiniteSet(A \ B) /\ IsFiniteSet(B \ A)
    BY <1>1, FS_Subset
  <2>3. IsFiniteSet(C) /\ IsFiniteSet(O) /\ IsFiniteSet(C \cup O)
    BY <2>1, <2>2, FS_Subset
  <2>4. /\ Cardinality(A \ B) = Cardinality(A) - Cardinality(A \cap B)
        /\ Cardinality(B \ A) = Cardinality(B) - Cardinality(A \cap B)
    <3>1. B \cap A = A \cap B
      OBVIOUS
    <3> QED BY <1>1, <3>1, FS_Difference
  <2>5. Cardinality(C \cup O) = Cardinality(C) + Cardinality(O)
    <3>1. Cardinality(C \cup O) = Cardinality(C) + Cardinality(O) - Cardinality(C \cap O)
      BY <2>3, FS_Union
    <3>2. Cardinality(C \cap O) = 0
      BY <2>1, FS_EmptySet
    <3>3. Cardinality(C) \in Nat /\ Cardinality(O) \in Nat
      BY <2>3, FS_CardinalityType
    <3> QED BY <3>1, <3>2, <3>3
  <2>6. Cardinality(C \cup O) <= Cardinality(A \cap B)
    BY <2>1, <2>2, FS_Subset
  <2>7. /\ Cardinality(A) \in Nat /\ Cardinality(B) \in Nat /\ Cardinality(A \cap B) \in Nat
        /\ Cardinality(C) \in Nat /\ Cardinality(O) \in Nat
    BY <1>1, <2>2, <2>3, FS_CardinalityType
  <2> QED BY <1>1, <2>4, <2>5, <2>6, <2>7 DEF C, O
<1>6. ASSUME baseline = current PROVE said.lines = <<>> /\ said.hashes = 0
  <2>1. before = after
    BY <1>6 DEF before, after
  <2>2. \A id : Changed(before[id], after[id]) = {}
    BY <2>1, NothingDiffers
  <2>3. /\ ChangedIn(before, after) = {} /\ OnlyIn(before, after) = {}
        /\ DifferingIn(before, after, "responseHash") = {}
    BY <2>2 DEF ChangedIn, OnlyIn, DifferingIn
  <2>4. ShownIn(before, after, responses) = {}
    BY <2>1, <2>3 DEF ShownIn
  <2>5. said.hashes = 0
    BY <1>2, <2>3, FS_EmptySet
  <2> DEFINE shown == LinesOf(before, after, ShownIn(before, after, responses))
             q == InOrder(LinesBefore(shown))
  <2>6. said.lines = Cut(q, MaxRows)
    <3>1. Maps(before, after)
      BY JoinedIs DEF before, after
    <3> QED BY <1>2, <3>1, LinesAgree
  <2>7. shown = {}
    BY <2>4 DEF LinesOf
  <2> HIDE DEF shown
  <2>8. Orderly(shown) /\ Cardinality(shown) = 0
    BY <2>7, FS_EmptySet DEF Orderly
  <2>9. q \in Seq(shown) /\ Len(q) = 0
    BY <2>8, ShownInOrder
  <2> HIDE DEF q
  <2>10. Cut(q, MaxRows) \in Seq(shown) /\ Len(Cut(q, MaxRows)) = 0
    <3> DEFINE n == IF Len(q) < MaxRows THEN Len(q) ELSE MaxRows
    <3>1. Cut(q, MaxRows) \in Seq(shown) /\ Len(Cut(q, MaxRows)) = n
      BY <2>9, CutIs, ComparisonAssumption
    <3>2. n = 0
      BY <2>9, ComparisonAssumption
    <3> QED BY <3>1, <3>2
  <2> QED BY <2>5, <2>6, <2>10, EmptySeq
<1> HIDE DEF A, B, of
<1>7. Balanced(baseline, current, said, reverse)
  BY <1>2, <1>3, <1>4, <1>5, <1>6 DEF Balanced
<1> QED BY <1>7 DEF said, reverse

-----------------------------------------------------------------------------
(* The crawls there are, and the theorems.                                 *)

(* What is compared: rows of records that are typed.                       *)
Comparable(rows) == Crawled(rows) /\ \A i \in DOMAIN rows : Typed(rows[i].record)
Listing(q) ==
  /\ Len(q) \in Nat /\ DOMAIN q = 1..Len(q)
  /\ \A i \in DOMAIN q : Typed(q[i]) /\ q[i].url \in Urls

LEMMA PlainlyIs ==
  ASSUME NEW q, Listing(q), NEW content
  PROVE  Comparable(Plainly(q, content))
<1> DEFINE rows == Plainly(q, content)
           n == Len(q)
<1>1. n \in Nat /\ DOMAIN q = 1..n
  BY DEF Listing
<1>2. rows = [i \in 1..n |-> Row(q[i], None, 0, content)]
  BY <1>1 DEF Plainly
<1> HIDE DEF rows
<1>3. DOMAIN rows = 1..n /\ Len(rows) = n
  BY <1>1, <1>2, FunctionLength
<1>4. ASSUME NEW i \in 1..n
      PROVE  rows[i].record = q[i] /\ rows[i].position = None /\ rows[i].duplicate = 0
  BY <1>2 DEF Row
<1>5. \A i \in 1..n : Typed(q[i]) /\ q[i].url \in Urls
  BY <1>1 DEF Listing
<1>6. \A i \in DOMAIN rows : /\ rows[i].record.url \in Urls
                             /\ rows[i].position \in Nat \cup {None}
                             /\ rows[i].duplicate \in Nat
  BY <1>3, <1>4, <1>5
<1>7. \A i \in DOMAIN rows : Typed(rows[i].record)
  BY <1>3, <1>4, <1>5
<1> QED BY <1>1, <1>3, <1>6, <1>7 DEF Comparable, Crawled, rows

LEMMA ListedIs ==
  ASSUME NEW q, Listing(q), NEW places, NEW counts,
         \A i \in DOMAIN q : places[i] \in Nat \cup {None} /\ counts[i] \in Nat
  PROVE  Comparable(Listed(q, places, counts))
<1> DEFINE rows == Listed(q, places, counts)
           n == Len(q)
<1>1. n \in Nat /\ DOMAIN q = 1..n
  BY DEF Listing
<1>2. rows = [i \in 1..n |-> Row(q[i], places[i], counts[i], None)]
  BY <1>1 DEF Listed
<1> HIDE DEF rows
<1>3. DOMAIN rows = 1..n /\ Len(rows) = n
  BY <1>1, <1>2, FunctionLength
<1>4. ASSUME NEW i \in 1..n
      PROVE  rows[i].record = q[i] /\ rows[i].position = places[i] /\ rows[i].duplicate = counts[i]
  BY <1>2 DEF Row
<1>5. \A i \in 1..n : Typed(q[i]) /\ q[i].url \in Urls
  BY <1>1 DEF Listing
<1>6. \A i \in DOMAIN rows : /\ rows[i].record.url \in Urls
                             /\ rows[i].position \in Nat \cup {None}
                             /\ rows[i].duplicate \in Nat
  BY <1>1, <1>3, <1>4, <1>5
<1>7. \A i \in DOMAIN rows : Typed(rows[i].record)
  BY <1>3, <1>4, <1>5
<1> QED BY <1>1, <1>3, <1>6, <1>7 DEF Comparable, Crawled, rows

(* A record with another status, another hash or no count of titles.       *)
TextsOf(r) == r.text \in [Elements -> [value : Texts, count : Nat \cup {None}, size : Nat]]

LEMMA MadeIsWide ==
  ASSUME NEW s \in Sites, NEW r, Made(s, r)
  PROVE  Wide(r) /\ TextsOf(r) /\ r.url \in Urls
<1>1. PICK u, c : OnTheWay(s, r.url, u, c) /\ EndedAt(s, r, u, c)
  BY DEF Made
<1>2. r.url \in Urls
  BY <1>1 DEF OnTheWay
<1>3. ASSUME r.text = [e \in Elements |-> NoText] PROVE TextsOf(r)
  BY <1>3 DEF TextsOf, NoText, Texts
<1>4. CASE Unread(r, r.final)
  BY <1>2, <1>3, <1>4 DEF Unread
<1>5. CASE s[u].kind = "answer" /\ Arrived(r, u, c) /\ Answered(s, r)
  <2> DEFINE given == s[r.final]
  <2>1. Given(r, r.final, given) /\ (NoSignals(r, given) \/ Signals(r, given))
    BY <1>5 DEF Answered
  <2>2. PageAssumption(given.page)
    <3>1. r.final \in Urls /\ given.kind = "answer"
      BY <1>1, <1>5, OnTheWayToUrl DEF Arrived
    <3> QED BY <3>1, ViewAssumption
  <2> HIDE DEF given
  <2>3. Wide(r)
    BY <2>1 DEF Given
  <2>4. CASE NoSignals(r, given)
    BY <1>2, <1>3, <2>3, <2>4 DEF NoSignals
  <2>5. CASE Signals(r, given)
    <3>1. r.text = given.page.text
      BY <2>5 DEF Signals
    <3>2. TextsOf(r)
      BY <2>2, <3>1 DEF PageAssumption, TextsOf
    <3> QED BY <1>2, <2>3, <3>2
  <2> QED BY <2>1, <2>4, <2>5
<1> QED BY <1>1, <1>4, <1>5 DEF EndedAt, Refusal, Failure, Stray

LEMMA TypedKept ==
  ASSUME NEW r, NEW q, Typed(q), NEW S, S \subseteq {"status", "hash", "text"}, Keeps(r, q, S),
         r.status \in Nat \cup {None},
         \A e \in Elements : /\ r.text[e].value \in Texts
                             /\ r.text[e].count \in Nat \cup {None} /\ r.text[e].size \in Nat
                             /\ Key(r.text[e].value) = "" => r.text[e].size = 0
  PROVE  Typed(r) /\ r.url = q.url
<1>1. \A f \in {"url", "internal", "secure", "reason", "indexability", "indexStatus", "canonicals", "evidence",
                "words", "doctype"} : r[f] = q[f]
  BY DEF Keeps, AllFields
<1>2. /\ r.url = q.url /\ r.internal = q.internal /\ r.secure = q.secure /\ r.reason = q.reason
      /\ r.indexability = q.indexability /\ r.indexStatus = q.indexStatus
      /\ r.canonicals = q.canonicals /\ r.evidence = q.evidence /\ r.words = q.words /\ r.doctype = q.doctype
  BY <1>1
<1>3. /\ q.internal \in BOOLEAN /\ q.secure \in BOOLEAN
      /\ q.reason # None /\ q.indexability # None /\ q.indexStatus # None
      /\ q.canonicals \in Nat /\ q.evidence \in Nat /\ q.words \in Nat
      /\ q.doctype \in BOOLEAN \cup {None}
  BY DEF Typed
<1> QED BY <1>2, <1>3 DEF Typed

\* Records of the site.
Rich(q) == Typed(q) /\ Wide(q) /\ TextsOf(q) /\ q.url \in Urls
Fine(r) == Typed(r) /\ r.url \in Urls

LEMMA StatusChanged ==
  ASSUME NEW q, Rich(q)
  PROVE  Fine([q EXCEPT !.status = 404])
<1> DEFINE r == [q EXCEPT !.status = 404]
<1>1. Keeps(r, q, {"status"}) /\ r.status = 404
  BY DEF Rich, Wide, Keeps, AllFields
<1> HIDE DEF r
<1>2. r.text = q.text
  BY <1>1 DEF Keeps, AllFields
<1>3. Typed(q) /\ q.url \in Urls /\ r.status \in Nat
  BY <1>1 DEF Rich
<1>4. \A e \in Elements : /\ r.text[e].value \in Texts
                          /\ r.text[e].count \in Nat \cup {None} /\ r.text[e].size \in Nat
                          /\ Key(r.text[e].value) = "" => r.text[e].size = 0
  BY <1>2, <1>3 DEF Typed
<1>5. r.status \in Nat \cup {None}
  BY <1>3
<1>6. Typed(r) /\ r.url = q.url
  <2>1. {"status"} \subseteq {"status", "hash", "text"} /\ Keeps(r, q, {"status"})
    BY <1>1
  <2> QED BY <1>3, <1>4, <1>5, <2>1, TypedKept
<1> QED BY <1>3, <1>6 DEF Fine, r

LEMMA HashChanged ==
  ASSUME NEW q, Rich(q)
  PROVE  Fine([q EXCEPT !.hash = "another"])
<1> DEFINE r == [q EXCEPT !.hash = "another"]
<1>1. Keeps(r, q, {"hash"})
  BY DEF Rich, Wide, Keeps, AllFields
<1> HIDE DEF r
<1>2. r.text = q.text /\ r.status = q.status
  BY <1>1 DEF Keeps, AllFields
<1>3. Typed(q) /\ q.url \in Urls /\ q.status \in Nat \cup {None}
  BY <1>1 DEF Rich, Typed
<1>4. \A e \in Elements : /\ r.text[e].value \in Texts
                          /\ r.text[e].count \in Nat \cup {None} /\ r.text[e].size \in Nat
                          /\ Key(r.text[e].value) = "" => r.text[e].size = 0
  BY <1>2, <1>3 DEF Typed
<1>5. Typed(r) /\ r.url = q.url
  BY <1>1, <1>2, <1>3, <1>4, TypedKept
<1> QED BY <1>3, <1>5 DEF Fine, r

LEMMA CountChanged ==
  ASSUME NEW q, Rich(q)
  PROVE  Fine([q EXCEPT !.text["title"].count = None])
<1> DEFINE t == [q.text EXCEPT !["title"].count = None]
           r == [q EXCEPT !.text = t]
<1>1. [q EXCEPT !.text["title"].count = None] = r
  OBVIOUS
<1>2. \A e \in Elements : t[e].value = q.text[e].value /\ t[e].size = q.text[e].size
                          /\ t[e].count \in {q.text[e].count, None}
  <2>1. q.text \in [Elements -> [value : Texts, count : Nat \cup {None}, size : Nat]] /\ "title" \in Elements
    BY DEF Rich, TextsOf, Elements
  <2> HIDE DEF Elements, Texts
  <2>2. CASE TRUE
    <3> DEFINE x == [q.text["title"] EXCEPT !.count = None]
    <3>1. q.text["title"] \in [value : Texts, count : Nat \cup {None}, size : Nat]
      BY <2>1
    <3>2. x.value = q.text["title"].value /\ x.size = q.text["title"].size /\ x.count = None
      BY <3>1
    <3>3. t = [e \in Elements |-> IF e = "title" THEN x ELSE q.text[e]]
      BY <2>1
    <3> HIDE DEF x, t
    <3> QED BY <3>2, <3>3
  <2> QED BY <2>2
<1> HIDE DEF t
<1>3. Keeps(r, q, {"text"}) /\ r.text = t
  BY DEF Rich, Wide, Keeps, AllFields
<1> HIDE DEF r
<1>4. r.status = q.status
  BY <1>3 DEF Keeps, AllFields
<1>5. Typed(q) /\ q.url \in Urls /\ q.status \in Nat \cup {None}
  BY DEF Rich, Typed
<1>6. \A e \in Elements : /\ r.text[e].value \in Texts
                          /\ r.text[e].count \in Nat \cup {None} /\ r.text[e].size \in Nat
                          /\ Key(r.text[e].value) = "" => r.text[e].size = 0
  <2>1. \A e \in Elements : /\ q.text[e].value \in Texts
                            /\ q.text[e].count \in Nat \cup {None} /\ q.text[e].size \in Nat
                            /\ Key(q.text[e].value) = "" => q.text[e].size = 0
    BY <1>5 DEF Typed
  <2> HIDE DEF Elements, Texts, Key
  <2> QED BY <1>2, <1>3, <2>1
<1>7. Typed(r) /\ r.url = q.url
  BY <1>3, <1>4, <1>5, <1>6, TypedKept
<1> QED BY <1>1, <1>5, <1>7 DEF Fine

(* The crawls that a listing is compared with.                             *)
Stock(q) == q \in Seq(Range(q)) /\ Len(q) = 2 /\ \A i \in 1..2 : Rich(q[i])

LEMMA ChangedListing ==
  ASSUME NEW q, Stock(q), NEW r, Fine(r)
  PROVE  Listing([q EXCEPT ![1] = r])
<1> DEFINE p == [q EXCEPT ![1] = r]
<1>1. DOMAIN q = 1..2 /\ Fine(q[1]) /\ Fine(q[2])
  BY LenProperties DEF Stock, Rich, Fine
<1>2. p = [i \in 1..2 |-> IF i = 1 THEN r ELSE q[i]]
  BY <1>1
<1> HIDE DEF p
<1>3. Len(p) = 2 /\ DOMAIN p = 1..2
  BY <1>2, FunctionLength
<1>4. \A i \in 1..2 : Fine(p[i])
  BY <1>1, <1>2
<1>5. Listing(p)
  BY <1>3, <1>4 DEF Listing, Fine
<1> QED BY <1>5 DEF p

LEMMA ListingsAre ==
  ASSUME NEW q, Stock(q)
  PROVE  /\ Listing(q) /\ Listing(Reverse(q)) /\ Listing(Tail(q))
         /\ Listing([q EXCEPT ![1].hash = "another"])
         /\ Listing([q EXCEPT ![1].text["title"].count = None])
         /\ Listing(Twice(q)) /\ DOMAIN Twice(q) = 1..3
<1>1. q \in Seq(Range(q)) /\ Len(q) = 2 /\ DOMAIN q = 1..2 /\ \A i \in 1..2 : Rich(q[i]) /\ Fine(q[i])
  BY LenProperties DEF Stock, Rich, Fine
<1>2. Listing(q)
  BY <1>1 DEF Listing, Fine
<1>3. Listing(Reverse(q))
  <2> DEFINE p == Reverse(q)
  <2>1. p = [i \in 1..2 |-> q[(2 - i) + 1]]
    BY <1>1 DEF Reverse
  <2> HIDE DEF p
  <2>2. Len(p) = 2 /\ DOMAIN p = 1..2
    BY <2>1, FunctionLength
  <2>3. \A i \in 1..2 : Fine(p[i])
    BY <1>1, <2>1
  <2> QED BY <2>2, <2>3 DEF Listing, Fine, p
<1>4. Tail(q) \in Seq(Range(q)) /\ Len(Tail(q)) = 1 /\ Tail(q)[1] = q[2] /\ DOMAIN Tail(q) = 1..1
  <2> DEFINE S == Range(q)
             t == Tail(q)
  <2>1. q # <<>>
    BY <1>1
  <2> HIDE DEF S, t
  <2>2. t \in Seq(S) /\ Len(t) = Len(q) - 1 /\ \A i \in 1..Len(t) : t[i] = q[i + 1]
    BY <1>1, <2>1, HeadTailProperties DEF S, t
  <2>3. DOMAIN t = 1..Len(t)
    BY <2>2, LenProperties
  <2>4. Len(t) = 1
    BY <1>1, <2>2
  <2>5. t[1] = q[2]
    <3>1. 1 \in 1..Len(t) /\ 1 + 1 = 2
      BY <2>4
    <3>2. t[1] = q[1 + 1]
      BY <2>2, <3>1
    <3> QED BY <3>1, <3>2
  <2> QED BY <2>2, <2>3, <2>4, <2>5 DEF S, t
<1>5. Listing(Tail(q))
  BY <1>1, <1>4 DEF Listing, Fine
<1>6. Listing([q EXCEPT ![1].hash = "another"])
  <2>1. Fine([q[1] EXCEPT !.hash = "another"])
    BY <1>1, HashChanged
  <2> DEFINE r == [q[1] EXCEPT !.hash = "another"]
  <2>2. [q EXCEPT ![1].hash = "another"] = [q EXCEPT ![1] = r]
    OBVIOUS
  <2> QED BY <2>1, <2>2, ChangedListing
<1>7. Listing([q EXCEPT ![1].text["title"].count = None])
  <2>1. Fine([q[1] EXCEPT !.text["title"].count = None])
    BY <1>1, CountChanged
  <2> DEFINE r == [q[1] EXCEPT !.text["title"].count = None]
  <2>2. [q EXCEPT ![1].text["title"].count = None] = [q EXCEPT ![1] = r]
    OBVIOUS
  <2> QED BY <2>1, <2>2, ChangedListing
<1>8. Listing(Twice(q)) /\ DOMAIN Twice(q) = 1..3
  <2> DEFINE x == [q[1] EXCEPT !.status = 404]
             S == Range(q) \cup {x}
             p == <<q[1], x>> \o Tail(q)
  <2>1. Fine(x)
    BY <1>1, StatusChanged
  <2>2. Twice(q) = p
    BY DEF Twice
  <2>3. q[1] \in S /\ x \in S
    BY <1>1 DEF Range
  <2> HIDE DEF x
  <2>4. <<q[1], x>> \in Seq(S) /\ Len(<<q[1], x>>) = 2 /\ Tail(q) \in Seq(S)
    <3>1. Tail(q) \in Seq(S)
      BY <1>4, SeqMonotonic
    <3> HIDE DEF S
    <3> QED BY <2>3, <3>1
  <2> HIDE DEF S
  <2>5. p \in Seq(S) /\ Len(p) = 3 /\ p[1] = q[1] /\ p[2] = x /\ p[3] = q[2]
    BY <1>4, <2>4, ConcatProperties
  <2> HIDE DEF p
  <2>6. DOMAIN p = 1..3
    BY <2>5, LenProperties
  <2>7. \A i \in 1..3 : Fine(p[i])
    BY <1>1, <2>1, <2>5
  <2>8. Listing(p)
    BY <2>5, <2>6, <2>7 DEF Listing, Fine
  <2> QED BY <2>2, <2>6, <2>8
<1> QED BY <1>2, <1>3, <1>5, <1>6, <1>7, <1>8

LEMMA ListedTwice ==
  ASSUME NEW q, Stock(q), NEW places, NEW counts,
         \A i \in {1, 2, 3} : places[i] \in Nat \cup {None} /\ counts[i] \in Nat
  PROVE  Comparable(Listed(Twice(q), places, counts))
<1>1. Listing(Twice(q)) /\ DOMAIN Twice(q) = 1..3
  BY ListingsAre
<1>2. 1..3 = {1, 2, 3}
  OBVIOUS
<1> QED BY <1>1, <1>2, ListedIs

LEMMA CrawlsAre ==
  ASSUME NEW q, Stock(q), NEW rows \in Crawls(q)
  PROVE  Comparable(rows)
<1> DEFINE P == {Plainly(q, Content("same", "plain")), Plainly(Reverse(q), Content("new", "plain")),
                 Plainly(Tail(q), None), Plainly(q, Content("same", "rendered")),
                 Plainly([q EXCEPT ![1].hash = "another"], Content("new", "plain")),
                 Plainly([q EXCEPT ![1].text["title"].count = None], Content("same", "plain"))}
<1>1. \A r \in P : Comparable(r)
  <2>1. \A p, c : Listing(p) => Comparable(Plainly(p, c))
    BY PlainlyIs
  <2> QED BY <2>1, ListingsAre
<1>2. ASSUME NEW counts, counts \in {<<1, 2, 1>>, <<1, 1, 1>>, <<1, 0, 1>>, <<2, 1, 1>>}
      PROVE  /\ Comparable(Listed(Twice(q), <<2, 1, 3>>, counts))
             /\ Comparable(Listed(Twice(q), <<2, None, 3>>, counts))
  <2>1. counts[1] \in Nat /\ counts[2] \in Nat /\ counts[3] \in Nat
    BY <1>2
  <2> QED BY <2>1, ListedTwice
<1>3. \/ rows \in P
      \/ \E counts \in {<<1, 2, 1>>, <<1, 1, 1>>, <<1, 0, 1>>} : rows = Listed(Twice(q), <<2, 1, 3>>, counts)
      \/ \E counts \in {<<2, 1, 1>>, <<1, 0, 1>>} : rows = Listed(Twice(q), <<2, None, 3>>, counts)
  BY Zenon DEF Crawls
<1> HIDE DEF P
<1> QED BY <1>1, <1>2, <1>3

LEMMA OpenedAre ==
  ASSUME NEW q, Stock(q), NEW opened \in Opened(q)
  PROVE  Comparable(opened[1])
<1> DEFINE a == Plainly(q, Content("same", "plain"))
           b == Listed(Twice(q), <<2, 1, 3>>, <<2, 1, 1>>)
           c == Listed(Twice(q), <<None, 1, None>>, <<0, 1, 0>>)
<1>1. Comparable(a)
  BY ListingsAre, PlainlyIs
<1>2. Comparable(b)
  BY ListedTwice
<1>3. Comparable(c)
  BY ListedTwice
<1>4. opened = <<a, TRUE>> \/ opened = <<b, FALSE>> \/ opened = <<c, TRUE>>
  BY Zenon DEF Opened
<1> HIDE DEF a, b, c
<1>5. \A x, y : <<x, y>>[1] = x
  OBVIOUS
<1> QED BY <1>1, <1>2, <1>3, <1>4, <1>5, Zenon

(* Any two crawls are compared alike in Rust and in SQL, and a comparison   *)
(* and its reverse add up: compare_records and comparison_cte.             *)
THEOREM ComparisonsOfAnyCrawls ==
  ASSUME NEW baseline, NEW current, Comparable(baseline), Comparable(current), NEW responses
  PROVE  /\ Compare(baseline, current, responses) = SqlCompare(baseline, current, responses)
         /\ Balanced(baseline, current, Compare(baseline, current, responses),
                     Compare(current, baseline, responses))
BY ComparisonsAreAlike, ComparisonsBalance DEF Comparable

LEMMA StockOfRecords ==
  ASSUME Fetching, Stocked, [i \in DOMAIN records |-> records[i].url] = SubSeq(UrlOrder, 1, 2)
  PROVE  Stock(records)
<1>1. site \in Sites /\ records \in Seq(Range(records))
  BY DEF Fetching
<1>2. DOMAIN records = 1..Len(records) /\ Len(records) \in Nat
  BY <1>1, LenProperties
<1>3. DOMAIN records = 1..2
  <2>1. DOMAIN SubSeq(UrlOrder, 1, 2) = 1..2
    OBVIOUS
  <2>2. DOMAIN [i \in DOMAIN records |-> records[i].url] = DOMAIN records
    OBVIOUS
  <2> QED BY <2>1, <2>2
<1>4. Len(records) = 2
  BY <1>2, <1>3
<1>5. \A i \in 1..2 : Rich(records[i])
  <2>1. \A i \in 1..2 : Made(site, records[i])
    BY <1>3 DEF Stocked
  <2> QED BY <1>1, <2>1, MadeIsTyped, MadeIsWide DEF Rich
<1> QED BY <1>1, <1>4, <1>5 DEF Stock

(* What is answered twice about the records of a site is answered alike:   *)
(* the views, the audit records, hreflang and the comparison of two crawls. *)
THEOREM AuditsOfTheSite == Spec => []AuditsAgree
<1>1. Fetching /\ Stocked => ComparisonsAgree
  <2> SUFFICES ASSUME Fetching, Stocked,
                      [i \in DOMAIN records |-> records[i].url] = SubSeq(UrlOrder, 1, 2),
                      NEW opened \in Opened(records), NEW baseline \in Crawls(records)
               PROVE  LET current == opened[1]
                          responses == opened[2]
                          said == Compare(baseline, current, responses)
                      IN /\ said = SqlCompare(baseline, current, responses)
                         /\ Balanced(baseline, current, said, Compare(current, baseline, responses))
    BY DEF ComparisonsAgree
  <2>1. Stock(records)
    BY StockOfRecords
  <2>2. Comparable(opened[1]) /\ Comparable(baseline)
    BY <2>1, OpenedAre, CrawlsAre
  <2> QED BY <2>2, ComparisonsOfAnyCrawls
<1>2. DiagnosticsAgree /\ ComparisonsAgree => AuditsAgree
  BY DEF AuditsAgree
<1> QED BY <1>1, <1>2, RecordsAreMade, DiagnosticsAlike, PTL
=============================================================================
