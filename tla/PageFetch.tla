------------------------------ MODULE PageFetch ------------------------------
(***************************************************************************)
(* fetch_one: from a queued URL to the record of what was found there.     *)
(*                                                                         *)
(* A worker asks robots.txt, sends a request and reads a body; it follows  *)
(* redirects up to a limit and notices loops; every way this can end gives *)
(* a record of its own.  Stop may come during any of the waits: then the   *)
(* error it causes must not be taken for an answer of the site.            *)
(*                                                                         *)
(* What a site answers is chosen once.  Pacing and Pause are               *)
(* RequestPolicy's, what becomes of a record is ResultStore's.             *)
(***************************************************************************)
EXTENDS Integers, Sequences, FiniteSets, SequencesExt

CONSTANTS
    Urls,           \* the URLs that are requested
    Sites,          \* what may answer: functions from Urls to Response
    MaxRedirects,   \* config.max_redirects
    Internal,       \* the URLs on the host of the root
    Junk,           \* a reference that is no http URL
    None

Targets == Urls \cup {Junk}
Elements == {"title", "meta", "h1", "h2"}

(***************************************************************************)
(* A response is one of                                                    *)
(*   [kind |-> "blocked", why]       robots.txt forbids it or is not read  *)
(*   [kind |-> "refused"]            no response: network, TLS, timeout    *)
(*   [kind |-> "redirect", to]       to a target; None: no Location        *)
(*   [kind |-> "answer", status, type, header, secure, cut, script, page]  *)
(* with type "html", "other" or None (none sent, none inferred), the       *)
(* header's canonical and robots tag, cut when the body could not be read, *)
(* script "off", "ok" or "failed", and the signals of the page (rendered   *)
(* ones when script is "ok").                                              *)
(***************************************************************************)

\* What is answered is well formed, and what stands for an absent value is none.
AnswerAssumption(answer) ==
    /\ answer.kind \in {"blocked", "refused", "redirect", "answer"}
    /\ answer.kind = "redirect" => answer.to \in Targets \cup {None}
    /\ answer.kind = "answer" =>
          {answer.cut, answer.header.noindex, answer.page.noindex} \subseteq BOOLEAN
ASSUME FetchAssumption ==
    /\ MaxRedirects \in Nat
    /\ Junk \notin Urls /\ None \notin Targets
    /\ None \notin {"Redirect response missing Location header", "Invalid redirect target"}
    /\ \A s \in Sites : \A u \in Urls : AnswerAssumption(s[u])

VARIABLES
    site,       \* what answers
    cancelled,  \* CrawlControl
    step,       \* the wait of fetch_one: "permission", "request", "body"; "idle" between fetches
    item,       \* the URL of the queued item
    url,        \* current_url
    chain,      \* redirect_chain
    records     \* what the fetches have returned, in order

fetch == <<step, item, url, chain>>
vars == <<site, cancelled, step, item, url, chain, records>>

-----------------------------------------------------------------------------
(* Records *)

NoText == [value |-> None, count |-> None, size |-> 0]

\* What every record has before anything was parsed.
Bare(final, hops) ==
    [url |-> item, final |-> final, chain |-> hops,
     target |-> IF hops = <<>> THEN None ELSE Last(hops).location,
     internal |-> final \in Internal,
     status |-> None, reason |-> "", error |-> None, type |-> None,
     indexability |-> "Non-indexable", indexStatus |-> "", hash |-> None,
     secure |-> FALSE, text |-> [e \in Elements |-> NoText],
     canonical |-> None, canonicals |-> 0, next |-> {}, prev |-> {}, amp |-> {}, hreflang |-> {},
     ampDocument |-> None, doctype |-> None, evidence |-> 0, words |-> 0,
     cluster |-> None, robots |-> {}]

ErrorRecord(final, error, hops) ==
    [Bare(final, hops) EXCEPT !.reason = "No response", !.indexStatus = "No response",
                              !.error = error]

BlockedRecord(final, hops, why) ==
    [Bare(final, hops) EXCEPT !.reason = "Blocked by robots.txt",
                              !.indexStatus = "Blocked by robots.txt",
                              !.error = why]

Success(status) == status \in 200..299

StatusRecord(final, status, hops, error) ==
    [Bare(final, hops) EXCEPT
        !.status = status, !.error = error,
        !.indexability = IF Success(status) THEN "Indexable" ELSE "Non-indexable",
        !.indexStatus  = IF Success(status) THEN "Indexable" ELSE "HTTP"]

\* What the headers of an answer add.
WithHeaders(record, answer) ==
    [record EXCEPT
        !.type = answer.type, !.secure = answer.secure,
        !.canonical = answer.header.canonical,
        !.canonicals = IF answer.header.canonical = None THEN 0 ELSE 1,
        !.robots = IF answer.header.noindex THEN {"header"} ELSE {}]

\* What the body of an HTML page adds.
WithPage(record, page) ==
    [record EXCEPT
        !.text = page.text,
        !.canonical = IF page.canonical = None THEN @ ELSE page.canonical,
        !.canonicals = @ + IF page.canonical = None THEN 0 ELSE 1,
        !.next = page.next, !.prev = page.prev, !.amp = page.amp, !.hreflang = page.hreflang,
        !.ampDocument = page.ampDocument, !.doctype = page.doctype,
        !.evidence = page.evidence, !.words = page.words, !.cluster = page.cluster,
        !.robots = IF page.noindex THEN @ \cup {"meta"} ELSE @]

\* apply_directives_and_canonical
Directed(record) ==
    IF ~Success(record.status) THEN record
    ELSE IF "header" \in record.robots
    THEN [record EXCEPT !.indexability = "Non-indexable", !.indexStatus = "X-Robots-Tag noindex"]
    ELSE IF "meta" \in record.robots
    THEN [record EXCEPT !.indexability = "Non-indexable", !.indexStatus = "Meta robots noindex"]
    ELSE IF record.canonical # None /\ record.canonical # record.final
    THEN [record EXCEPT !.indexability = "Non-indexable", !.indexStatus = "Canonicalized"]
    ELSE record

\* The record of a body that broke off.
CutRecord(final, answer, hops) ==
    LET directed == Directed(WithHeaders(StatusRecord(final, answer.status, hops, "cut"), answer))
    IN [directed EXCEPT !.indexability = IF @ = "Indexable" THEN "Unknown" ELSE @,
                        !.indexStatus = "Response body incomplete"]

AnswerRecord(final, answer, hops) ==
    LET plain == [WithHeaders(StatusRecord(final, answer.status, hops, None), answer)
                    EXCEPT !.hash = answer.page.hash]
        scripted == IF answer.script = "failed"
                    THEN [plain EXCEPT !.error = "JavaScript rendering failed"] ELSE plain
    IN Directed(IF answer.type = "html" THEN WithPage(scripted, answer.page) ELSE plain)

-----------------------------------------------------------------------------
(* The worker *)

Done == {records[i].url : i \in DOMAIN records}

Init ==
    /\ site \in Sites
    /\ cancelled = FALSE
    /\ step = "idle"
    /\ item = None
    /\ url = None
    /\ chain = <<>>
    /\ records = <<>>

Begin(i) ==
    /\ step = "idle" /\ ~cancelled
    /\ i \notin Done
    /\ item' = i
    /\ url' = i
    /\ chain' = <<>>
    /\ step' = "permission"
    /\ UNCHANGED <<site, cancelled, records>>

Return(record) ==
    /\ records' = Append(records, record)
    /\ step' = "idle"
    /\ item' = None
    /\ url' = None
    /\ chain' = <<>>
    /\ UNCHANGED <<site, cancelled>>

\* ensure_not_cancelled at the head of the loop, and the errors of a wait that
\* Stop interrupts: the worker ends without a record.
Cancelled ==
    /\ step # "idle" /\ cancelled
    /\ step' = "idle"
    /\ item' = None
    /\ url' = None
    /\ chain' = <<>>
    /\ UNCHANGED <<site, cancelled, records>>

\* A Stop that interrupts robots_delay is taken for a refusal.
PermissionFault ==
    /\ step = "permission"
    /\ IF site[url].kind = "blocked" \/ cancelled
       THEN Return(BlockedRecord(url, chain, "crawl cancelled"))
       ELSE step' = "request" /\ UNCHANGED <<site, cancelled, item, url, chain, records>>

\* robots_delay: a refusal is told from a Stop that interrupted it.
Permission ==
    /\ step = "permission" /\ ~cancelled
    /\ IF site[url].kind = "blocked"
       THEN Return(BlockedRecord(url, chain, site[url].why))
       ELSE step' = "request" /\ UNCHANGED <<site, cancelled, item, url, chain, records>>

\* The chain already asked for this URL, or it leads to itself.
Loops(to) == to = url \/ \E i \in DOMAIN chain : chain[i].url = to

Hop(to) == Append(chain, [url |-> url, location |-> to])

\* max_redirects + 1 requests.
Spent == Len(chain) = MaxRedirects

Redirected(to) ==
    CASE to = None -> Return(StatusRecord(url, 301, chain, "Redirect response missing Location header"))
      [] to = Junk -> Return(ErrorRecord(url, "Invalid redirect target", chain))
      [] to \in Urls /\ Loops(to) -> Return(ErrorRecord(url, "Redirect loop detected", Hop(to)))
      [] to \in Urls /\ ~Loops(to) /\ Spent -> Return(ErrorRecord(to, "Redirect limit exceeded", Hop(to)))
      [] OTHER -> /\ url' = to
                  /\ chain' = Hop(to)
                  /\ step' = "permission"
                  /\ UNCHANGED <<site, cancelled, item, records>>

\* send, and what its response leads to.
Request ==
    /\ step = "request"
    /\ CASE site[url].kind = "refused"  -> Return(ErrorRecord(url, "refused", chain))
         [] site[url].kind = "redirect" -> Redirected(site[url].to)
         [] OTHER -> step' = "body" /\ UNCHANGED <<site, cancelled, item, url, chain, records>>

\* read_response_body and, for HTML, rendering; both notice a Stop.
Body ==
    /\ step = "body" /\ ~cancelled
    /\ Return(IF site[url].cut THEN CutRecord(url, site[url], chain)
              ELSE AnswerRecord(url, site[url], chain))

\* The last body may be complete when Stop comes.
LateBody ==
    /\ step = "body" /\ cancelled /\ ~site[url].cut /\ site[url].script # "failed"
    /\ Return(AnswerRecord(url, site[url], chain))

Stop ==
    /\ ~cancelled
    /\ cancelled' = TRUE
    /\ UNCHANGED <<site, fetch, records>>

Next ==
    \/ \E i \in Urls : Begin(i)
    \/ Permission \/ Request \/ Body \/ LateBody
    \/ Cancelled \/ Stop

Spec == Init /\ [][Next]_vars

-----------------------------------------------------------------------------
(* Properties *)

\* Where the redirects of a site lead from u: the reference for what follows.
Trail(s, u) ==
    LET f[k \in 0..MaxRedirects + 1] ==
            IF k = 0 THEN u
            ELSE IF f[k - 1] \in Urls /\ s[f[k - 1]].kind = "redirect" THEN s[f[k - 1]].to
            ELSE None
    IN f

\* What the last answer of a chain makes of a record.
Tells(record, answer) ==
    CASE answer.kind = "blocked"  -> record.status = None /\ record.reason = "Blocked by robots.txt"
      [] answer.kind = "refused"  -> record.status = None /\ record.error = "refused"
      [] answer.kind = "redirect" ->
            /\ answer.to \notin Urls
            /\ record.error # None
            /\ record.status = IF answer.to = None THEN 301 ELSE None
      [] answer.kind = "answer"   ->
            /\ record.status = answer.status
            /\ answer.cut <=> (record.indexStatus = "Response body incomplete")
            /\ record.indexability = "Indexable" <=>
                  (/\ Success(answer.status) /\ ~answer.cut /\ ~answer.header.noindex
                   /\ answer.type = "html" => ~answer.page.noindex
                   /\ record.canonical \in {None, record.final})

\* The chain of a record is a path of the site without repetition, and it is cut
\* off by a loop, by the limit or by an answer.
TellsTheSite(s, r) ==
    LET n == Len(r.chain)
        trail == Trail(s, r.url)
        loops == \E k \in 0..n - 1 : trail[k] = trail[n]
    IN /\ \A k \in 1..n : r.chain[k] = [url |-> trail[k - 1], location |-> trail[k]]
       /\ \A j, k \in 0..n - 1 : trail[j] = trail[k] => j = k
       /\ \/ /\ n > 0 /\ loops
             /\ r.error = "Redirect loop detected" /\ r.final = trail[n - 1]
          \/ /\ n = MaxRedirects + 1 /\ ~loops
             /\ r.error = "Redirect limit exceeded" /\ r.final = trail[n]
          \/ /\ n <= MaxRedirects /\ ~loops
             /\ r.final = trail[n] /\ Tells(r, s[trail[n]])

\* A record is what the site answers, over its own redirects, and what a Stop
\* interrupts is never taken for an answer (fetch_one).
RecordsTellTheSite == \A i \in DOMAIN records : TellsTheSite(site, records[i])
=============================================================================
