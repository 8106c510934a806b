-------------------------------- MODULE MCPages --------------------------------
(* Three URLs; the third is on another host.  Each family of sites varies    *)
(* what one of the audits looks at.                                          *)
EXTENDS Comparison

CONSTANTS a, b, c

TextOrder == <<a, b, c>>

NoHeader == [canonical |-> None, noindex |-> FALSE]
Text(value, count, size) == [value |-> value, count |-> count, size |-> size]
Plain == [e \in Elements |-> Text("Shoes", 1, 1)]

Page == [text |-> Plain, canonical |-> None, next |-> {}, prev |-> {}, amp |-> {},
         hreflang |-> {}, ampDocument |-> FALSE, doctype |-> TRUE, evidence |-> 0,
         words |-> 9, cluster |-> 1, noindex |-> FALSE, hash |-> "h"]
Answer(status, type, page) ==
    [kind |-> "answer", status |-> status, type |-> type, header |-> NoHeader, secure |-> TRUE,
     cut |-> FALSE, script |-> "off", page |-> page]
Html(page) == Answer(200, "html", page)
Redirect(to) == [kind |-> "redirect", to |-> to]
Refused == [kind |-> "refused"]
Blocked == [kind |-> "blocked", why |-> "Blocked by robots.txt"]

(* Redirects, canonicals and every way in which there is no page.            *)
Moved == {Redirect(u) : u \in Urls \cup {Junk, None}}
Failing == {Refused, Blocked, [Blocked EXCEPT !.why = "unread"], Answer(404, "html", Page),
            [Html(Page) EXCEPT !.cut = TRUE]}
Canonical == {Html([Page EXCEPT !.canonical = u]) : u \in Urls \cup {None}}
CanonicalSites ==
  {s \in [Urls -> {Redirect(u) : u \in Urls} \cup Canonical \cup {Refused}] :
    s[b] # Refused /\ s[c] \in {Redirect(a)} \cup Canonical}
EndingSites ==
  {s \in [Urls -> Moved \cup Failing \cup {Html(Page)}] :
    /\ s[b] \in {Redirect(a), Redirect(c), Redirect(Junk), Html(Page)}
    /\ s[c] \in Failing \cup {Html(Page)}}

(* Sequences, with redirects on the way, and with links back.               *)
Some == {{}, {a}, {b}, {c}, {a, b}, {b, c}}
Linked == {Html([Page EXCEPT !.next = S]) : S \in Some}
SequenceSites ==
  {s \in [Urls -> Linked \cup {Redirect(a), Redirect(b)}] :
    s[c] \in {Html([Page EXCEPT !.next = S]) : S \in {{}, {a}, {b}, {a, b}}}}
Paired == {Html([Page EXCEPT !.next = {n}, !.prev = P]) : n \in Urls, P \in {{}, {a}, {a, c}}}
PairedSites ==
  {s \in [Urls -> Paired \cup {Redirect(a), Refused}] :
    s[c] \in {Redirect(a), Html([Page EXCEPT !.next = {b}, !.prev = {a}])}}

\* Links to whatever a URL can lead to.
LinkingSites ==
  {s \in [Urls -> {Html([Page EXCEPT !.next = S]) : S \in {{b}, {b, Junk}}}
                  \cup Moved \cup Failing \cup {Answer(999, "html", Page), Html(Page)}] :
    /\ s[a].kind = "answer" /\ s[a].page.next # {}
    /\ s[b].kind = "answer" => s[b].page.next = {}
    /\ s[c] \in {Redirect(b), Blocked, Html(Page)}}

(* Languages and AMP.                                                        *)
Foreign == {Html([Page EXCEPT !.hreflang = S, !.canonical = u, !.amp = S]) :
              S \in {{}, {a}, {b, c}}, u \in {None, a}}
ForeignSites ==
  {s \in [Urls -> Foreign \cup {Redirect(b)}] : s[c] \in Foreign /\ s[c].page.canonical = None}

(* What the views look at.                                                   *)
Shapes == {[Page EXCEPT !.words = 0, !.noindex = TRUE], [Page EXCEPT !.cluster = None, !.evidence = 1],
           [Page EXCEPT !.hash = "other", !.doctype = FALSE], Page}
Seen == {[Html([page EXCEPT !.text = [e \in Elements |-> t]])
            EXCEPT !.status = status, !.type = type, !.cut = cut, !.secure = ~cut, !.header.noindex = cut,
                   !.script = IF cut THEN "off" ELSE "failed"] :
           page \in Shapes,
           t \in {Text(None, 0, 0), Text("blank", 1, 0), Text("Shoes", 2, 0), Text("shoes", 1, 2)},
           status \in {200, 503}, type \in {"html", "other", None}, cut \in BOOLEAN}
ViewSites == {[u \in Urls |-> IF u = c THEN Redirect(a) ELSE IF u = a THEN x ELSE Html(Page)] : x \in Seen}

AllSites == CanonicalSites \cup EndingSites \cup SequenceSites \cup PairedSites
            \cup LinkingSites \cup ForeignSites \cup ViewSites

(* What a comparison looks at is in the views, in how fetches end and in     *)
(* canonicals.                                                               *)
ComparedSites ==
  ViewSites \cup {s \in EndingSites : s[c] = Html(Page)} \cup {s \in CanonicalSites : s[c] = Redirect(a)}
=============================================================================
