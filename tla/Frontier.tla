------------------------------ MODULE Frontier ------------------------------
(***************************************************************************)
(* One run of a fallback capture backend: http_warc, which fetches pages    *)
(* with httpx and, for seeds that do not answer, with curl; and             *)
(* playwright_warc, whose browser visits them in a container and leaves a   *)
(* manifest from which the host writes the WARC.                            *)
(*                                                                         *)
(* A URL is a number, normalised; a page is HTML or something else.  Init,    *)
(* Next and Spec have the module's name, so that CrawlProofs can extend this *)
(* module and CrawlRun.                                                      *)
(***************************************************************************)
EXTENDS Integers, Sequences, FiniteSets, SequencesExt

CONSTANTS
    Urls,               \* the URLs that seeds, links and redirects lead to
    SeedLists,          \* the seeds that a job may have
    InScope,            \* the URLs that its scope rules allow
    Links,              \* the links on the HTML page of each URL
    SeedAttempts,       \* _SEED_FETCH_ATTEMPTS
    DiscoveredAttempts, \* _DISCOVERED_FETCH_ATTEMPTS
    CurlAttempts,       \* max_attempts of _curl_fetch_with_retries
    MaxRedirects        \* MAX_VALIDATED_REDIRECTS

ASSUME UrlsAssumption ==
    /\ Urls \subseteq Nat
    /\ SeedLists \subseteq Seq(Urls)
    /\ InScope \subseteq Urls
    /\ Links \in [Urls -> SUBSET Urls]
    /\ \A u \in Urls : IsFiniteSet(Links[u])
ASSUME FetchLimits ==
    /\ {SeedAttempts, DiscoveredAttempts, CurlAttempts} \subseteq Nat \ {0}
    /\ MaxRedirects \in Nat

VARIABLES
    backend,   \* "http_warc" or "playwright_warc"
    queue,     \* URLs still to be captured
    seen,      \* URLs that were ever queued
    seeds,     \* seed_urls
    at,        \* the URL being captured, and how far its fetch has got
    tried,     \* history: the URLs whose capture has ended
    requests,  \* history: requests made for the URL being captured
    found,     \* what the browser has left for the manifest, and the host has not read
    records,   \* the records in the WARC
    failed,    \* the counter of failures
    exit       \* "running", "writing" (the host reads the manifest), "ok" (0) or "failed" (1)

frontierVars == <<backend, queue, seen, seeds, at, tried, requests, found, records, failed, exit>>

Browser == backend = "playwright_warc"
Nothing == [url |-> 0, hop |-> 0, attempt |-> 0, redirects |-> 0, curl |-> FALSE]
Busy == at # Nothing
Running == exit = "running"

\* What a capture may send at most for one URL; the history saturates above it.
RequestBound == SeedAttempts + CurlAttempts + 2 * MaxRedirects

\* The numbers of a finite set, the least first.
InOrder(K) ==
    [k \in 1..Cardinality(K) |-> CHOOSE i \in K : Cardinality({j \in K : j <= i}) = k]

\* What a sequence has at these places.
Picked(s, K) == [k \in DOMAIN InOrder(K) |-> s[InOrder(K)[k]]]

\* The browser takes each seed once, http_warc as often as the job names it.
FrontierInit ==
    /\ backend \in {"http_warc", "playwright_warc"}
    /\ \E s \in SeedLists :
         LET allowed == {i \in DOMAIN s : s[i] \in InScope}
             firsts == {i \in allowed : \A j \in 1..(i - 1) : s[j] # s[i]}
         IN /\ queue = Picked(s, IF Browser THEN firsts ELSE allowed)
            /\ seen = {s[i] : i \in allowed}
            /\ seeds = seen
    /\ at = Nothing
    /\ tried = {}
    /\ requests = 0
    /\ found = <<>>
    /\ records = <<>>
    /\ failed = 0
    /\ exit = "running"

Take ==
    /\ Running
    /\ ~Busy
    /\ queue # <<>>
    /\ queue' = Tail(queue)
    /\ at' = [url |-> Head(queue), hop |-> Head(queue), attempt |-> 1, redirects |-> 0, curl |-> FALSE]
    /\ requests' = 0
    /\ UNCHANGED <<backend, seen, seeds, tried, found, records, failed, exit>>

\* Mutant: every new link is taken, in scope or not.
NewLinksAnywhere(u) == Links[u] \ seen

\* The links of a page that are in scope and new, in the order of their names.
NewLinks(u) == (Links[u] \cap InScope) \ seen
Enqueue(u) ==
    /\ queue' = queue \o InOrder(NewLinks(u))
    /\ seen' = seen \cup NewLinks(u)

EndOf(u) == at' = Nothing /\ tried' = tried \cup {u}
Request == requests' = IF requests > RequestBound THEN requests ELSE requests + 1
HasHtml(rs) == \E i \in DOMAIN rs : rs[i].html

-----------------------------------------------------------------------------
(* http_warc.  A step is one request and what the loop does with its answer. *)

Fetching == Running /\ ~Browser /\ Busy
Attempts == IF at.curl THEN CurlAttempts
            ELSE IF at.url \in seeds THEN SeedAttempts ELSE DiscoveredAttempts

\* Mutant: links are resolved for the URL that was asked for.
RespondRequested ==
    /\ Fetching
    /\ \E html \in BOOLEAN :
         /\ records' = Append(records, [url |-> at.hop, html |-> html])
         /\ IF html THEN Enqueue(at.url) ELSE UNCHANGED <<queue, seen>>
    /\ EndOf(at.url)
    /\ Request
    /\ UNCHANGED <<backend, seeds, found, failed, exit>>

\* An answer that is no redirect.  A status worth a retry is one too when no
\* attempt is left.  The record has the URL that answered.
Respond ==
    /\ Fetching
    /\ \E html \in BOOLEAN :
         /\ records' = Append(records, [url |-> at.hop, html |-> html])
         /\ IF html THEN Enqueue(at.hop) ELSE UNCHANGED <<queue, seen>>
    /\ EndOf(at.url)
    /\ Request
    /\ UNCHANGED <<backend, seeds, found, failed, exit>>

\* Mutant: each retry through curl counts its redirects from nothing.
FetchAgainAnew ==
    /\ Fetching
    /\ at.attempt < Attempts
    /\ at' = [at EXCEPT !.attempt = @ + 1, !.redirects = 0, !.hop = IF at.curl THEN @ ELSE at.url]
    /\ Request
    /\ UNCHANGED <<backend, queue, seen, seeds, tried, found, records, failed, exit>>

\* A timeout, a transport error or a retryable status.  httpx starts at the
\* URL again; curl goes on where redirects have led it.
FetchAgain ==
    /\ Fetching
    /\ at.attempt < Attempts
    /\ at' = [at EXCEPT !.attempt = @ + 1, !.hop = IF at.curl THEN @ ELSE at.url]
    /\ Request
    /\ UNCHANGED <<backend, queue, seen, seeds, tried, found, records, failed, exit>>

\* The last attempt fails on the wire: a seed goes to curl, which starts anew.
SwitchToCurl ==
    /\ Fetching
    /\ at.attempt = Attempts
    /\ ~at.curl
    /\ at.url \in seeds
    /\ at' = [url |-> at.url, hop |-> at.url, attempt |-> 1, redirects |-> 0, curl |-> TRUE]
    /\ Request
    /\ UNCHANGED <<backend, queue, seen, seeds, tried, found, records, failed, exit>>

GiveUpUrl ==
    /\ Fetching
    /\ at.attempt = Attempts
    /\ at.curl \/ at.url \notin seeds
    /\ failed' = failed + 1
    /\ EndOf(at.url)
    /\ Request
    /\ UNCHANGED <<backend, queue, seen, seeds, found, records, exit>>

\* Mutant: redirects are not counted.
FollowUncounted ==
    /\ Fetching
    /\ \E target \in InScope : at' = [at EXCEPT !.hop = target]
    /\ Request
    /\ UNCHANGED <<backend, queue, seen, seeds, tried, found, records, failed, exit>>

\* _validate_redirect_target accepts the target.
FollowRedirect ==
    /\ Fetching
    /\ at.redirects < MaxRedirects
    /\ \E target \in InScope : at' = [at EXCEPT !.hop = target, !.redirects = @ + 1]
    /\ Request
    /\ UNCHANGED <<backend, queue, seen, seeds, tried, found, records, failed, exit>>

\* No target, one out of scope, one that resolves to a private address, or one
\* redirect too many: the URL fails, whatever attempts are left.
RefuseRedirect ==
    /\ Fetching
    /\ failed' = failed + 1
    /\ EndOf(at.url)
    /\ Request
    /\ UNCHANGED <<backend, queue, seen, seeds, found, records, exit>>

\* An error that is no httpx.HTTPError (a URL that httpx cannot parse, a link
\* that urljoin cannot, a full disk) ends the run, before or after the record.
AbortCapture ==
    /\ Fetching
    /\ \/ UNCHANGED records
       \/ records' = Append(records, [url |-> at.hop, html |-> TRUE])
    /\ exit' = "failed"
    /\ at' = Nothing
    /\ Request
    /\ UNCHANGED <<backend, queue, seen, seeds, tried, found, failed>>

Done ==
    /\ Running
    /\ ~Browser
    /\ ~Busy
    /\ queue = <<>>
    /\ exit' = IF HasHtml(records) THEN "ok" ELSE "failed"
    /\ UNCHANGED <<backend, queue, seen, seeds, at, tried, requests, found, records, failed>>

-----------------------------------------------------------------------------
(* playwright_warc: first the container, then the host.                    *)

Visiting == Running /\ Browser /\ Busy

\* page.goto follows every redirect and script; nobody looks where it has led.
Visit ==
    /\ Visiting
    /\ \E reached \in Urls, html \in BOOLEAN :
         /\ found' = Append(found, [url |-> reached, html |-> html])
         /\ IF html THEN Enqueue(reached) ELSE UNCHANGED <<queue, seen>>
    /\ EndOf(at.url)
    /\ Request
    /\ UNCHANGED <<backend, seeds, records, failed, exit>>

\* The links of a page whose body cannot be written stay in the queue.
VisitFails ==
    /\ Visiting
    /\ \/ UNCHANGED <<queue, seen>>
       \/ \E reached \in Urls : Enqueue(reached)
    /\ failed' = failed + 1
    /\ EndOf(at.url)
    /\ Request
    /\ UNCHANGED <<backend, seeds, found, records, exit>>

\* The container dies, at the latest before it has written the manifest.
ContainerDies ==
    /\ Running
    /\ Browser
    /\ exit' = "failed"
    /\ at' = Nothing
    /\ UNCHANGED <<backend, queue, seen, seeds, tried, requests, found, records, failed>>

WriteManifest ==
    /\ Running
    /\ Browser
    /\ ~Busy
    /\ queue = <<>>
    /\ exit' = "writing"
    /\ UNCHANGED <<backend, queue, seen, seeds, at, tried, requests, found, records, failed>>

\* The host copies the next page into the WARC, or misses its body.
WriteRecord ==
    /\ exit = "writing"
    /\ found # <<>>
    /\ found' = Tail(found)
    /\ \/ records' = Append(records, Head(found)) /\ UNCHANGED failed
       \/ failed' = failed + 1 /\ UNCHANGED records
    /\ UNCHANGED <<backend, queue, seen, seeds, at, tried, requests, exit>>

\* The disk is full, or the host is killed.
WriteFails ==
    /\ exit = "writing"
    /\ exit' = "failed"
    /\ UNCHANGED <<backend, queue, seen, seeds, at, tried, requests, found, records, failed>>

\* The exit code of the container counts as well.
Written ==
    /\ exit = "writing"
    /\ found = <<>>
    /\ exit' \in {"failed"} \cup (IF HasHtml(records) THEN {"ok"} ELSE {})
    /\ UNCHANGED <<backend, queue, seen, seeds, at, tried, requests, found, records, failed>>

-----------------------------------------------------------------------------
FrontierNext ==
    \/ Take
    \/ Respond \/ FetchAgain \/ SwitchToCurl \/ GiveUpUrl \/ FollowRedirect \/ RefuseRedirect \/ AbortCapture \/ Done
    \/ Visit \/ VisitFails \/ ContainerDies \/ WriteManifest
    \/ WriteRecord \/ WriteFails \/ Written

FrontierSpec == FrontierInit /\ [][FrontierNext]_frontierVars

\* Requests time out, and the container and the host have nothing to wait for.
FairFrontier == FrontierSpec /\ WF_frontierVars(FrontierNext)

-----------------------------------------------------------------------------
(* Properties.                                                             *)

\* The type of the state; what is queued or captured has been seen, in scope.
FrontierTypeOK ==
    /\ backend \in {"http_warc", "playwright_warc"}
    /\ queue \in Seq(InScope) /\ seen \subseteq InScope /\ seeds \subseteq seen
    /\ ToSet(queue) \cup tried \subseteq seen
    /\ Busy => /\ at.url \in seen /\ at.hop \in Urls /\ at.curl \in BOOLEAN
               /\ at.attempt \in 1..Attempts /\ at.redirects \in 0..MaxRedirects
    /\ requests \in 0..RequestBound + 1
    /\ found \in Seq([url : Urls, html : BOOLEAN])
    /\ records \in Seq([url : Urls, html : BOOLEAN])
    /\ failed \in Nat
    /\ exit \in {"running", "writing", "ok", "failed"}

\* A capture that ends well has an HTML page, and has tried every seed in
\* scope and every link in scope of every HTML page that is in its WARC,
\* whatever redirects, retries and failures led there
\* (http_warc_backend.run_http_warc_capture, run_playwright_warc_capture).
CaptureComplete ==
    exit = "ok" =>
        /\ HasHtml(records)
        /\ seeds \subseteq tried
        /\ \A i \in DOMAIN records :
               records[i].html => Links[records[i].url] \cap InScope \subseteq tried

\* http_warc sends requests in scope only, and no more of them for one URL than
\* attempts and redirects add up to, also when both transports are tried
\* (http_warc_backend._fetch_with_retries, _curl_fetch_with_retries).
RequestsBounded ==
    ~Browser /\ Busy =>
        /\ at.hop \in InScope
        /\ requests <= IF at.url \in seeds THEN RequestBound ELSE DiscoveredAttempts + MaxRedirects

\* Link cycles, redirect cycles and duplicate seeds keep no capture going
\* forever (http_warc_backend.run_http_warc_capture).
EveryCaptureEnds == <>(exit \in {"ok", "failed"})

=============================================================================
