---------------------------- MODULE CrawlFrontier ----------------------------
(***************************************************************************)
(* Which pages a job fetches, follows and ships (job.go): the handlers of  *)
(* GET and HEAD responses, enqueueLinks with its table of seen URLs, and   *)
(* the options that steer them.                                            *)
(*                                                                         *)
(* A URL is a string: the seed and added pages are taken as they are       *)
(* given, while enqueueLinks normalises every link before it looks at it.  *)
(* A regular expression is the set of URLs or anchor texts that it         *)
(* matches; a page is its set of links.  Commands wait in no particular    *)
(* order: each host has a queue and a loop of its own.  enqueueLinks holds *)
(* j.mu from its first link to its last, so it is one step; the queue may  *)
(* be closed in the middle of it, and then the rest of its links are not   *)
(* sent.                                                                   *)
(***************************************************************************)
EXTENDS Integers, FiniteSets

CONSTANTS
  Urls,         \* URLs, normalised or not
  Normal,       \* what purell.NormalizeURL makes of each
  Anchors,      \* anchor texts
  NoAnchor,     \* the empty one, which seeds and added pages have
  Links,        \* the links of each page, resolved: pairs of URL and anchor text
  SiteUrls,     \* URLs on the domain of the seed
  FollowUrls,   \* URLs that followUrlRegexp matches
  CallbackUrls, \* URLs that callbackUrlRegexp matches
  CallbackAnchors,  \* anchor texts that callbackAnchorTextRegexp matches
  XpathPages,   \* pages with all the values of callbackXpathMatch
  XpathRePages, \* pages with all the values of callbackXpathRegexp
  Options,      \* the sets of options that jobs are created with
  Seeds,        \* the seed URL, if there is one
  Added         \* URLs that clients add with AddPages, each once

CallbackPatterns == {"callbackUrl", "callbackAnchor", "xpath", "xpathRe"}
Patterns == {"follow"} \union CallbackPatterns

Option ==
  [noFollow : BOOLEAN, depth : Int, checkContent : BOOLEAN,
   callbackSeedUrl : BOOLEAN, followOtherDomains : BOOLEAN,
   given : SUBSET Patterns]       \* the patterns that are not empty

ASSUME FrontierAssumption ==
  /\ NoAnchor \in Anchors
  /\ Normal \in [Urls -> Urls]
  /\ \A u \in Urls : Normal[Normal[u]] = Normal[u]
  /\ Links \in [Urls -> SUBSET (Urls \X Anchors)]
  /\ Seeds \subseteq Urls /\ Added \subseteq Urls
  /\ \A s, t \in Seeds : s = t
  /\ Options \subseteq Option

VARIABLES
  opts,        \* j.opts, fixed when the job is created
  duplicates,  \* j.duplicates
  pending,     \* commands sent to the queue and not handled
  sent,        \* URLs that a command was ever sent for
  gets,        \* GET commands sent for each URL, by what asked for it
  read,        \* pages whose GET was answered
  failed,      \* URLs a command of which was dropped or answered with an error
  shipped,     \* pages sent to the client, with the depth they were sent at
  toAdd,       \* URLs that clients have yet to add
  closed       \* q.closed is closed

vars == <<opts, duplicates, pending, sent, gets, read, failed, shipped, toAdd,
          closed>>

\* A command is asked for by the seed, by AddPages or by a link.
Vias == {"seed", "page", "link"}

Command == [url : Urls, method : {"GET", "HEAD"}, depth : Nat,
            anchor : Anchors, via : Vias]

TypeOK ==
  /\ opts \in Options
  /\ duplicates \subseteq Urls /\ sent \subseteq Urls
  /\ read \subseteq Urls /\ failed \subseteq Urls /\ toAdd \subseteq Added
  /\ pending \subseteq Command
  /\ gets \in [Vias -> [Urls -> Nat]]
  /\ shipped \subseteq [url : Urls, depth : Nat, via : Vias]
  /\ closed \in BOOLEAN

-----------------------------------------------------------------------------
(* The options.                                                            *)

Matches(p, x, set) == p \notin opts.given \/ x \in set

\* A slip: the depth limit is off by one.
FollowsOneMore(cmd) ==
  /\ ~opts.noFollow
  /\ Matches("follow", cmd.url, FollowUrls)
  /\ opts.depth < 0 \/ cmd.depth <= opts.depth

\* A slip: followUrlRegexp is not looked at.
FollowsAny(cmd) ==
  /\ ~opts.noFollow
  /\ opts.depth < 0 \/ cmd.depth < opts.depth

\* The links of a page are followed: the condition in fetchHTTPGetHandler.
Follows(cmd) ==
  /\ ~opts.noFollow
  /\ Matches("follow", cmd.url, FollowUrls)
  /\ opts.depth < 0 \/ cmd.depth < opts.depth

\* checkEnqueueEligibility.
CheckEnqueueEligibility(url, anchor) ==
  \/ /\ Matches("callbackUrl", url, CallbackUrls)
     /\ Matches("callbackAnchor", anchor, CallbackAnchors)
  \/ Matches("follow", url, FollowUrls)

\* A job with a seed stays on its domain unless it is told otherwise.
OffSite(url) == Seeds # {} /\ ~opts.followOtherDomains /\ url \notin SiteUrls

\* callbackPage of fetchHTTPGetHandler.
CallbackPage(cmd) ==
  \/ opts.callbackSeedUrl /\ cmd.depth = 0
  \/ opts.given \cap {"callbackUrl", "xpath", "xpathRe"} = {}
  \/ "callbackUrl" \in opts.given /\ cmd.url \in CallbackUrls
  \/ "callbackAnchor" \in opts.given /\ cmd.anchor \in CallbackAnchors
  \/ "xpath" \in opts.given /\ cmd.url \in XpathPages
  \/ "xpathRe" \in opts.given /\ cmd.url \in XpathRePages

-----------------------------------------------------------------------------
\* A slip: the seed is one level above its links' parents.
SeedCommandAbove(url) == [url |-> url, method |-> "GET", depth |-> -1,
                          anchor |-> NoAnchor, via |-> "seed"]

SeedCommand(url) == [url |-> url, method |-> "GET", depth |-> 0,
                     anchor |-> NoAnchor, via |-> "seed"]

Init ==
  /\ opts \in Options
  /\ duplicates = Seeds
  /\ pending = {SeedCommand(url) : url \in Seeds}
  /\ sent = Seeds
  /\ gets = [v \in Vias |-> [u \in Urls |->
              IF u \in Seeds /\ v = "seed" THEN 1 ELSE 0]]
  /\ read = {} /\ failed = {} /\ shipped = {}
  /\ toAdd = Added
  /\ closed = FALSE

\* The goroutine of RunJob that reads reqChan; it does not look at duplicates.
AddPage(url, method) ==
  /\ ~closed
  /\ url \in toAdd
  /\ toAdd' = toAdd \ {url}
  /\ pending' = pending \union
       {[url |-> url, method |-> method, depth |-> 0, anchor |-> NoAnchor,
         via |-> "page"]}
  /\ sent' = sent \union {url}
  /\ gets' = IF method = "GET" THEN [gets EXCEPT !["page"][url] = @ + 1]
                               ELSE gets
  /\ UNCHANGED <<opts, duplicates, read, failed, shipped, closed>>

\* A command is dropped, or answered with an error: nothing is followed.  The
\* page that tells the client of the error is not counted in shipped.
Fail(cmd) ==
  /\ pending' = pending \ {cmd}
  /\ failed' = failed \union {cmd.url}
  /\ UNCHANGED <<opts, duplicates, sent, gets, read, shipped, toAdd, closed>>

\* fetchHTTPHeadHandler: a GET of the same URL, at depth 0 and without the
\* anchor text, as the new command does not copy them.
HeadHandler(cmd) ==
  /\ cmd.method = "HEAD"
  /\ IF closed
       THEN /\ pending' = pending \ {cmd}
            /\ failed' = failed \union {cmd.url}
            /\ UNCHANGED gets
       ELSE /\ pending' = (pending \ {cmd}) \union
                 {[url |-> cmd.url, method |-> "GET", depth |-> 0,
                   anchor |-> NoAnchor, via |-> cmd.via]}
            /\ gets' = [gets EXCEPT ![cmd.via][cmd.url] = @ + 1]
            /\ UNCHANGED failed
  /\ UNCHANGED <<opts, duplicates, sent, read, shipped, toAdd, closed>>

\* A slip: links are looked up as they are written.
FoundRaw(url) == Links[url]

\* The links that enqueueLinks finds on a page, in normal form.
Found(url) == {<<Normal[l[1]], l[2]>> : l \in Links[url]}

\* A slip: duplicates is not looked at.
NewLinksUnchecked(url) ==
  {l \in Found(url) : CheckEnqueueEligibility(l[1], l[2])}

\* The links of a page that enqueueLinks has not seen and may enqueue.
NewLinks(url) ==
  {l \in Found(url) : /\ l[1] \notin duplicates
                      /\ CheckEnqueueEligibility(l[1], l[2])}

\* A slip: links keep the depth of their page.
LinkCommandsFlat(cmd, urls) ==
  {[url |-> l[1], method |-> IF opts.checkContent THEN "HEAD" ELSE "GET",
    depth |-> cmd.depth, anchor |-> l[2], via |-> "link"] :
    l \in {k \in NewLinks(cmd.url) : k[1] \in urls}}

\* The commands for new links: one for each URL, with the anchor text of one of
\* its links.
LinkCommands(cmd, urls) ==
  {[url |-> l[1], method |-> IF opts.checkContent THEN "HEAD" ELSE "GET",
    depth |-> cmd.depth + 1, anchor |-> l[2], via |-> "link"] :
    l \in {k \in NewLinks(cmd.url) : k[1] \in urls}}

\* A slip: links are marked as seen before they are found eligible.
EnqueueLinksMarkFirst(cmd, urls) ==
  \E cmds \in SUBSET LinkCommands(cmd, urls) :
    /\ \A u \in urls : \E k \in cmds : k.url = u
    /\ \A j, k \in cmds : j.url = k.url => j = k
    /\ pending' = (pending \ {cmd}) \union cmds
    /\ duplicates' = duplicates \union {l[1] : l \in Found(cmd.url)}
    /\ sent' = sent \union urls
    /\ gets' = IF opts.checkContent THEN gets
               ELSE [gets EXCEPT !["link"] =
                         [u \in Urls |-> IF u \in urls THEN @[u] + 1 ELSE @[u]]]

\* What enqueueLinks does with the new links of a page, of which it sends the
\* ones in urls.  Links to other sites are marked as seen, and so are those
\* that were sent; the ones that Send refused are not.
EnqueueLinks(cmd, urls) ==
  LET off == {l[1] : l \in {k \in NewLinks(cmd.url) : OffSite(k[1])}}
  IN  \E cmds \in SUBSET LinkCommands(cmd, urls) :
        /\ \A u \in urls : \E k \in cmds : k.url = u
        /\ \A j, k \in cmds : j.url = k.url => j = k
        /\ pending' = (pending \ {cmd}) \union cmds
        /\ duplicates' = duplicates \union off \union urls
        /\ sent' = sent \union urls
        /\ gets' = IF opts.checkContent THEN gets
                   ELSE [gets EXCEPT !["link"] =
                             [u \in Urls |-> IF u \in urls THEN @[u] + 1 ELSE @[u]]]

\* The URLs that enqueueLinks sends if the queue stays open.
ToSend(cmd) == {l[1] : l \in {k \in NewLinks(cmd.url) : ~OffSite(k[1])}}

Ship(cmd) ==
  shipped' = IF CallbackPage(cmd)
               THEN shipped \union
                      {[url |-> cmd.url, depth |-> cmd.depth, via |-> cmd.via]}
               ELSE shipped

\* fetchHTTPGetHandler of a page whose links are not followed.
GetHandler(cmd) ==
  /\ cmd.method = "GET"
  /\ ~Follows(cmd)
  /\ read' = read \union {cmd.url}
  /\ pending' = pending \ {cmd}
  /\ Ship(cmd)
  /\ UNCHANGED <<opts, duplicates, sent, gets, failed, toAdd, closed>>

\* fetchHTTPGetHandler of a page whose links are followed: all of them are sent,
\* or the queue was closed before or in the middle of it.
GetAndFollow(cmd) ==
  /\ cmd.method = "GET"
  /\ Follows(cmd)
  /\ read' = read \union {cmd.url}
  /\ \/ /\ ~closed
        /\ EnqueueLinks(cmd, ToSend(cmd))
        /\ UNCHANGED closed
     \/ /\ ~closed
        /\ \E urls \in SUBSET ToSend(cmd) : EnqueueLinks(cmd, urls)
        /\ closed' = TRUE
     \/ closed /\ EnqueueLinks(cmd, {}) /\ UNCHANGED closed
  /\ Ship(cmd)
  /\ UNCHANGED <<opts, failed, toAdd>>

\* The job is cancelled or has been idle.
CloseQueue ==
  /\ ~closed
  /\ closed' = TRUE
  /\ UNCHANGED <<opts, duplicates, pending, sent, gets, read, failed, shipped,
                 toAdd>>

Next ==
  \/ \E url \in Added, method \in {"GET", "HEAD"} : AddPage(url, method)
  \/ \E cmd \in pending :
       Fail(cmd) \/ HeadHandler(cmd) \/ GetHandler(cmd) \/ GetAndFollow(cmd)
  \/ CloseQueue

Spec == Init /\ [][Next]_vars

-----------------------------------------------------------------------------
(* What the crawl promises.                                                *)

\* How often the crawl itself has fetched a URL.
Crawled(url) == gets["seed"][url] + gets["link"][url]

\* The seed is marked as seen as it is given, and links in normal form.
RawSeeds == {s \in Seeds : Normal[s] # s}

(***************************************************************************)
(* duplicates keeps a job from fetching a URL twice, whatever the order in *)
(* which the pages that link to it are read and however they spell it: the *)
(* crawl fetches a URL once, under one spelling, and once more if a client *)
(* adds it.  The one exception is a seed that is not in normal form, which *)
(* a link to it finds again under another name.                            *)
(***************************************************************************)
FetchedOnce ==
  /\ \A url \in Urls : /\ Crawled(url) <= 1
                       /\ gets["page"][url] <= (IF url \in Added \ toAdd THEN 1 ELSE 0)
  /\ \A u, w \in Urls :
       /\ u # w /\ Normal[u] = Normal[w]
       /\ Crawled(u) > 0 /\ Crawled(w) > 0
       => {u, w} \cap RawSeeds # {}

\* The options let a job get from page p to where its link l points.
Reaches(p, l) ==
  /\ ~opts.noFollow
  /\ Matches("follow", p, FollowUrls)
  /\ \/ Matches("follow", l[1], FollowUrls)
     \/ /\ Matches("callbackUrl", l[1], CallbackUrls)
        /\ Matches("callbackAnchor", l[2], CallbackAnchors)
  /\ Seeds = {} \/ opts.followOtherDomains \/ l[1] \in SiteUrls

\* A set of URLs that has what clients ask for and what can be reached from it.
Closed(S) ==
  /\ Seeds \union Added \subseteq S
  /\ \A p \in S : \A l \in Found(p) : Reaches(p, l) => l[1] \in S

(***************************************************************************)
(* Nothing is fetched that the options exclude: every URL is a seed, was   *)
(* added, or is reached through pages that match followUrlRegexp by links  *)
(* that are eligible and on the site.                                      *)
(***************************************************************************)
NothingElse == \A S \in SUBSET Urls : sent \subseteq S \/ ~Closed(S)

(***************************************************************************)
(* Nothing is missed: when an open queue has run out of commands, a job    *)
(* without a depth limit has sent every URL that it should reach from the  *)
(* pages it could read, in whatever order it read them.                    *)
(***************************************************************************)
NothingMissed ==
  pending = {} /\ ~closed /\ opts.depth < 0 =>
    /\ sent \subseteq read \union failed
    /\ \A p \in read : \A l \in Found(p) : Reaches(p, l) => l[1] \in sent

\* A path of n links, each of them one that the options let a job follow, leads
\* from what clients ask for to url.
Path(n, url) ==
  \E p \in [0..n -> Urls] :
    /\ p[0] \in Seeds \union Added
    /\ p[n] = url
    /\ \A i \in 0..(n - 1) :
         \E l \in Found(p[i]) : l[1] = p[i + 1] /\ Reaches(p[i], l)

(***************************************************************************)
(* A job with a depth limit that sends no HEAD requests fetches nothing    *)
(* that is further away: whatever the order in which pages are read, a     *)
(* path within the limit leads to each URL that it sends a command for.    *)
(***************************************************************************)
DepthRespected ==
  opts.depth >= 0 /\ ~opts.checkContent =>
    \A url \in sent : \E n \in 0..opts.depth : Path(n, url)

\* A client asked for the page by its URL, a pattern matches it, or none is given.
AskedFor(s) ==
  \/ opts.callbackSeedUrl /\ s.via # "link"
  \/ opts.given \cap CallbackPatterns = {}
  \/ "callbackUrl" \in opts.given /\ s.url \in CallbackUrls
  \/ "callbackAnchor" \in opts.given
       /\ \E p \in Urls : \E l \in Found(p) :
            l[1] = s.url /\ l[2] \in CallbackAnchors
  \/ "callbackAnchor" \in opts.given /\ NoAnchor \in CallbackAnchors
  \/ "xpath" \in opts.given /\ s.url \in XpathPages
  \/ "xpathRe" \in opts.given /\ s.url \in XpathRePages

\* Of the patterns that say what to ship, only callbackAnchorTextRegexp is given:
\* fetchHTTPGetHandler does not count it when it asks whether there is one.
AnchorOnly == opts.given \cap CallbackPatterns = {"callbackAnchor"}

(***************************************************************************)
(* A job that fetches pages without looking at their type first, and that  *)
(* has a pattern for their URL or content or none at all, ships what it    *)
(* was asked for and nothing else, although the command that fetches a     *)
(* page is made by the handler of another one, and its depth and anchor    *)
(* text decide.  (With a pattern for anchor texts alone it ships all.)     *)
(***************************************************************************)
ShippedAsAsked ==
  ~opts.checkContent /\ ~AnchorOnly => \A s \in shipped : AskedFor(s)

-----------------------------------------------------------------------------
(* What ideacrawler.proto says of every job, where the code does otherwise *)

\* callbackSeedUrl: "If true ships the page at depth 0, else only pattern matched
\* urls are shipped" (ideacrawler.proto).
ShippedAsDocumented == \A s \in shipped : AskedFor(s)
=============================================================================
