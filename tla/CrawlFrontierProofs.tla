------------------------ MODULE CrawlFrontierProofs ------------------------
(***************************************************************************)
(* Proofs about CrawlFrontier: for every site, all options and every order *)
(* in which pages are read, a job fetches a URL once, fetches nothing that *)
(* its options exclude, and misses nothing that they reach.                *)
(***************************************************************************)
EXTENDS CrawlFrontier, TLAPS

-----------------------------------------------------------------------------
(* The inductive invariants.                                               *)

\* GET commands are counted when they are sent.  A HEAD command is the promise
\* of a GET, so there is one of them for a URL or one GET, and none before the
\* URL was marked as seen, or was added.
OncePerAsker == \A u \in Urls, v \in Vias : gets[v][u] <= 1

UnseenIsUnsent ==
  \A u \in Urls : u \notin duplicates \/ u \in Seeds => gets["link"][u] = 0

SeedsAreSeen ==
  /\ Seeds \subseteq duplicates
  /\ \A u \in Urls : u \notin Seeds => gets["seed"][u] = 0

UnaddedIsUnsent ==
  \A u \in Urls : u \notin Added \ toAdd => gets["page"][u] = 0

\* What enqueueLinks sends is in normal form.
LinksAreNormal == \A u \in Urls : gets["link"][u] > 0 => Normal[u] = u

Heads == {c \in pending : c.method = "HEAD"}

HeadsArePromises ==
  /\ \A c \in Heads : /\ c.via # "seed"
                      /\ gets[c.via][c.url] = 0
                      /\ c.via = "page" => c.url \in Added \ toAdd
                      /\ c.via = "link" => /\ c.url \in duplicates \ Seeds
                                           /\ Normal[c.url] = c.url
  /\ \A c, d \in Heads : c.url = d.url /\ c.via = d.via => c = d

OnceInv == /\ OncePerAsker /\ UnseenIsUnsent /\ SeedsAreSeen
           /\ UnaddedIsUnsent /\ LinksAreNormal /\ HeadsArePromises

\* Commands are for URLs that were sent.
PendingIsSent == \A c \in pending : c.url \in sent

\* What was sent is still to be handled, or has been.
SentIsHandled ==
  \A u \in sent : u \in read \union failed \/ \E c \in pending : c.url = u

\* A URL is marked as seen because it was sent or is on another site.
SeenIsSent == \A u \in duplicates : u \in sent \/ OffSite(u)

\* What can be reached from the pages that were read was sent.
ReadIsFollowed ==
  ~closed /\ opts.depth < 0 =>
    \A p \in read : \A l \in Found(p) : Reaches(p, l) => l[1] \in sent

\* The anchor text c has is that of a link to its URL.
AnchoredBy(c) == \E p \in Urls : \E l \in Found(p) :
                   l[1] = c.url /\ l[2] = c.anchor

\* Without HEAD requests, a command for a link knows that it is one.
LabelInv ==
  ~opts.checkContent => \A c \in pending :
    /\ c.via # "link" => c.anchor = NoAnchor
    /\ c.via = "link" => c.method = "GET" /\ c.depth > 0 /\ AnchoredBy(c)

\* Without HEAD requests for links, a command knows how far its URL is away, and
\* is within the limit.
WithinLimit(c) ==
  /\ Path(c.depth, c.url)
  /\ c.method = "HEAD" => c.depth = 0
  /\ opts.depth >= 0 => c.depth <= opts.depth

DepthInv == ~opts.checkContent => \A c \in pending : WithinLimit(c)

FoundInv == PendingIsSent /\ SentIsHandled /\ SeenIsSent /\ ReadIsFollowed

-----------------------------------------------------------------------------
(* What enqueueLinks does, in the terms of the invariants.                 *)

\* The links that are found on a page have types, and are in normal form.
LEMMA FoundType ==
  ASSUME NEW url \in Urls, NEW l \in Found(url)
  PROVE  l[1] \in Urls /\ l[2] \in Anchors /\ Normal[l[1]] = l[1]
<1>1. PICK k \in Links[url] : l = <<Normal[k[1]], k[2]>>
  BY DEF Found
<1>2. k[1] \in Urls /\ k[2] \in Anchors
  BY FrontierAssumption
<1> QED
  BY <1>1, <1>2, FrontierAssumption

LEMMA LinkType ==
  ASSUME TypeOK, NEW cmd \in pending
  PROVE  /\ cmd \in Command
         /\ \A l \in Found(cmd.url) :
              l[1] \in Urls /\ l[2] \in Anchors /\ Normal[l[1]] = l[1]
BY FoundType DEF TypeOK, Command

\* The commands of new links are one level down, and new.
LEMMA LinkCommandsFacts ==
  ASSUME TypeOK, NEW cmd \in pending, NEW urls
  PROVE  \A k \in LinkCommands(cmd, urls) :
           /\ k \in Command
           /\ k.url \in urls /\ k.url \notin duplicates
           /\ k.via = "link"
           /\ k.method = IF opts.checkContent THEN "HEAD" ELSE "GET"
<1> SUFFICES ASSUME NEW l \in NewLinks(cmd.url), l[1] \in urls,
                    NEW k, k = [url |-> l[1],
                                method |-> IF opts.checkContent THEN "HEAD"
                                                                ELSE "GET",
                                depth |-> cmd.depth + 1, anchor |-> l[2],
                                via |-> "link"]
             PROVE  /\ k \in Command
                    /\ k.url \in urls /\ k.url \notin duplicates
                    /\ k.via = "link"
                    /\ k.method = IF opts.checkContent THEN "HEAD" ELSE "GET"
  BY DEF LinkCommands
<1>1. l \in Found(cmd.url) /\ l[1] \notin duplicates
  BY DEF NewLinks
<1>2. l[1] \in Urls /\ l[2] \in Anchors /\ cmd.depth + 1 \in Nat
  BY <1>1, LinkType DEF Command
<1> QED
  BY <1>1, <1>2 DEF Command, Vias

\* The URLs to send are new, on the site, and reached from the page.
LEMMA ToSendFacts ==
  ASSUME TypeOK, NEW cmd \in pending, NEW u \in ToSend(cmd)
  PROVE  /\ u \in Urls \ duplicates /\ Normal[u] = u
         /\ Follows(cmd) => \E l \in Found(cmd.url) : l[1] = u /\ Reaches(cmd.url, l)
<1>1. PICK l \in NewLinks(cmd.url) : l[1] = u /\ ~OffSite(u)
  BY DEF ToSend
<1>2. /\ l \in Found(cmd.url) /\ u \notin duplicates
      /\ CheckEnqueueEligibility(l[1], l[2])
  BY <1>1 DEF NewLinks
<1>3. u \in Urls /\ Normal[u] = u
  BY <1>1, <1>2, LinkType
<1>4. Follows(cmd) => Reaches(cmd.url, l)
  BY <1>1, <1>2 DEF Follows, Reaches, CheckEnqueueEligibility, OffSite
<1> QED
  BY <1>1, <1>2, <1>3, <1>4

\* Every link that a page reaches is to be sent, or was seen.
LEMMA ReachedIsToSend ==
  ASSUME NEW cmd \in pending, NEW l \in Found(cmd.url), Reaches(cmd.url, l)
  PROVE  ~OffSite(l[1]) /\ (l[1] \in ToSend(cmd) \/ l[1] \in duplicates)
<1>1. ~OffSite(l[1]) /\ CheckEnqueueEligibility(l[1], l[2])
  BY DEF Reaches, OffSite, CheckEnqueueEligibility
<1>2. l[1] \notin duplicates => l \in NewLinks(cmd.url)
  BY <1>1 DEF NewLinks
<1> QED
  BY <1>1, <1>2 DEF ToSend

\* The part of fetchHTTPGetHandler that follows links, with its witnesses.
FollowStep(cmd, urls, off, cmds) ==
  /\ urls \subseteq ToSend(cmd)
  /\ closed' \/ urls = ToSend(cmd)
  /\ off \subseteq Urls \ duplicates /\ \A u \in off : OffSite(u)
  /\ cmds \subseteq LinkCommands(cmd, urls)
  /\ \A u \in urls : \E k \in cmds : k.url = u
  /\ \A j, k \in cmds : j.url = k.url => j = k
  /\ pending' = (pending \ {cmd}) \union cmds
  /\ duplicates' = duplicates \union off \union urls
  /\ sent' = sent \union urls
  /\ gets' = IF opts.checkContent THEN gets
             ELSE [gets EXCEPT !["link"] =
                       [u \in Urls |-> IF u \in urls THEN @[u] + 1 ELSE @[u]]]
  /\ read' = read \union {cmd.url}
  /\ closed' \in BOOLEAN /\ (closed => closed')
  /\ opts' = opts /\ failed' = failed /\ toAdd' = toAdd

LEMMA FollowWitness ==
  ASSUME TypeOK, NEW cmd \in pending, GetAndFollow(cmd)
  PROVE  \E urls, off, cmds : FollowStep(cmd, urls, off, cmds)
<1> DEFINE Off == {l[1] : l \in {k \in NewLinks(cmd.url) : OffSite(k[1])}}
<1>1. /\ Off \subseteq Urls \ duplicates
      /\ \A u \in Off : OffSite(u)
  BY LinkType DEF NewLinks
<1>2. \E urls : /\ EnqueueLinks(cmd, urls)
                /\ urls \subseteq ToSend(cmd)
                /\ closed' \/ urls = ToSend(cmd)
                /\ closed' \in BOOLEAN /\ (closed => closed')
  <2>0. closed \in BOOLEAN
    BY DEF TypeOK
  <2>1. CASE ~closed /\ EnqueueLinks(cmd, ToSend(cmd)) /\ closed' = closed
    BY <2>0, <2>1, Zenon
  <2>2. CASE /\ \E urls \in SUBSET ToSend(cmd) : EnqueueLinks(cmd, urls)
             /\ closed' = TRUE
    BY <2>2, Zenon
  <2>3. CASE closed /\ EnqueueLinks(cmd, {}) /\ closed' = closed
    BY <2>0, <2>3, Zenon
  <2> QED
    BY <2>1, <2>2, <2>3, Zenon DEF GetAndFollow
<1>3. PICK urls : /\ EnqueueLinks(cmd, urls)
                  /\ urls \subseteq ToSend(cmd)
                  /\ closed' \/ urls = ToSend(cmd)
                  /\ closed' \in BOOLEAN /\ (closed => closed')
  BY <1>2
<1>4. PICK cmds \in SUBSET LinkCommands(cmd, urls) :
        /\ \A u \in urls : \E k \in cmds : k.url = u
        /\ \A j, k \in cmds : j.url = k.url => j = k
        /\ pending' = (pending \ {cmd}) \union cmds
        /\ duplicates' = duplicates \union Off \union urls
        /\ sent' = sent \union urls
        /\ gets' = IF opts.checkContent THEN gets
                   ELSE [gets EXCEPT !["link"] =
                             [u \in Urls |-> IF u \in urls THEN @[u] + 1 ELSE @[u]]]
  BY <1>3, Zenon DEF EnqueueLinks
<1>5. /\ read' = read \union {cmd.url}
      /\ opts' = opts /\ failed' = failed /\ toAdd' = toAdd
  BY DEF GetAndFollow
<1> HIDE DEF Off
<1>6. FollowStep(cmd, urls, Off, cmds)
  BY <1>1, <1>3, <1>4, <1>5 DEF FollowStep
<1> QED
  BY <1>6

-----------------------------------------------------------------------------
(* The type invariant.                                                     *)

LEMMA ShipType ==
  ASSUME TypeOK, NEW cmd \in pending, Ship(cmd)
  PROVE  shipped' \subseteq [url : Urls, depth : Nat, via : Vias]
BY DEF TypeOK, Ship, Command

LEMMA TypeInit == Init => TypeOK
<1> SUFFICES ASSUME Init PROVE TypeOK
  OBVIOUS
<1>1. pending \subseteq Command
  BY FrontierAssumption DEF Init, SeedCommand, Command, Vias
<1>2. gets \in [Vias -> [Urls -> Nat]]
  BY DEF Init
<1> QED
  BY <1>1, <1>2, FrontierAssumption DEF Init, TypeOK

LEMMA TypeStep == TypeOK /\ [Next]_vars => TypeOK'
<1> SUFFICES ASSUME TypeOK, [Next]_vars PROVE TypeOK'
  OBVIOUS
<1>1. ASSUME NEW url \in Added, NEW method \in {"GET", "HEAD"},
             AddPage(url, method)
      PROVE  TypeOK'
  <2>1. url \in Urls /\ "page" \in Vias
    BY FrontierAssumption DEF Vias
  <2>2. [url |-> url, method |-> method, depth |-> 0, anchor |-> NoAnchor,
         via |-> "page"] \in Command
    BY <2>1, FrontierAssumption DEF Command
  <2>3. gets' \in [Vias -> [Urls -> Nat]]
    BY <1>1, <2>1 DEF AddPage, TypeOK
  <2> QED
    BY <1>1, <2>1, <2>2, <2>3 DEF AddPage, TypeOK
<1>2. ASSUME NEW cmd \in pending, Fail(cmd) PROVE TypeOK'
  BY <1>2 DEF Fail, TypeOK, Command
<1>3. ASSUME NEW cmd \in pending, HeadHandler(cmd) PROVE TypeOK'
  <2>1. cmd.url \in Urls /\ cmd.via \in Vias
    BY DEF TypeOK, Command
  <2>2. [url |-> cmd.url, method |-> "GET", depth |-> 0, anchor |-> NoAnchor,
         via |-> cmd.via] \in Command
    BY <2>1, FrontierAssumption DEF Command
  <2>3. gets' \in [Vias -> [Urls -> Nat]]
    BY <1>3, <2>1 DEF HeadHandler, TypeOK
  <2> QED
    BY <1>3, <2>1, <2>2, <2>3 DEF HeadHandler, TypeOK
<1>4. ASSUME NEW cmd \in pending, GetHandler(cmd) PROVE TypeOK'
  <2>1. shipped' \subseteq [url : Urls, depth : Nat, via : Vias]
    BY <1>4, ShipType DEF GetHandler
  <2>2. cmd.url \in Urls
    BY DEF TypeOK, Command
  <2> QED
    BY <1>4, <2>1, <2>2 DEF GetHandler, TypeOK
<1>5. ASSUME NEW cmd \in pending, GetAndFollow(cmd) PROVE TypeOK'
  <2>1. PICK urls, off, cmds : FollowStep(cmd, urls, off, cmds)
    BY <1>5, FollowWitness
  <2>2. shipped' \subseteq [url : Urls, depth : Nat, via : Vias]
    BY <1>5, ShipType DEF GetAndFollow
  <2>3. cmd.url \in Urls
    BY DEF TypeOK, Command
  <2>4. urls \subseteq Urls /\ cmds \subseteq Command
    BY <2>1, ToSendFacts, LinkCommandsFacts DEF FollowStep
  <2>5. gets' \in [Vias -> [Urls -> Nat]]
    <3>1. gets["link"] \in [Urls -> Nat]
      BY DEF TypeOK, Vias
    <3>2. [u \in Urls |-> IF u \in urls THEN gets["link"][u] + 1
                                       ELSE gets["link"][u]] \in [Urls -> Nat]
      BY <3>1
    <3> QED
      BY <2>1, <3>2 DEF FollowStep, TypeOK
  <2> QED
    BY <2>1, <2>2, <2>3, <2>4, <2>5 DEF FollowStep, TypeOK
<1>6. CASE CloseQueue
  BY <1>6 DEF CloseQueue, TypeOK
<1>7. CASE UNCHANGED vars
  BY <1>7 DEF vars, TypeOK
<1> QED
  BY <1>1, <1>2, <1>3, <1>4, <1>5, <1>6, <1>7 DEF Next

\* The variables of the crawl keep their types.
THEOREM TypeCorrect == Spec => []TypeOK
  BY TypeInit, TypeStep, PTL DEF Spec

-----------------------------------------------------------------------------
(* A URL is fetched once.                                                  *)

LEMMA OnceInit == Init => OnceInv
<1> SUFFICES ASSUME Init PROVE OnceInv
  OBVIOUS
<1>1. \A u \in Urls, v \in Vias :
        gets[v][u] = IF u \in Seeds /\ v = "seed" THEN 1 ELSE 0
  BY DEF Init
<1>2. Heads = {}
  BY DEF Init, Heads, SeedCommand
<1> QED
  BY <1>1, <1>2 DEF Init, OnceInv, OncePerAsker, UnseenIsUnsent, SeedsAreSeen,
       UnaddedIsUnsent, LinksAreNormal, HeadsArePromises, Vias

LEMMA OnceStep == TypeOK /\ TypeOK' /\ OnceInv /\ [Next]_vars => OnceInv'
<1> SUFFICES ASSUME TypeOK, TypeOK', OnceInv, [Next]_vars PROVE OnceInv'
  OBVIOUS
<1> USE DEF OnceInv, OncePerAsker, UnseenIsUnsent, SeedsAreSeen,
            UnaddedIsUnsent, LinksAreNormal, HeadsArePromises, Heads
<1>1. ASSUME NEW url \in Added, NEW method \in {"GET", "HEAD"},
             AddPage(url, method)
      PROVE  OnceInv'
  <2>1. url \in Urls /\ "page" \in Vias /\ url \in toAdd
    BY <1>1, FrontierAssumption DEF Vias, AddPage
  <2>2. \A u \in Urls, v \in Vias :
          gets'[v][u] = IF method = "GET" /\ u = url /\ v = "page"
                          THEN 1 ELSE gets[v][u]
    BY <1>1, <2>1 DEF AddPage, TypeOK
  <2>3. \A c \in Heads' :
          c \in Heads \/ (c.url = url /\ c.via = "page" /\ method = "HEAD")
    <3>1. pending' = pending \union
            {[url |-> url, method |-> method, depth |-> 0, anchor |-> NoAnchor,
              via |-> "page"]}
      BY <1>1 DEF AddPage
    <3> QED
      BY <3>1
  <2>4. \A c, d \in Heads' : c \notin Heads /\ d \notin Heads => c = d
    BY <1>1 DEF AddPage
  <2>5. \A c \in Heads : c.url \in Urls /\ c.via \in Vias /\ (c.via = "page" => c.url # url)
    BY <2>1 DEF TypeOK, Command
  <2> QED
    BY <1>1, <2>1, <2>2, <2>3, <2>4, <2>5 DEF AddPage, Vias
<1>2. ASSUME NEW cmd \in pending, Fail(cmd) PROVE OnceInv'
  BY <1>2 DEF Fail
<1>3. ASSUME NEW cmd \in pending, HeadHandler(cmd) PROVE OnceInv'
  <2>1. cmd.url \in Urls /\ cmd.via \in Vias /\ cmd \in Heads
    BY <1>3 DEF TypeOK, Command, HeadHandler
  <2>2. Heads' = Heads \ {cmd}
    BY <1>3 DEF HeadHandler
  <2>3. CASE closed
    BY <1>3, <2>2, <2>3 DEF HeadHandler
  <2>4. CASE ~closed
    <3>1. \A u \in Urls, v \in Vias :
            gets'[v][u] = IF u = cmd.url /\ v = cmd.via THEN 1 ELSE gets[v][u]
      BY <1>3, <2>1, <2>4 DEF HeadHandler, TypeOK
    <3>2. \A c \in Heads : c.url \in Urls /\ c.via \in Vias
      BY DEF TypeOK, Command
    <3>3. UNCHANGED <<duplicates, toAdd>>
      BY <1>3 DEF HeadHandler
    <3> QED
      BY <2>1, <2>2, <3>1, <3>2, <3>3 DEF Vias
  <2> QED
    BY <2>3, <2>4
<1>4. ASSUME NEW cmd \in pending, GetHandler(cmd) PROVE OnceInv'
  BY <1>4 DEF GetHandler
<1>5. ASSUME NEW cmd \in pending, GetAndFollow(cmd) PROVE OnceInv'
  <2>1. PICK urls, off, cmds : FollowStep(cmd, urls, off, cmds)
    BY <1>5, FollowWitness
  <2>2. urls \subseteq Urls \ duplicates /\ duplicates \subseteq duplicates'
          /\ urls \subseteq duplicates' /\ toAdd' = toAdd
          /\ \A u \in urls : Normal[u] = u
    BY <2>1, ToSendFacts DEF FollowStep
  <2>3. \A k \in cmds :
          /\ k.url \in urls /\ k.via = "link"
          /\ k.method = "HEAD" => opts.checkContent
    BY <2>1, LinkCommandsFacts DEF FollowStep
  <2>4. \A c \in Heads' : c \in Heads \/ (c \in cmds /\ opts.checkContent)
    <3>1. pending' = (pending \ {cmd}) \union cmds
      BY <2>1 DEF FollowStep
    <3> QED
      BY <2>3, <3>1, Zenon
  <2>5. \A u \in Urls, v \in Vias :
          gets'[v][u] = IF ~opts.checkContent /\ u \in urls /\ v = "link"
                          THEN 1 ELSE gets[v][u]
    BY <2>1, <2>2 DEF FollowStep, TypeOK
  <2>6. \A c \in Heads : c.url \in Urls /\ c.via \in Vias
    BY DEF TypeOK, Command
  <2>7. \A c, d \in cmds : c.url = d.url => c = d
    BY <2>1 DEF FollowStep
  <2>8. (OncePerAsker /\ UnseenIsUnsent /\ SeedsAreSeen /\ UnaddedIsUnsent
         /\ LinksAreNormal)'
    BY <2>2, <2>5 DEF Vias
  <2>9. HeadsArePromises'
    <3>1. \A c \in Heads' : /\ c.via # "seed"
                            /\ gets'[c.via][c.url] = 0
                            /\ c.via = "page" => c.url \in Added \ toAdd'
                            /\ c.via = "link" => /\ c.url \in duplicates' \ Seeds
                                                 /\ Normal[c.url] = c.url
      BY <2>2, <2>3, <2>4, <2>5, <2>6 DEF Vias
    <3>2. \A c, d \in Heads' : c.url = d.url /\ c.via = d.via => c = d
      BY <2>2, <2>3, <2>4, <2>6, <2>7
    <3> QED
      BY <3>1, <3>2
  <2> QED
    BY <2>8, <2>9
<1>6. CASE CloseQueue
  BY <1>6 DEF CloseQueue
<1>7. CASE UNCHANGED vars
  BY <1>7 DEF vars
<1> QED
  BY <1>1, <1>2, <1>3, <1>4, <1>5, <1>6, <1>7 DEF Next

LEMMA OnceGives == TypeOK /\ OnceInv => FetchedOnce
<1> SUFFICES ASSUME TypeOK, OnceInv PROVE FetchedOnce
  OBVIOUS
<1>1. \A u \in Urls, v \in Vias : gets[v][u] \in Nat /\ gets[v][u] <= 1
  BY DEF TypeOK, OnceInv, OncePerAsker
<1>2. \A u \in Urls : gets["link"][u] = 0 \/ gets["seed"][u] = 0
  BY DEF OnceInv, UnseenIsUnsent, SeedsAreSeen
<1>3. \A u \in Urls :
        /\ Crawled(u) <= 1
        /\ gets["page"][u] <= (IF u \in Added \ toAdd THEN 1 ELSE 0)
  BY <1>1, <1>2 DEF Crawled, Vias, OnceInv, UnaddedIsUnsent
<1>4. \A u \in Urls : Crawled(u) > 0 => Normal[u] = u \/ u \in RawSeeds
  <2> SUFFICES ASSUME NEW u \in Urls, Crawled(u) > 0, Normal[u] # u
               PROVE  u \in RawSeeds
    OBVIOUS
  <2>1. gets["link"][u] = 0
    BY <1>1 DEF OnceInv, LinksAreNormal, Vias
  <2>2. gets["seed"][u] # 0
    BY <1>1, <2>1 DEF Crawled, Vias
  <2> QED
    BY <2>2 DEF RawSeeds, OnceInv, SeedsAreSeen
<1> QED
  BY <1>3, <1>4 DEF FetchedOnce

(***************************************************************************)
(* A URL is fetched once by the crawl, under one spelling unless the seed  *)
(* is not in normal form, and once more if a client adds it, on every site *)
(* and in every order of the handlers.                                     *)
(***************************************************************************)
THEOREM FetchedOnceCorrect == Spec => []FetchedOnce
  BY TypeCorrect, TypeInit, TypeStep, OnceInit, OnceStep, OnceGives, PTL DEF Spec

-----------------------------------------------------------------------------
(* Nothing is missed.                                                      *)

LEMMA FoundInit == Init => FoundInv
<1> SUFFICES ASSUME Init PROVE FoundInv
  OBVIOUS
<1>1. \A u \in Seeds : SeedCommand(u) \in pending /\ SeedCommand(u).url = u
  BY DEF Init, SeedCommand
<1>2. PendingIsSent /\ SentIsHandled
  BY <1>1 DEF Init, PendingIsSent, SentIsHandled, SeedCommand
<1> QED
  BY <1>2 DEF Init, FoundInv, SeenIsSent, ReadIsFollowed

LEMMA FoundStep == TypeOK /\ FoundInv /\ [Next]_vars => FoundInv'
<1> SUFFICES ASSUME TypeOK, FoundInv, [Next]_vars PROVE FoundInv'
  OBVIOUS
<1> USE DEF FoundInv, PendingIsSent, SentIsHandled, SeenIsSent
<1>0. opts' = opts
  BY DEF Next, AddPage, Fail, HeadHandler, GetHandler, GetAndFollow,
         CloseQueue, vars
<1>a. /\ \A u : OffSite(u)' <=> OffSite(u)
      /\ \A p, l : Reaches(p, l)' <=> Reaches(p, l)
  BY <1>0 DEF OffSite, Reaches, Matches
<1>1. ASSUME NEW url \in Added, NEW method \in {"GET", "HEAD"},
             AddPage(url, method)
      PROVE  FoundInv'
  <2> DEFINE k == [url |-> url, method |-> method, depth |-> 0,
                   anchor |-> NoAnchor, via |-> "page"]
  <2>1. k.url = url /\ pending' = pending \union {k}
    BY <1>1 DEF AddPage
  <2> HIDE DEF k
  <2>2. (PendingIsSent /\ SentIsHandled)'
    BY <1>1, <2>1 DEF AddPage
  <2>3. (SeenIsSent /\ ReadIsFollowed)'
    BY <1>1, <1>a DEF AddPage, ReadIsFollowed
  <2> QED
    BY <2>2, <2>3
<1>2. ASSUME NEW cmd \in pending, Fail(cmd) PROVE FoundInv'
  BY <1>2, <1>a DEF Fail, ReadIsFollowed
<1>3. ASSUME NEW cmd \in pending, HeadHandler(cmd) PROVE FoundInv'
  <2> DEFINE k == [url |-> cmd.url, method |-> "GET", depth |-> 0,
                   anchor |-> NoAnchor, via |-> cmd.via]
  <2>0. k.url = cmd.url /\ (~closed => pending' = (pending \ {cmd}) \union {k})
    BY <1>3 DEF HeadHandler
  <2> HIDE DEF k
  <2>1. (SeenIsSent /\ ReadIsFollowed)'
    BY <1>3, <1>a DEF HeadHandler, ReadIsFollowed
  <2>2. (PendingIsSent /\ SentIsHandled)'
    BY <1>3, <2>0 DEF HeadHandler
  <2> QED
    BY <2>1, <2>2
<1>4. ASSUME NEW cmd \in pending, GetHandler(cmd) PROVE FoundInv'
  <2>1. (PendingIsSent /\ SentIsHandled /\ SeenIsSent)'
    BY <1>4, <1>a DEF GetHandler
  <2>2. opts.depth < 0 => \A l \in Found(cmd.url) : ~Reaches(cmd.url, l)
    BY <1>4 DEF GetHandler, Follows, Reaches
  <2>3. ReadIsFollowed'
    BY <1>4, <1>0, <1>a, <2>2 DEF GetHandler, ReadIsFollowed
  <2> QED
    BY <2>1, <2>3
<1>5. ASSUME NEW cmd \in pending, GetAndFollow(cmd) PROVE FoundInv'
  <2>1. PICK urls, off, cmds : FollowStep(cmd, urls, off, cmds)
    BY <1>5, FollowWitness
  <2>2. \A k \in cmds : k.url \in urls
    BY <2>1, LinkCommandsFacts DEF FollowStep
  <2>3. (PendingIsSent /\ SentIsHandled /\ SeenIsSent)'
    BY <2>1, <2>2, <1>a DEF FollowStep
  <2>4. ~closed' => \A l \in Found(cmd.url) :
                      Reaches(cmd.url, l) => l[1] \in sent'
    BY <2>1, ReachedIsToSend DEF FollowStep
  <2>5. ReadIsFollowed'
    BY <2>1, <2>4, <1>0, <1>a DEF FollowStep, ReadIsFollowed
  <2> QED
    BY <2>3, <2>5
<1>6. CASE CloseQueue
  BY <1>6, <1>a DEF CloseQueue, ReadIsFollowed
<1>7. CASE UNCHANGED vars
  BY <1>7, <1>a DEF vars, ReadIsFollowed
<1> QED
  BY <1>1, <1>2, <1>3, <1>4, <1>5, <1>6, <1>7 DEF Next

LEMMA FoundGives == FoundInv => NothingMissed
BY DEF FoundInv, SentIsHandled, ReadIsFollowed, NothingMissed

\* A job without a depth limit that runs out of commands has sent every URL that
\* its options reach from the pages it could read.
THEOREM NothingMissedCorrect == Spec => []NothingMissed
  BY TypeInit, TypeStep, FoundInit, FoundStep, FoundGives, PTL DEF Spec

-----------------------------------------------------------------------------
(* Nothing else is fetched.                                                *)

LEMMA ElseInit == Init => NothingElse
BY DEF Init, NothingElse, Closed

LEMMA ElseStep ==
  TypeOK /\ PendingIsSent /\ NothingElse /\ [Next]_vars => NothingElse'
<1> SUFFICES ASSUME TypeOK, PendingIsSent, NothingElse, [Next]_vars,
                    NEW S \in SUBSET Urls, Closed(S)'
             PROVE  sent' \subseteq S
  BY DEF NothingElse
<1>0. opts' = opts
  BY DEF Next, AddPage, Fail, HeadHandler, GetHandler, GetAndFollow,
         CloseQueue, vars
<1>a. Closed(S)
  BY <1>0 DEF Closed, Reaches, Matches
<1>b. sent \subseteq S
  BY <1>a DEF NothingElse
<1>1. ASSUME NEW url \in Added, NEW method \in {"GET", "HEAD"},
             AddPage(url, method)
      PROVE  sent' \subseteq S
  BY <1>1, <1>a, <1>b DEF AddPage, Closed
<1>2. ASSUME NEW cmd \in pending, GetAndFollow(cmd) PROVE sent' \subseteq S
  <2>1. PICK urls, off, cmds : FollowStep(cmd, urls, off, cmds)
    BY <1>2, FollowWitness
  <2>2. cmd.url \in S /\ Follows(cmd)
    BY <1>2, <1>b DEF PendingIsSent, GetAndFollow
  <2>3. \A u \in urls : u \in S
    BY <2>1, <2>2, <1>a, ToSendFacts DEF FollowStep, Closed
  <2> QED
    BY <2>1, <2>3, <1>b DEF FollowStep
<1>3. CASE UNCHANGED sent
  BY <1>3, <1>b
<1> QED
  BY <1>1, <1>2, <1>3 DEF Next, Fail, HeadHandler, GetHandler, CloseQueue, vars

\* Every URL that is fetched is in every set that has what clients ask for and
\* what the options reach from it: nothing is fetched that they exclude.
THEOREM NothingElseCorrect == Spec => []NothingElse
<1>1. FoundInv => PendingIsSent
  BY DEF FoundInv
<1> QED
  BY <1>1, TypeInit, TypeStep, FoundInit, FoundStep, ElseInit, ElseStep, PTL
     DEF Spec

-----------------------------------------------------------------------------
(* Pages are shipped as the client asked.                                  *)

\* The options of a job do not change.
LEMMA OptsFixed == [Next]_vars => opts' = opts
BY DEF Next, AddPage, Fail, HeadHandler, GetHandler, GetAndFollow, EnqueueLinks,
       CloseQueue, vars

LEMMA LabelInit == Init => LabelInv
BY DEF Init, LabelInv, SeedCommand

LEMMA LabelStep ==
  TypeOK /\ LabelInv /\ [Next]_vars => LabelInv'
<1> SUFFICES ASSUME TypeOK, LabelInv, [Next]_vars PROVE LabelInv'
  OBVIOUS
<1>0. opts' = opts
  BY OptsFixed
<1> SUFFICES ASSUME ~opts.checkContent PROVE LabelInv'
  BY <1>0 DEF LabelInv
<1> USE DEF LabelInv
<1>1. ASSUME NEW url \in Added, NEW method \in {"GET", "HEAD"},
             AddPage(url, method)
      PROVE  LabelInv'
  <2> DEFINE k == [url |-> url, method |-> method, depth |-> 0,
                   anchor |-> NoAnchor, via |-> "page"]
  <2>1. /\ k.via # "link" /\ k.anchor = NoAnchor
        /\ pending' = pending \union {k}
    BY <1>1 DEF AddPage
  <2> HIDE DEF k
  <2> QED
    BY <2>1 DEF AnchoredBy
<1>2. ASSUME NEW cmd \in pending, Fail(cmd) \/ GetHandler(cmd)
      PROVE  LabelInv'
  BY <1>2 DEF Fail, GetHandler, AnchoredBy
<1>3. ASSUME NEW cmd \in pending, HeadHandler(cmd) PROVE LabelInv'
  <2> DEFINE k == [url |-> cmd.url, method |-> "GET", depth |-> 0,
                   anchor |-> NoAnchor, via |-> cmd.via]
  <2>1. /\ k.via # "link" /\ k.anchor = NoAnchor
        /\ pending' \subseteq pending \union {k}
    BY <1>3 DEF HeadHandler
  <2> HIDE DEF k
  <2> QED
    BY <2>1 DEF AnchoredBy
<1>4. ASSUME NEW cmd \in pending, GetAndFollow(cmd) PROVE LabelInv'
  <2>1. PICK urls, off, cmds : FollowStep(cmd, urls, off, cmds)
    BY <1>4, FollowWitness
  <2>3. ASSUME NEW k \in cmds
        PROVE  k.via = "link" /\ k.method = "GET" /\ k.depth > 0 /\ AnchoredBy(k)
    <3>1. k \in LinkCommands(cmd, urls)
      BY <2>1 DEF FollowStep
    <3>2. PICK l \in NewLinks(cmd.url) :
            k = [url |-> l[1],
                 method |-> IF opts.checkContent THEN "HEAD" ELSE "GET",
                 depth |-> cmd.depth + 1, anchor |-> l[2], via |-> "link"]
      BY <3>1, Zenon DEF LinkCommands
    <3>3. l \in Found(cmd.url) /\ cmd.url \in Urls /\ cmd.depth \in Nat
      BY LinkType DEF NewLinks, Command
    <3>4. AnchoredBy(k)
      BY <3>2, <3>3 DEF AnchoredBy
    <3> QED
      BY <3>2, <3>3, <3>4
  <2>4. pending' = (pending \ {cmd}) \union cmds
    BY <2>1 DEF FollowStep
  <2> QED
    BY <2>3, <2>4 DEF AnchoredBy
<1>5. CASE CloseQueue \/ UNCHANGED vars
  BY <1>5 DEF CloseQueue, vars, AnchoredBy
<1> QED
  BY <1>1, <1>2, <1>3, <1>4, <1>5 DEF Next

LEMMA ShipStep ==
  TypeOK /\ LabelInv /\ ShippedAsAsked /\ [Next]_vars => ShippedAsAsked'
<1> SUFFICES ASSUME TypeOK, LabelInv, ShippedAsAsked, [Next]_vars
             PROVE  ShippedAsAsked'
  OBVIOUS
<1>0. opts' = opts
  BY OptsFixed
<1> SUFFICES ASSUME ~opts.checkContent, ~AnchorOnly PROVE ShippedAsAsked'
  BY <1>0 DEF ShippedAsAsked, AnchorOnly
<1>1. ASSUME NEW cmd \in pending, Ship(cmd) PROVE ShippedAsAsked'
  <2>1. CASE ~CallbackPage(cmd)
    BY <1>0, <1>1, <2>1 DEF Ship, ShippedAsAsked, AskedFor
  <2>2. CASE CallbackPage(cmd)
    <3> DEFINE p == [url |-> cmd.url, depth |-> cmd.depth, via |-> cmd.via]
    <3>1. shipped' = shipped \union {p} /\ p.url = cmd.url /\ p.via = cmd.via
      BY <1>1, <2>2 DEF Ship
    <3> HIDE DEF p
    <3>2. cmd.depth = 0 => cmd.via # "link"
      BY DEF LabelInv
    <3>3. \/ cmd.anchor = NoAnchor
          \/ \E q \in Urls : \E l \in Found(q) :
               l[1] = cmd.url /\ l[2] = cmd.anchor
      BY DEF LabelInv, AnchoredBy
    <3> QED
      BY <1>0, <2>2, <3>1, <3>2, <3>3 DEF CallbackPage, ShippedAsAsked,
             AskedFor, AnchorOnly, CallbackPatterns
  <2> QED
    BY <2>1, <2>2
<1>2. CASE UNCHANGED shipped
  BY <1>0, <1>2 DEF ShippedAsAsked, AskedFor
<1> QED
  BY <1>1, <1>2 DEF Next, AddPage, Fail, HeadHandler, GetHandler, GetAndFollow,
       CloseQueue, vars

\* A job without CheckContent, and with a pattern for URLs or contents or none at
\* all, ships a page only because a client asked for it by its URL, because a
\* pattern matches it, or because there is none.
THEOREM ShippedAsAskedCorrect == Spec => []ShippedAsAsked
<1>1. Init => ShippedAsAsked
  BY DEF Init, ShippedAsAsked
<1> QED
  BY <1>1, TypeInit, TypeStep, LabelInit, LabelStep, ShipStep, PTL DEF Spec

-----------------------------------------------------------------------------
(* The depth limit.                                                        *)

\* What clients ask for is no link away.
LEMMA PathStart ==
  ASSUME NEW url \in Seeds \union Added
  PROVE  Path(0, url)
<1>1. url \in Urls
  BY FrontierAssumption
<1> DEFINE p == [i \in 0..0 |-> url]
<1>2. p \in [0..0 -> Urls] /\ p[0] = url
  BY <1>1
<1>3. 0..(0 - 1) = {}
  OBVIOUS
<1> HIDE DEF p
<1> QED
  BY <1>2, <1>3 DEF Path

\* A link that may be followed makes a path longer by one.
LEMMA PathStep ==
  ASSUME NEW n \in Nat, NEW url \in Urls, Path(n, url),
         NEW l \in Found(url), Reaches(url, l)
  PROVE  Path(n + 1, l[1])
<1>1. PICK p \in [0..n -> Urls] :
        /\ p[0] \in Seeds \union Added
        /\ p[n] = url
        /\ \A i \in 0..(n - 1) :
             \E k \in Found(p[i]) : k[1] = p[i + 1] /\ Reaches(p[i], k)
  BY DEF Path
<1>2. l[1] \in Urls
  BY FoundType
<1> DEFINE q == [i \in 0..(n + 1) |-> IF i = n + 1 THEN l[1] ELSE p[i]]
<1>3. /\ q \in [0..(n + 1) -> Urls]
      /\ q[0] = p[0] /\ q[n + 1] = l[1]
      /\ \A i \in 0..n : q[i] = p[i]
  BY <1>2
<1> HIDE DEF q
<1>4. ASSUME NEW i \in 0..((n + 1) - 1)
      PROVE  \E k \in Found(q[i]) : k[1] = q[i + 1] /\ Reaches(q[i], k)
  <2>1. CASE i = n
    BY <1>1, <1>3, <2>1
  <2>2. CASE i # n
    <3>1. i \in 0..(n - 1) /\ i \in 0..n /\ i + 1 \in 0..n
      BY <2>2
    <3> QED
      BY <1>1, <1>3, <3>1
  <2> QED
    BY <2>1, <2>2
<1> QED
  BY <1>1, <1>3, <1>4 DEF Path

\* Paths are those of the options, which are fixed.
LEMMA PathFixed ==
  ASSUME opts' = opts
  PROVE  \A n, url : Path(n, url)' <=> Path(n, url)
BY DEF Path, Reaches, Matches

\* The commands for the links of a page lead one link further.
LEMMA LinksAreNear ==
  ASSUME TypeOK, DepthInv, ~opts.checkContent, NEW cmd \in pending, Follows(cmd),
         NEW urls \in SUBSET ToSend(cmd), NEW k \in LinkCommands(cmd, urls)
  PROVE  WithinLimit(k)
<1>1. k.depth = cmd.depth + 1 /\ k.url \in urls /\ k.method = "GET"
  BY DEF LinkCommands
<1>2. cmd.url \in Urls /\ cmd.depth \in Nat /\ opts.depth \in Int
  BY FrontierAssumption DEF TypeOK, Command, Option
<1>3. PICK l \in Found(cmd.url) : l[1] = k.url /\ Reaches(cmd.url, l)
  BY <1>1, ToSendFacts
<1>4. Path(cmd.depth, cmd.url)
  BY DEF DepthInv, WithinLimit
<1>5. Path(k.depth, k.url)
  BY <1>1, <1>2, <1>3, <1>4, PathStep
<1>6. opts.depth >= 0 => k.depth <= opts.depth
  BY <1>1, <1>2 DEF Follows
<1> QED
  BY <1>1, <1>5, <1>6 DEF WithinLimit

LEMMA DepthInit == Init => DepthInv /\ DepthRespected
<1> SUFFICES ASSUME Init PROVE DepthInv /\ DepthRespected
  OBVIOUS
<1>0. opts.depth \in Int
  BY FrontierAssumption DEF Init, Option
<1>1. ASSUME NEW c \in pending
      PROVE  Path(c.depth, c.url) /\ c.method = "GET" /\ c.depth = 0
  <2>1. PICK url \in Seeds : c = SeedCommand(url)
    BY DEF Init
  <2>2. c.depth = 0 /\ c.url = url /\ c.method = "GET"
    BY <2>1 DEF SeedCommand
  <2> QED
    BY <2>2, PathStart
<1>2. DepthInv
  BY <1>0, <1>1 DEF DepthInv, WithinLimit
<1>3. ASSUME NEW url \in sent, opts.depth >= 0
      PROVE  \E n \in 0..opts.depth : Path(n, url)
  <2>1. Path(0, url)
    BY PathStart DEF Init
  <2> QED
    BY <1>0, <1>3, <2>1
<1> QED
  BY <1>2, <1>3 DEF DepthRespected

\* The URLs that commands are sent for are within the limit.
SentWithinLimit ==
  opts.depth >= 0 => \A url \in sent : \E n \in 0..opts.depth : Path(n, url)

\* A step that sends commands within the limit, and only those, respects it.
LEMMA MoreIsNear ==
  ASSUME opts' = opts, opts.depth \in Int, \A c \in pending : WithinLimit(c),
         SentWithinLimit, NEW more, pending' \subseteq pending \union more,
         \A c \in more : WithinLimit(c) /\ c.depth \in Nat,
         \A url \in sent' : url \in sent \/ \E c \in more : c.url = url
  PROVE  (\A c \in pending : WithinLimit(c))' /\ SentWithinLimit'
<1>1. \A n, url : Path(n, url)' <=> Path(n, url)
  BY PathFixed
<1>2. \A c : WithinLimit(c)' <=> WithinLimit(c)
  BY <1>1 DEF WithinLimit
<1>3. (\A c \in pending : WithinLimit(c))'
  BY <1>2
<1>4. ASSUME opts.depth >= 0, NEW url \in sent'
      PROVE  \E n \in 0..opts.depth : Path(n, url)
  <2>1. CASE url \in sent
    BY <1>4, <2>1 DEF SentWithinLimit
  <2>2. ASSUME NEW c \in more, c.url = url
        PROVE  \E n \in 0..opts.depth : Path(n, url)
    BY <1>4, <2>2 DEF WithinLimit
  <2> QED
    BY <2>1, <2>2
<1> QED
  BY <1>1, <1>3, <1>4 DEF SentWithinLimit

LEMMA DepthStep ==
  ASSUME TypeOK, DepthInv, DepthRespected, [Next]_vars
  PROVE  DepthInv' /\ DepthRespected'
<1>0. opts' = opts /\ opts.depth \in Int
  BY OptsFixed, FrontierAssumption DEF TypeOK, Option
<1> SUFFICES ASSUME ~opts.checkContent
             PROVE  (\A c \in pending : WithinLimit(c))' /\ SentWithinLimit'
  BY <1>0 DEF DepthInv, DepthRespected, SentWithinLimit
<1>1. (\A c \in pending : WithinLimit(c)) /\ SentWithinLimit
  BY DEF DepthInv, DepthRespected, SentWithinLimit
<1> DEFINE Kept == (\A c \in pending : WithinLimit(c))' /\ SentWithinLimit'
<1>2. ASSUME pending' \subseteq pending, sent' = sent PROVE Kept
  <2> DEFINE more == {}
  <2>1. /\ pending' \subseteq pending \union more
        /\ \A c \in more : WithinLimit(c) /\ c.depth \in Nat
        /\ \A url \in sent' : url \in sent \/ \E c \in more : c.url = url
    BY <1>2
  <2> HIDE DEF more
  <2> QED
    BY <1>0, <1>1, <2>1, MoreIsNear
<1>3. ASSUME NEW url \in Added, NEW method \in {"GET", "HEAD"}, AddPage(url, method)
      PROVE  Kept
  <2> DEFINE c == [url |-> url, method |-> method, depth |-> 0, anchor |-> NoAnchor,
                   via |-> "page"]
             more == {c}
  <2>1. pending' = pending \union more /\ sent' = sent \union {url}
    BY <1>3 DEF AddPage
  <2>2. c.url = url /\ c.depth = 0
    OBVIOUS
  <2>3. Path(0, url)
    BY PathStart
  <2>4. WithinLimit(c)
    <3> HIDE DEF c
    <3> QED
      BY <1>0, <2>2, <2>3 DEF WithinLimit
  <2>5. \A k \in more : WithinLimit(k) /\ k.depth \in Nat
    BY <2>2, <2>4
  <2>6. \A u \in sent' : u \in sent \/ \E k \in more : k.url = u
    BY <2>1, <2>2
  <2> HIDE DEF c, more
  <2> QED
    BY <1>0, <1>1, <2>1, <2>5, <2>6, MoreIsNear
<1>4. ASSUME NEW cmd \in pending, Fail(cmd) \/ GetHandler(cmd)
      PROVE  Kept
  BY <1>2, <1>4 DEF Fail, GetHandler
<1>5. ASSUME NEW cmd \in pending, HeadHandler(cmd)
      PROVE  Kept
  <2> DEFINE c == [url |-> cmd.url, method |-> "GET", depth |-> 0,
                   anchor |-> NoAnchor, via |-> cmd.via]
             more == {c}
  <2>1. pending' \subseteq pending \union more /\ sent' = sent
    BY <1>5 DEF HeadHandler
  <2>2. c.url = cmd.url /\ c.depth = 0
    OBVIOUS
  <2>3. cmd.depth = 0 /\ Path(cmd.depth, cmd.url)
    BY <1>1, <1>5 DEF HeadHandler, WithinLimit
  <2>4. WithinLimit(c)
    <3> HIDE DEF c
    <3> QED
      BY <1>0, <2>2, <2>3 DEF WithinLimit
  <2>5. \A k \in more : WithinLimit(k) /\ k.depth \in Nat
    BY <2>2, <2>4
  <2> HIDE DEF c, more
  <2> QED
    BY <1>0, <1>1, <2>1, <2>5, MoreIsNear
<1>6. ASSUME NEW cmd \in pending, GetAndFollow(cmd)
      PROVE  Kept
  <2>1. PICK urls, off, cmds : FollowStep(cmd, urls, off, cmds)
    BY <1>6, FollowWitness
  <2>2. /\ pending' \subseteq pending \union cmds /\ sent' = sent \union urls
        /\ urls \in SUBSET ToSend(cmd) /\ cmds \subseteq LinkCommands(cmd, urls)
        /\ \A u \in urls : \E k \in cmds : k.url = u
    BY <2>1 DEF FollowStep
  <2>3. ASSUME NEW k \in cmds PROVE WithinLimit(k) /\ k.depth \in Nat
    <3>1. k \in LinkCommands(cmd, urls) /\ Follows(cmd)
      BY <1>6, <2>2 DEF GetAndFollow
    <3>2. WithinLimit(k)
      BY <2>2, <3>1, LinksAreNear
    <3>3. k \in Command
      BY <3>1, LinkCommandsFacts
    <3> QED
      BY <3>2, <3>3 DEF Command
  <2> QED
    BY <1>0, <1>1, <2>2, <2>3, MoreIsNear
<1>7. CASE CloseQueue \/ UNCHANGED vars
  BY <1>2, <1>7 DEF CloseQueue, vars
<1> QED
  BY <1>3, <1>4, <1>5, <1>6, <1>7 DEF Next

\* A job with a depth limit that sends no HEAD requests fetches nothing that is
\* further away, on any site and in any order of its pages.
THEOREM DepthRespectedCorrect == Spec => []DepthRespected
<1>1. Init => DepthInv /\ DepthRespected
  BY DepthInit
<1>2. TypeOK /\ DepthInv /\ DepthRespected /\ [Next]_vars => DepthInv' /\ DepthRespected'
  BY DepthStep
<1> QED
  BY <1>1, <1>2, TypeCorrect, PTL DEF Spec
=============================================================================
