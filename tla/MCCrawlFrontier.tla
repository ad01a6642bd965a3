-------------------------- MODULE MCCrawlFrontier --------------------------
(***************************************************************************)
(* CrawlFrontier on a site of four pages and one page elsewhere.  The seed *)
(* a, which is also spelled A, links to b and c, b to c with another       *)
(* anchor text and to d, c back to A and to the other site, which links to *)
(* D, another spelling of d; so d is found along paths of two and of three *)
(* links, and c with two anchor texts.                                     *)
(***************************************************************************)
EXTENDS CrawlFrontier

MCUrls == {"A", "a", "b", "c", "d", "D", "x"}
MCNormal == [u \in MCUrls |-> CASE u = "A" -> "a" [] u = "D" -> "d" [] OTHER -> u]
MCAnchors == {"", "more", "next"}
MCLinks ==
  [u \in MCUrls |->
    CASE u \in {"A", "a"} -> {<<"b", "more">>, <<"c", "more">>}
      [] u = "b" -> {<<"c", "next">>, <<"d", "next">>}
      [] u = "c" -> {<<"A", "more">>, <<"x", "next">>}
      [] u = "x" -> {<<"D", "more">>}
      [] OTHER   -> {}]
MCSiteUrls == {"A", "a", "b", "c", "d", "D"}

\* Every combination of the options that say what is fetched.  Those that only
\* say what is shipped are tried one at a time: each is a disjunct of its own.
AllOptions ==
  {o \in [noFollow : BOOLEAN, depth : {-1, 1, 2}, checkContent : BOOLEAN,
          callbackSeedUrl : BOOLEAN, followOtherDomains : BOOLEAN,
          given : SUBSET Patterns] :
     /\ ~({"xpath", "xpathRe"} \subseteq o.given)
     /\ o.callbackSeedUrl => {"xpath", "xpathRe"} \cap o.given = {}}

\* Jobs that look at the type of a page before they fetch it, with another
\* pattern than one for anchor texts alone.
HeadFirst == {o \in AllOptions :
                o.checkContent /\ o.given \cap CallbackPatterns # {"callbackAnchor"}}
=============================================================================
