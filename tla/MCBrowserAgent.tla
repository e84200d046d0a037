--------------------------- MODULE MCBrowserAgent ---------------------------
(***************************************************************************)
(* One agent for TLC: three steps and one use of each metered tool; an     *)
(* action that changes nothing, one that is metered and may be denied, one *)
(* that cites a step, and the one that ends the loop.                      *)
(***************************************************************************)
EXTENDS BrowserAgent, TLC

MCMaxUses == [t \in Metered |-> 1]

Do(tool) == [tool |-> tool, at |-> "nothing", cites |-> {}]

\* "/a" is relative; the page it leads to has a URL of its own.
MCActions ==
  {Do("inspect"), Do("finish"),
   [Do("navigate") EXCEPT !.at = "/a"],
   [Do("report_finding") EXCEPT !.cites = {1}]}

MCPlaces == {"nothing", "/a", "http://a"}

MCResolve == [u \in MCPlaces |-> IF u = "/a" THEN "http://a" ELSE u]

=============================================================================
