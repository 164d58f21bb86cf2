--------------------------- MODULE MC_Ingestion ---------------------------
(* Instances of Ingestion for TLC. *)
EXTENDS Ingestion, TLC

CONSTANTS c1, c2

(* A document is prepared into itself.  Of two addresses of a website one    *)
(* shows now this and now that, and the other cannot be crawled.             *)
DocumentYields == (c1 :> {c1}) @@ (c2 :> {c2})
WebsiteYields == (c1 :> {c1, c2}) @@ (c2 :> {})
OneWebsite == c1 :> {c1, c2}
OneContent == c1 :> {c1}

Slots == Permutations(Workers)
=============================================================================
