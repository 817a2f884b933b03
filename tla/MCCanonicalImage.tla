-------------------------- MODULE MCCanonicalImage --------------------------
(* Instances of CanonicalImage: the store with a CDN, two stores with      *)
(* their own hosts and one that is not in the table.  The seed has an image *)
(* of a host without priority, one of Necs that Necs no longer shows, or    *)
(* none, as a product from before the seed had images.                      *)
EXTENDS CanonicalImage

CONSTANTS memorykings, necs, cyc, sercoplus

MCStores == {memorykings, necs, cyc, sercoplus}
MCHosts == {"cdn.memorykings.pe", "memorykings.pe", "necs.pe", "cyccomputer.pe", "other"}
MCHomeOf == [s \in MCStores |->
  CASE s = memorykings -> "memorykings.pe" [] s = necs -> "necs.pe"
    [] s = cyc -> "cyccomputer.pe" [] OTHER -> "other"]
MCShows == [s \in MCStores |->
  CASE s = memorykings -> {[host |-> "cdn.memorykings.pe", file |-> 1]}
    [] s = necs -> {[host |-> "necs.pe", file |-> n] : n \in 1..2}
    [] OTHER -> {[host |-> MCHomeOf[s], file |-> 1]}]
MCPriority == [h \in MCHosts |->
  CASE h \in {"cdn.memorykings.pe", "memorykings.pe"} -> 100
    [] h = "necs.pe" -> 80 [] h = "cyccomputer.pe" -> 40 [] OTHER -> 0]
MCNoStores == [s \in MCStores |-> NoImage]
MCNecsImage == [host |-> "necs.pe", file |-> 3]
MCSeeds == {
  [product |-> NoImage, stores |-> MCNoStores],
  [product |-> [host |-> "other", file |-> 2], stores |-> MCNoStores],
  [product |-> MCNecsImage, stores |-> [MCNoStores EXCEPT ![necs] = MCNecsImage]]}
=============================================================================
