------------------------------ MODULE MCBrowser ------------------------------
(* A browser with one tab, whose user goes about, and one with two. *)
EXTENDS BrowserSession, TLC

CONSTANTS t1, t2, a1

OneTab == {[t \in Tabs |-> IF t = open THEN Blank("start") ELSE Unopened] : open \in Tabs}
TwoTabs == [t \in Tabs |-> Blank("start")]
Surf ==
    \/ BrowserInit /\ tab \in OneTab
    \/ /\ installed = TRUE /\ tab = TwoTabs
       /\ sessions = <<>> /\ jar = 0 /\ visits = 0 /\ lost = MostLost
SurfSpec == Surf /\ [][BrowserNext]_browserVars
TabSymmetry == Permutations(Tabs)

==============================================================================
