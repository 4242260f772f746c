----------------------------- MODULE MCIdentity -----------------------------
(* Instances of the components that decide who may act.  They share no      *)
(* state, so one run explores them side by side: the focus is chosen in the *)
(* initial state, and only that component takes steps.                      *)
EXTENDS SignIn, Installation, MCBrowser

CONSTANTS a2, s1, i1, i2, x1, x2, r1, p1, p2, t3, t4
CONSTANT Foci

VARIABLE focus

IdentityInit ==
    /\ SignInInit /\ InstallationInit /\ focus \in Foci
    /\ IF focus = "browser" THEN Surf ELSE BrowserInit /\ installed /\ tab = TwoTabs
IdentityNext ==
    /\ \/ focus = "sign-in" /\ SignInNext /\ UNCHANGED <<installationVars, browserVars>>
       \/ focus = "installation" /\ InstallationNext /\ UNCHANGED <<signInVars, browserVars>>
       \/ focus = "browser" /\ BrowserNext /\ UNCHANGED <<signInVars, installationVars>>
    /\ UNCHANGED focus
IdentitySpec ==
    IdentityInit /\ [][IdentityNext]_<<signInVars, installationVars, browserVars, focus>>

(* The components use the same model values, so that one small group of      *)
(* permutations serves all.                                                *)
IdentitySymmetry ==
    Permutations(Accounts) \cup Permutations(Invitations) \cup Permutations(Attempts)
        \cup Permutations({t1, t2}) \cup Permutations({t3, t4})

===========================================================================
