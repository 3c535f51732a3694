----------------------------- MODULE MCPlacement ----------------------------
EXTENDS Placement, Capacity

At(x, y) == [b \in Bots |-> IF b = "b1" THEN x ELSE y]
Room(x, y) == [n \in Hosts |-> CASE n = "n2" -> x [] n = "n3" -> y [] OTHER -> 0]

Strayed == {RootLatest}
Left == {<<"n2", "b1">>, <<"n3", "b1">>, <<"n2", "b2">>}

Recovery(h2, r, k, st, c) ==
    [NoScene EXCEPT !.dead = "n1", !.at = At("n1", h2), !.room = r, !.keeper = k, !.stray = st, !.left = Left,
                    !.comes = c, !.joins = IF c = None THEN 0 ELSE 2]

Recoveries ==
    {Recovery(h2, r, "orchestrator", st, c) :
        h2 \in {"n1", "n2"}, r \in {Room(0, 0), Room(1, 1)}, st \in {{}, Strayed}, c \in {None, "n3"}}
    \cup {Recovery("n1", Room(1, 1), "manager", st, c) : st \in {{}, Strayed}, c \in {None, "n3"}}

Moves ==
    {[NoScene EXCEPT !.at = At("n1", None), !.migrate = m, !.restore = r, !.config = c, !.stray = s, !.left = l] :
        m \in {<< >>, <<"b1", "n2">>}, r \in {None, "b1"}, c \in {None, "b1"}, s \in {{}, Strayed},
        l \in {{}, {<<"n1", "b1">>}}}

Returns ==
    {[NoScene EXCEPT !.at = At("n1", None), !.migrate = <<"b1", "n3">>, !.comes = "n3", !.joins = 1, !.stray = {}]}

MCScenes == {NoScene} \cup Recoveries \cup Moves \cup Returns

MCDeployments ==
    {NoDeployment}
    \cup {[nodes |-> ns, used |-> u, gpus |-> {}, acts |-> {"policy", "admin"}] :
            ns \in {{}, {"m1"}, {"m1", "m2"}}, u \in {0, 1}}
    \cup {[nodes |-> {}, used |-> 0, gpus |-> gs, acts |-> a] :
            gs \in {{}, {"g1"}}, a \in {{"gpuadmin", "c1"}, {"c1", "c2"}}}

MCNoDeployments == {NoDeployment}

Init ==
    /\ PlacementInit /\ CapacityInit
    /\ (scene = NoScene) # (deploy = NoDeployment)
Next ==
    \/ scene # NoScene /\ PlacementNext /\ UNCHANGED capacityVars
    \/ deploy # NoDeployment /\ CapacityNext /\ UNCHANGED placementVars
Spec == Init /\ [][Next]_<<placementVars, capacityVars>>
=============================================================================
