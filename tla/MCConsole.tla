------------------------------ MODULE MCConsole ------------------------------
(***************************************************************************)
(* Two tokens and a cache of one, two requests, two streams with channels  *)
(* of one event, one window edited into every shape below.                 *)
(***************************************************************************)
EXTENDS Console, TLC

Symmetry == Permutations(Requests) \cup Permutations(Streams)

MCConfigs ==
    {[enabled |-> TRUE, anonymousRead |-> TRUE, proxy |-> FALSE],
     [enabled |-> TRUE, anonymousRead |-> FALSE, proxy |-> TRUE],
     [enabled |-> FALSE, anonymousRead |-> FALSE, proxy |-> FALSE]}

Carries(t, h) == [token |-> t, header |-> h]
MCCredentials == {Carries(NoToken, FALSE), Carries(NoToken, TRUE), Carries("alice", TRUE), Carries("bob", FALSE)}

Nightly == [suspend |-> FALSE, zone |-> "known", parses |-> TRUE, fires |-> {1}, duration |-> {1},
            allowRed |-> TRUE, selector |-> {}]

MCWindowSpecs ==
    {Nightly,
     [Nightly EXCEPT !.suspend = TRUE],
     [Nightly EXCEPT !.zone = ""],
     [Nightly EXCEPT !.parses = FALSE],
     [Nightly EXCEPT !.fires = {0, 1}, !.duration = {2}],
     [Nightly EXCEPT !.fires = {}],
     [Nightly EXCEPT !.duration = {0}],
     [Nightly EXCEPT !.duration = {}],
     [Nightly EXCEPT !.allowRed = FALSE],
     [Nightly EXCEPT !.selector = {"batch"}]}

MCNodeLabels == {{}, {"batch"}}
=============================================================================
