------------------------------- MODULE MCGnss -------------------------------
(***************************************************************************)
(* Instances of Gnss: each scenario lets the receiver repeat one group of  *)
(* sentences under some faults, so that they do not multiply each other's  *)
(* states.  The RF view is followed where its rows or its position change. *)
(***************************************************************************)
EXTENDS Gnss

Bounds(cycles, lost, faults, calls, refusals) ==
    [cycles |-> cycles, lost |-> lost, faults |-> faults, calls |-> calls, refusals |-> refusals]

Listens(program, viewed, max) ==
    [program |-> program, calls |-> {}, rate |-> "1HZ", dummy |-> FALSE, viewed |-> viewed,
     max |-> max]

MCScenarios ==
    {\* Two talkers, in turn; with a third one that finds no slot.
     Listens(<<GSV("GP", 1, 2), GSV("GP", 2, 2), GSV("GL", 1, 1)>>, FALSE,
             Bounds(3, 2, 0, 0, 0)),
     Listens(<<GSV("GP", 1, 2), GSV("GL", 1, 1), GSV("GA", 1, 1), GSV("GP", 2, 2)>>, FALSE,
             Bounds(2, 1, 0, 0, 0)),
     \* Three RF sentences, the strongest satellite in the middle.
     Listens(<<RF(1, 3, 20), RF(2, 3, 40), RF(3, 3, 30)>>, TRUE, Bounds(2, 1, 0, 0, 0)),
     \* Lists of two sentences and of one, in turn.
     Listens(<<RF(1, 2, 20), RF(2, 2, 40), RF(1, 1, 30)>>, TRUE, Bounds(2, 1, 0, 0, 0)),
     \* The fix comes and goes while the bus fails.
     Listens(<<GGA(1), RMC(TRUE), GGA(0), RMC(FALSE)>>, TRUE, Bounds(2, 0, 3, 0, 0)),
     \* The commands: answers late, refused, or sent in vain.
     [program |-> <<GGA(1)>>, calls |-> {"set_fix_rate", "get_fix_rate", "rf_debug"},
      rate |-> "5HZ", dummy |-> FALSE, viewed |-> FALSE, max |-> Bounds(1, 0, 1, 2, 1)],
     \* The build without a receiver.
     [program |-> <<GGA(1)>>, calls |-> {}, rate |-> "1HZ", dummy |-> TRUE, viewed |-> FALSE,
      max |-> Bounds(4, 0, 0, 0, 0)]}
=============================================================================
