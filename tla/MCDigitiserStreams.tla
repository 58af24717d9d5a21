-------------------------- MODULE MCDigitiserStreams --------------------------
(***************************************************************************)
(* The instance TLC checks of the digitiser's streams and of their         *)
(* receiver: two acquisitions of one of two observations, and the server   *)
(* that finds the digitiser's connection again.  The two share no state.   *)
(* A behaviour exercises one of them.                                      *)
(***************************************************************************)
EXTENDS DigitiserStreams, EntityServer

VARIABLE exercised

MCObsOf == <<"A", "A">>

StreamsInit ==
    /\ exercised \in {"streams", "server"}
    /\ Init /\ ServerInit

StreamsNext ==
    /\ UNCHANGED exercised
    /\ IF exercised = "streams" THEN Next ELSE UNCHANGED vars
    /\ IF exercised = "server" THEN ServerNext ELSE UNCHANGED serverVars

Acquiring(p) == exercised = "streams" /\ Handle(p)
Firing(t) == exercised = "streams" /\ TimerFires(t)
Serving(A) == exercised = "server" /\ A
Processing(p) == exercised = "server" /\ (Begin(p) \/ HandleEvent(p))

\* The fairness of each part while it is exercised.
StreamsSpec ==
    /\ StreamsInit /\ [][StreamsNext]_<<exercised, vars, serverVars>>
    /\ \A p \in Procs : WF_vars(Acquiring(p))
    /\ \A t \in Token : WF_vars(Firing(t))
    /\ WF_serverVars(Serving(Send)) /\ WF_serverVars(Serving(Dial))
    /\ WF_serverVars(Serving(Accept)) /\ WF_serverVars(Serving(Read))
    /\ WF_serverVars(Serving(Hangup)) /\ WF_serverVars(Serving(Tick))
    /\ WF_serverVars(Serving(\E p \in Processors : TakeEvent(p)))
    /\ \A p \in Processors : WF_serverVars(Processing(p))
=============================================================================
