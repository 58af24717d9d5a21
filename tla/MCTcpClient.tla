----------------------------- MODULE MCTcpClient -----------------------------
(***************************************************************************)
(* The instance TLC checks of an application: the gate its processors pass *)
(* before an event, the life of the Digitiser from start to stop, and one  *)
(* of its client connections.  The three share no state: the life knows of *)
(* its connections only whether they were made and stopped, and its        *)
(* processors serve one event after the other.  A behaviour exercises one. *)
(***************************************************************************)
EXTENDS TcpClient, AppLifecycle, ProcessorGate

VARIABLE follows  \* what is exercised

ApplicationInit ==
    /\ follows \in {"client", "life", "gate"}
    /\ Init /\ LifeInit /\ GateInit
    /\ follows = "client" \/ ~listening

ApplicationNext ==
    /\ UNCHANGED follows
    /\ IF follows = "client" THEN Next ELSE UNCHANGED vars
    /\ IF follows = "life" THEN LifeNext ELSE UNCHANGED lifeVars
    /\ IF follows = "gate" THEN GateNext ELSE UNCHANGED gateVars

\* The fairness of FairSpec is asked of a behaviour that exercises the client, that of
\* GateFairSpec of one that exercises the gate.
Client(A) == follows = "client" /\ A
Gate(A) == follows = "gate" /\ A

ApplicationSpec ==
    /\ ApplicationInit /\ [][ApplicationNext]_<<follows, vars, lifeVars, gateVars>>
    /\ LifeFairness
    /\ \A p \in Procs : WF_gateVars(Gate(Step(p))) /\ WF_gateVars(Gate(StopNotify(p)))
    /\ WF_vars(Client(RetryExpires)) /\ WF_vars(Client(Connect)) /\ WF_vars(Client(Connected))
    /\ WF_vars(Client(Select)) /\ WF_vars(Client(Receive)) /\ WF_vars(Client(Buffer \/ Hangup))
    /\ WF_vars(Client(SendSocket \/ SendInvalid \/ SendData))
    /\ WF_vars(Client(StopClose \/ StopDestroy \/ StopJoin))
=============================================================================
