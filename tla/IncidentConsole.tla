-------------------------- MODULE IncidentConsole --------------------------
(***************************************************************************)
(* The operators' console: incidents and responses are worked on while a   *)
(* reader walks the list of detection signals, to which signals are added. *)
(***************************************************************************)
EXTENDS Responses, HostedReads

CONSTANT SignalOrder \* signal id -> its place among all signal ids

ASSUME OrderAssumption ==
    /\ IsFiniteSet(Signals) /\ SignalOrder \in [Signals -> Nat]
    /\ \A s, t \in Signals : s # t => SignalOrder[s] # SignalOrder[t]

\* list_detection_signals: the stored signals by id.
SignalList == {SignalOrder[s] : s \in signals}

ConsoleVars == <<vars, walk>>

ConsoleInit == Init /\ ReadsInit

ConsoleNext ==
    \/ Next /\ UNCHANGED walk
    \/ (FirstPage(SignalList) \/ NextPage(SignalList) \/ EndWalk) /\ UNCHANGED vars

ConsoleSpec == ConsoleInit /\ [][ConsoleNext]_ConsoleVars
=============================================================================
