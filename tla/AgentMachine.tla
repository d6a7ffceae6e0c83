---------------------------- MODULE AgentMachine ----------------------------
(***************************************************************************)
(* The agent lifecycle state machine of internal/agent: four states, five  *)
(* events and the transition table.  ValidTransition is a pure function in *)
(* the code and a pure operator here; Machine.ApplyEvent (read the state,  *)
(* validate, compare-and-set) is made of two store calls and is therefore  *)
(* two steps of the processes that call it, in module Supervisor.          *)
(***************************************************************************)

StateIdle      == "idle"
StateAssigned  == "assigned"
StateWorking   == "working"
StateReporting == "reporting"

AgentState == {StateIdle, StateAssigned, StateWorking, StateReporting}

EventTaskAssigned    == "task_assigned"
EventWorkStarted     == "work_started"
EventOutputReady     == "output_ready"
EventOutputDelivered == "output_delivered"
EventAgentFailed     == "agent_failed"

AgentEvent == {EventTaskAssigned, EventWorkStarted, EventOutputReady,
               EventOutputDelivered, EventAgentFailed}

\* Mutant: an assigned agent may report.
transitionTableLoose ==
    { <<StateIdle,      EventTaskAssigned,    StateAssigned>>,
      <<StateAssigned,  EventWorkStarted,     StateWorking>>,
      <<StateAssigned,  EventOutputReady,     StateReporting>>,
      <<StateWorking,   EventOutputReady,     StateReporting>>,
      <<StateReporting, EventOutputDelivered, StateIdle>> }

\* The target of every (state, event) pair of the table, as triples.
transitionTable ==
    { <<StateIdle,      EventTaskAssigned,    StateAssigned>>,
      <<StateAssigned,  EventWorkStarted,     StateWorking>>,
      <<StateWorking,   EventOutputReady,     StateReporting>>,
      <<StateReporting, EventOutputDelivered, StateIdle>> }

\* The states ValidTransition accepts the event in, with the state it moves
\* to.  The empty set is the code's *InvalidTransitionError.  agent_failed is
\* accepted from any state and always resets to idle.
ValidTransition(from, event) ==
    IF event = EventAgentFailed
    THEN {StateIdle}
    ELSE { to \in AgentState : <<from, event, to>> \in transitionTable }
=============================================================================
